-------------------------- MODULE BootSerialProofs --------------------------
(***************************************************************************)
(* What BootSession guarantees in the executions docs/architecture.md      *)
(* describes, in which the object serializes boot decisions: any number of *)
(* boots, sockets and workloads, and no handler begins while another one   *)
(* is suspended (Serialized). Nothing in the code rules the other          *)
(* executions out, and the runs terminal_overwritten, pending_limit_raced  *)
(* and attached_not_sent show what happens in them.                        *)
(*                                                                         *)
(* Between two awaits of its one handler the object may owe something: the *)
(* index row of a transition, the payload of an approval, an alarm. The    *)
(* invariant says that what is not as it should be is owed by that handler *)
(* for the boot it works on; when no handler is left, nothing is owed.     *)
(***************************************************************************)
EXTENDS BootReleaseProofs, FiniteSetTheorems

\* A handler begins when none is in flight.
Serialized == [][\A t \in Tasks : Start(t) => Quiet]_vars

-----------------------------------------------------------------------------
(* The invariant *)

\* One handler is in flight.
InTurn == \A s, t \in Tasks : tasks[s] # Idle /\ tasks[t] # Idle => s = t

\* There is room for one more pending boot of the workload's token.
Room(k) == Cardinality(PendingOf(TokenOf[k])) < MaxPending

\* What the handler t read is still so, and what it has begun is not yet done.
SerialTask(t) ==
  LET T == tasks[t]
  IN /\ \A q \in T.queue : q.row = boots[q.boot]
     /\ T.queue # {} => T.pc \in Writing /\ T.ev \in Closing
     /\ T.pc \in {"proof", "attached"} => T.snap = boots[T.boot]
     /\ T.pc \in {"insert", "opened"} => boots[T.boot].status = "PENDING"
     /\ T.pc = "mirror" => Target(T.ev) = boots[T.boot].status
     /\ T.pc \in {"mirror", "record"} /\ T.ev = "approve" => records[T.boot] = 0
     /\ T.kind = "alarm" => T.pc \in Writing /\ T.ev \in Expiring
     /\ T.pc = "keyed" => T.snap.pending # 0
     /\ \A k \in Clients : T.pc \in {"env", "keyed"} /\ T.who = k => Room(k)

\* The socket a hello came on is not bound yet, and nobody shut it.
SocketWaits(t) ==
  tasks[t].kind = "hello" =>
    conns[tasks[t].conn].st # "shut" /\ conns[tasks[t].conn].att = NULL

\* A live boot has a deadline.
RowTimes(b) ==
  LET row == boots[b]
  IN /\ row.status = "PENDING" => row.pending # 0
     /\ row.status = "DELIVERED" => row.digest # 0
     /\ row.digest # 0 => row.payload # 0

Limits ==
  \A tk \in Tokens : IsFiniteSet(PendingOf(tk)) /\ Cardinality(PendingOf(tk)) <= MaxPending

\* The handler has written a status to the object and not yet to the index.
OwesIndex(t) == tasks[t].pc \in {"insert", "mirror"}

IndexFollows ==
  \A b \in Boots :
    /\ index[b] # boots[b].status => \E t \in Tasks : OwesIndex(t) /\ tasks[t].boot = b
    /\ index[b] = NoStatus /\ boots[b].status # NoStatus =>
         \E t \in Tasks : tasks[t].pc = "insert" /\ tasks[t].boot = b

\* The handler has yet to send a payload.
OwesSend(t) ==
  tasks[t].pc = "attached" \/ (tasks[t].pc \in Writing /\ tasks[t].ev = "approve")

SocketsServed ==
  \A b \in Boots : boots[b].status = "APPROVED" /\ SocketsOf(conns, b) # {} =>
    \E t \in Tasks :
      /\ OwesSend(t) /\ tasks[t].boot = b
      /\ tasks[t].pc = "attached" => SocketsOf(conns, b) \subseteq {tasks[t].conn}

\* The handler ends with the alarm set anew.
OwesAlarm(t) ==
  LET T == tasks[t]
  IN \/ T.kind = "alarm"
     \/ T.pc \in {"insert", "opened"}
     \/ /\ T.kind = "complete" /\ T.pc \in Writing
        /\ T.ev \in {"approve", "deliver", "redeliver"}

Covered(b) == alarm # 0 /\ alarm <= Deadline(boots[b])

AlarmSet ==
  \A b \in LiveBoots : ~Covered(b) =>
    \E t \in Tasks : OwesAlarm(t) /\ (tasks[t].kind = "alarm" \/ tasks[t].boot = b)

\* What was read is current, also where a step failed or the object restarted; that
\* nothing is left undone holds as long as nothing failed.
Current ==
  /\ InTurn
  /\ \A t \in Tasks : SerialTask(t) /\ SocketWaits(t)
  /\ \A b \in Boots : RowTimes(b)
  /\ Limits

SerialInv ==
  /\ Current
  /\ faults = 0 => IndexFollows /\ SocketsServed /\ AlarmSet

-----------------------------------------------------------------------------
(* Two kinds of steps nearly every handler takes *)

\* cs has no new socket for any boot.
Fewer(cs) == \A b \in Boots : SocketsOf(cs, b) \subseteq SocketsOf(conns, b)

\* The alarm is set anew, or the handler never had to.
AlarmKept(t) == Rearm(alarm) \/ Rearm(0) \/ (alarm' = alarm /\ ~OwesAlarm(t))

\* The handler t writes no row and ends or goes on. It may bind its socket to a boot
\* it has yet to serve.
Reads(t) ==
  LET U == tasks'[t]
  IN /\ boots' = boots /\ index' = index /\ records' = records
     /\ ~OwesIndex(t) /\ ~OwesSend(t)
     /\ U.queue = {}
     /\ U.pc \notin {"insert", "opened"} \cup Writing
     /\ U.kind # "alarm"
     /\ U.pc \in {"proof", "attached"} => U.snap = boots[U.boot]
     /\ U.pc = "keyed" => U.snap.pending # 0
     /\ \A k \in Clients : U.pc \in {"env", "keyed"} /\ U.who = k => Room(k)
     /\ \A b \in Boots, c \in Conns :
          /\ boots[b].status = "APPROVED"
          /\ c \in SocketsOf(conns', b)
          => \/ c \in SocketsOf(conns, b)
             \/ U.pc = "attached" /\ U.boot = b /\ U.conn = c
     /\ AlarmKept(t)

\* The handler t closes a boot along the table and is left with its D1 writes.
Closes(t) ==
  LET U == tasks'[t]
  IN \E b \in Boots, ev \in Closing :
       /\ Allowed(boots[b].status, ev)
       /\ boots' = [boots EXCEPT ![b].status = Target(ev), ![b].frame = 0]
       /\ index' = index /\ records' = records
       /\ ~OwesIndex(t) /\ ~OwesSend(t)
       /\ U.pc = "mirror" /\ U.ev = ev /\ U.boot = b
       /\ \A q \in U.queue : q.boot # b /\ q.row = boots[q.boot]
       /\ U.kind = "alarm" => ev \in Expiring
       /\ Fewer(conns')
       /\ U.kind = "alarm" \/ (alarm' = alarm /\ ~OwesAlarm(t))

-----------------------------------------------------------------------------
(* The sockets a stretch of code leaves *)

\* A table nothing was done to.
LEMMA FewerSame == Fewer(conns)
BY DEF Fewer

\* A table out of which sockets were only shut.
LEMMA FewerLess ==
  ASSUME NEW cs, Less(cs)
  PROVE  Fewer(cs)
BY DEF Fewer, Less, SocketsOf, NoConn

\* A table from which one more socket is dropped.
LEMMA FewerShut ==
  ASSUME NEW cs \in [Conns -> Conn], Fewer(cs), NEW t, NEW c
  PROVE  Fewer(Shut(t, cs, c))
BY DEF Fewer, Shut, SocketsOf, NoConn, Conn

-----------------------------------------------------------------------------
(* Handlers that end, and handlers that close a boot *)

\* A step that leaves the rows, the index and the records.
Leaves == boots' = boots /\ index' = index /\ records' = records

\* A handler that ends here with no more sockets.
LEMMA FinishReads ==
  ASSUME IInv, NEW t \in Tasks, Finish(t) \/ (tasks[t] = Idle /\ UNCHANGED tasks), Leaves,
         ~OwesIndex(t), ~OwesSend(t), Fewer(conns'), AlarmKept(t)
  PROVE  Reads(t)
<1>1. tasks'[t] = Idle
  BY TypeParts DEF Finish
<1>2. \A b \in Boots : SocketsOf(conns', b) \subseteq SocketsOf(conns, b)
  BY DEF Fewer
<1> QED
  BY <1>1, <1>2 DEF Reads, Idle, Writing, Leaves

\* A handler that goes on with the record U, holding no more sockets than before.
LEMMA GoesOn ==
  ASSUME IInv, NEW t \in Tasks, NEW U, tasks' = [tasks EXCEPT ![t] = U], Leaves,
         ~OwesIndex(t), ~OwesSend(t), Fewer(conns'), AlarmKept(t),
         U.queue = {},
         U.pc \notin {"insert", "opened"} \cup Writing,
         U.kind # "alarm",
         U.pc \in {"proof", "attached"} => U.snap = boots[U.boot],
         U.pc = "keyed" => U.snap.pending # 0,
         U.pc \in {"env", "keyed"} => Room(U.who)
  PROVE  Reads(t)
<1>1. tasks'[t] = U
  BY TypeParts
<1>2. \A b \in Boots : SocketsOf(conns', b) \subseteq SocketsOf(conns, b)
  BY DEF Fewer
<1> QED
  BY <1>1, <1>2 DEF Reads, Leaves

\* What a handler that closes a boot leaves as it was.
ClosesAt(t, T) ==
  /\ index' = index /\ records' = records
  /\ ~OwesIndex(t) /\ ~OwesSend(t)
  /\ Fewer(conns')
  /\ T.kind = "alarm" \/ (alarm' = alarm /\ ~OwesAlarm(t))

\* #apply on a row that is as the handler read it.
LEMMA CloseNow ==
  ASSUME IInv, NEW t \in Tasks, NEW T \in Task, NEW b \in Boots, NEW snap, NEW ev \in Closing,
         Close(t, T, b, snap, ev), snap.status = boots[b].status, ClosesAt(t, T),
         \A q \in T.queue : q.boot # b /\ q.row = boots[q.boot],
         T.kind = "alarm" => ev \in Expiring
  PROVE  Closes(t)
<1> DEFINE U == [T EXCEPT !.pc = FirstWrite(ev), !.ev = ev, !.boot = b]
<1>1. FirstWrite(ev) = "mirror"
  BY DEF FirstWrite, Closing
<1>2. U.pc = "mirror" /\ U.ev = ev /\ U.boot = b /\ U.queue = T.queue /\ U.kind = T.kind
  BY <1>1 DEF Task
<1>3. tasks'[t] = U
  BY TypeParts DEF Close
<1>4. /\ Allowed(boots[b].status, ev)
      /\ boots' = [boots EXCEPT ![b].status = Target(ev), ![b].frame = 0]
  BY DEF Close
<1> HIDE DEF U
<1> QED
  BY <1>2, <1>3, <1>4 DEF Closes, ClosesAt

\* The rows of a list are as they were read, so the next of them is closed along the
\* table and the others, being of other boots, stay as they were read.
LEMMA QueueNow ==
  ASSUME IInv, NEW t \in Tasks, NEW T \in Task, NextInQueue(t, T), ClosesAt(t, T),
         \A q \in T.queue : q.row = boots[q.boot]
  PROVE  Closes(t)
<1>1. PICK q \in T.queue :
        Close(t, [T EXCEPT !.queue = @ \ {q}], q.boot, q.row,
              IF T.kind = "cancelAll" THEN "cancel" ELSE ExpireEvent(q.row))
  BY DEF NextInQueue
<1> DEFINE U == [T EXCEPT !.queue = @ \ {q}]
           ev == IF T.kind = "cancelAll" THEN "cancel" ELSE ExpireEvent(q.row)
<1>2. U \in Task /\ U.kind = T.kind /\ U.queue = T.queue \ {q}
  BY DEF Task
<1>3. ev \in Closing /\ (T.kind = "alarm" => ev \in Expiring)
  BY ExpireCloses DEF Closing, ExpireEvent, Expiring
<1>4. q \in [boot : Boots, row : Row] /\ q.boot \in Boots /\ q.row = boots[q.boot]
  BY DEF Task
<1>5. \A x \in T.queue \ {q} : x.boot # q.boot
  <2> SUFFICES ASSUME NEW x \in T.queue, x.boot = q.boot PROVE x = q
    OBVIOUS
  <2>1. x \in [boot : Boots, row : Row] /\ x.row = q.row
    BY <1>4 DEF Task
  <2> QED
    BY <1>4, <2>1
<1>6. Close(t, U, q.boot, q.row, ev)
  BY <1>1
<1>7. \A x \in U.queue : x.boot # q.boot /\ x.row = boots[x.boot]
  BY <1>2, <1>5
<1>8. ClosesAt(t, U)
  BY <1>2 DEF ClosesAt
<1> HIDE DEF U, ev
<1> QED
  BY <1>2, <1>3, <1>4, <1>6, <1>7, <1>8, CloseNow

\* A handler that has not begun owes nothing.
LEMMA IdleOwes ==
  ASSUME NEW t, tasks[t] = Idle
  PROVE  ~OwesIndex(t) /\ ~OwesSend(t) /\ ~OwesAlarm(t)
BY DEF OwesIndex, OwesSend, OwesAlarm, Idle, Writing

\* The lists of boots, as they are read.
LEMMA OverdueNow == \A q \in OverdueQueue : q.row = boots[q.boot]
BY DEF OverdueQueue

\* What a handler does before its first await.
LEMMA StartNow ==
  ASSUME IInv, NEW t \in Tasks, Start(t)
  PROVE  Reads(t) \/ Closes(t)
<1>0. /\ Idle \in Task /\ Idle.queue = {} /\ Idle.kind = "none"
      /\ conns \in [Conns -> Conn] /\ tasks \in [Tasks -> Task]
      /\ Fewer(conns)
  BY IdleType, TypeParts, FewerSame DEF Idle
<1>1. ASSUME NEW c \in Conns, Hello(t, c) PROVE Reads(t) \/ Closes(t)
  <2> DEFINE T == [Idle EXCEPT !.kind = "hello", !.conn = c, !.who = conns[c].client,
                               !.queue = OverdueQueue]
             U == [T EXCEPT !.pc = "env", !.ev = "none", !.boot = NULL]
  <2>0. tasks[t] = Idle
    BY <1>1 DEF Hello, FrameOn
  <2>1. T \in Task /\ T.kind = "hello" /\ T.queue = OverdueQueue /\ T.conn = c
    <3>1. OverdueQueue \in SUBSET [boot : Boots, row : Row]
      BY TypeParts DEF OverdueQueue
    <3>2. conns[c].client \in Clients \cup {NULL}
      BY TypeParts DEF Conn
    <3> QED
      BY <1>0, <3>1, <3>2 DEF Idle, Task, Kinds
  <2>2. U.pc = "env" /\ U.kind = "hello" /\ U.who = T.who /\ U.queue = T.queue
    BY DEF Idle
  <2>3. /\ alarm' = alarm /\ index' = index /\ records' = records
        /\ \/ Finish(t) \/ UNCHANGED tasks
           \/ NextInQueue(t, T) /\ conns' = conns
           \/ /\ tasks' = [tasks EXCEPT ![t] = U] /\ conns' = conns
              /\ Admissible(T.who) /\ T.queue = {}
        /\ conns' = conns \/ conns' = Shut(t, conns, c)
        /\ boots' = boots \/ NextInQueue(t, T)
    BY <1>1, <2>1 DEF Hello, HelloAdmit, d1
  <2>4. ~OwesIndex(t) /\ ~OwesSend(t) /\ ~OwesAlarm(t) /\ tasks[t] = Idle
    BY <2>0, IdleOwes
  <2> HIDE DEF T, U
  <2>5. Fewer(conns') /\ AlarmKept(t)
    BY <1>0, <2>3, <2>4, FewerShut DEF AlarmKept
  <2>6. CASE NextInQueue(t, T)
    <3>1. ClosesAt(t, T)
      BY <2>3, <2>4, <2>5 DEF ClosesAt
    <3> QED
      BY <2>1, <2>6, <3>1, OverdueNow, QueueNow
  <2>7. CASE ~NextInQueue(t, T)
    <3>1. Leaves
      BY <2>3, <2>7 DEF Leaves
    <3>2. CASE Finish(t) \/ UNCHANGED tasks
      BY <2>4, <2>5, <3>1, <3>2, FinishReads
    <3>3. CASE tasks' = [tasks EXCEPT ![t] = U] /\ Admissible(T.who) /\ T.queue = {}
      BY <2>2, <2>4, <2>5, <3>1, <3>3, GoesOn DEF Writing, Admissible, Room
    <3> QED
      BY <2>3, <2>7, <3>2, <3>3
  <2> QED
    BY <2>6, <2>7
<1>2. ASSUME NEW c \in Conns, NEW b \in Boots, Resume(t, c, b) PROVE Reads(t) \/ Closes(t)
  <2> DEFINE T == [Idle EXCEPT !.kind = "resume", !.conn = c, !.who = conns[c].client]
  <2>1. T \in Task /\ T.kind = "resume" /\ T.queue = {}
    <3>1. conns[c].client \in Clients \cup {NULL}
      BY TypeParts DEF Conn
    <3> QED
      BY <1>0, <3>1 DEF Idle, Task, Kinds
  <2>2. /\ alarm' = alarm /\ index' = index /\ records' = records /\ tasks[t] = Idle
        /\ \/ Close(t, T, b, boots[b], ExpireEvent(boots[b])) /\ conns' = conns
           \/ /\ Finish(t) \/ UNCHANGED tasks
              /\ boots' = boots
        /\ conns' \in {conns, Shut(t, conns, c)}
    BY <1>2 DEF Resume, ResumeDecide, FrameOn, d1
  <2>3. ~OwesIndex(t) /\ ~OwesSend(t) /\ ~OwesAlarm(t)
    BY <2>2, IdleOwes
  <2> HIDE DEF T
  <2>4. Fewer(conns') /\ AlarmKept(t)
    BY <1>0, <2>2, <2>3, FewerShut DEF AlarmKept
  <2>5. CASE Close(t, T, b, boots[b], ExpireEvent(boots[b]))
    <3>1. ClosesAt(t, T)
      BY <2>2, <2>3, <2>4 DEF ClosesAt
    <3> QED
      BY <2>1, <2>5, <3>1, ExpireCloses, CloseNow
  <2>6. CASE (Finish(t) \/ UNCHANGED tasks) /\ boots' = boots
    BY <2>2, <2>3, <2>4, <2>6, FinishReads DEF Leaves
  <2> QED
    BY <2>2, <2>5, <2>6
<1>3. ASSUME NEW c \in Conns, NEW b \in Boots, NEW good \in BOOLEAN,
             ChallengeResponse(t, c, b, good)
      PROVE  Reads(t)
  <2> DEFINE U == [Idle EXCEPT !.pc = "proof", !.kind = "challenge", !.boot = b,
                        !.snap = boots[b], !.conn = c, !.who = conns[c].client,
                        !.proof = good,
                        !.tok = TokenOf[boots[b].key] \notin revoked]
  <2>1. /\ alarm' = alarm /\ Leaves /\ tasks[t] = Idle
        /\ tasks' = [tasks EXCEPT ![t] = U] \/ UNCHANGED tasks
        /\ conns' \in {conns, Shut(t, conns, c)}
    BY <1>3 DEF ChallengeResponse, FrameOn, Leaves, d1
  <2>2. ~OwesIndex(t) /\ ~OwesSend(t) /\ ~OwesAlarm(t)
    BY <2>1, IdleOwes
  <2>3. Fewer(conns') /\ AlarmKept(t)
    BY <1>0, <2>1, <2>2, FewerShut DEF AlarmKept
  <2>4. U.pc = "proof" /\ U.kind = "challenge" /\ U.queue = {} /\ U.snap = boots[U.boot]
    BY DEF Idle
  <2> HIDE DEF U
  <2>5. CASE UNCHANGED tasks
    BY <2>1, <2>2, <2>3, <2>5, FinishReads
  <2>6. CASE tasks' = [tasks EXCEPT ![t] = U]
    BY <2>1, <2>2, <2>3, <2>4, <2>6, GoesOn DEF Writing
  <2> QED
    BY <2>1, <2>5, <2>6
<1>4. ASSUME NEW c \in Conns, NEW b \in Boots, NEW good \in BOOLEAN, Received(t, c, b, good)
      PROVE  Reads(t) \/ Closes(t)
  <2> DEFINE T == [Idle EXCEPT !.kind = "received", !.conn = c, !.who = conns[c].client]
  <2>1. T \in Task /\ T.kind = "received" /\ T.queue = {}
    <3>1. conns[c].client \in Clients \cup {NULL}
      BY TypeParts DEF Conn
    <3> QED
      BY <1>0, <3>1 DEF Idle, Task, Kinds
  <2>2. /\ alarm' = alarm /\ index' = index /\ records' = records /\ tasks[t] = Idle
        /\ \/ Close(t, T, b, boots[b], "consume")
           \/ UNCHANGED tasks /\ boots' = boots
        /\ conns' \in {conns, Shut(t, conns, c)}
    BY <1>4 DEF Received, FrameOn, d1
  <2>3. ~OwesIndex(t) /\ ~OwesSend(t) /\ ~OwesAlarm(t)
    BY <2>2, IdleOwes
  <2> HIDE DEF T
  <2>4. Fewer(conns') /\ AlarmKept(t)
    BY <1>0, <2>2, <2>3, FewerShut DEF AlarmKept
  <2>5. CASE Close(t, T, b, boots[b], "consume")
    <3>1. ClosesAt(t, T)
      BY <2>2, <2>3, <2>4 DEF ClosesAt
    <3> QED
      BY <2>1, <2>5, <3>1, CloseNow DEF Closing
  <2>6. CASE UNCHANGED tasks /\ boots' = boots
    BY <2>2, <2>3, <2>4, <2>6, FinishReads DEF Leaves
  <2> QED
    BY <2>2, <2>5, <2>6
<1>5. ASSUME NEW b \in Boots, NEW kind \in {"prepare", "complete", "decline", "cancelBoot"},
             NEW ev \in Closing, tasks[t] = Idle,
             Close(t, [Idle EXCEPT !.kind = kind], b, boots[b], ev),
             alarm' = alarm, conns' = conns, UNCHANGED d1
      PROVE  Closes(t)
  <2> DEFINE T == [Idle EXCEPT !.kind = kind]
  <2>1. T \in Task /\ T.kind = kind /\ T.queue = {}
    BY <1>0 DEF Idle, Task, Kinds
  <2>2. ClosesAt(t, T) /\ kind # "alarm"
    BY <1>0, <1>5, IdleOwes DEF ClosesAt, d1
  <2>3. Close(t, T, b, boots[b], ev)
    BY <1>5
  <2> HIDE DEF T
  <2> QED
    BY <2>1, <2>2, <2>3, CloseNow
<1>6. ASSUME NEW b \in Boots, NEW kind \in {"prepare", "complete"}, NEW ctx,
             ApprovalStart(t, b, kind, ctx)
      PROVE  Reads(t) \/ Closes(t)
  <2> DEFINE U == [Idle EXCEPT !.pc = "state", !.kind = kind, !.boot = b,
                        !.snap = boots[b], !.tok = TokenLive(TokenOf[boots[b].key]),
                        !.rev = rev, !.ctx = ctx]
  <2>1. /\ tasks[t] = Idle /\ alarm' = alarm /\ conns' = conns /\ UNCHANGED d1
        /\ \/ Close(t, [Idle EXCEPT !.kind = kind], b, boots[b], "expirePending")
           \/ tasks' = [tasks EXCEPT ![t] = U] /\ boots' = boots
    BY <1>6 DEF ApprovalStart
  <2>2. U.pc = "state" /\ U.kind = kind /\ U.queue = {}
    BY DEF Idle
  <2> HIDE DEF U
  <2>3. CASE tasks' = [tasks EXCEPT ![t] = U] /\ boots' = boots
    <3>1. Leaves /\ AlarmKept(t)
      BY <2>1, <2>3, IdleOwes DEF Leaves, d1, AlarmKept
    <3> QED
      BY <1>0, <2>1, <2>2, <2>3, <3>1, IdleOwes, GoesOn DEF Writing
  <2> QED
    BY <1>5, <2>1, <2>3 DEF Closing
<1>7. ASSUME NEW x \in contexts, Complete(t, x) PROVE Reads(t) \/ Closes(t)
  BY <1>6, <1>7, TypeParts DEF Complete, Stored, Context
<1>8. ASSUME NEW b \in Boots, Decline(t, b) PROVE Closes(t)
  BY <1>5, <1>8 DEF Decline, Closing
<1>9. ASSUME NEW b \in Boots, CancelBoot(t, b) PROVE Reads(t) \/ Closes(t)
  <2>1. CASE Allowed(boots[b].status, "cancel")
    BY <1>5, <1>9, <2>1 DEF CancelBoot, Closing
  <2>2. CASE ~Allowed(boots[b].status, "cancel")
    <3>1. tasks[t] = Idle /\ UNCHANGED tasks /\ Leaves /\ AlarmKept(t) /\ conns' = conns
      BY <1>9, <2>2 DEF CancelBoot, Leaves, d1, AlarmKept
    <3> QED
      BY <1>0, <3>1, IdleOwes, FinishReads
  <2> QED
    BY <2>1, <2>2
<1>10. ASSUME NEW tks, CancelAll(t, tks) PROVE Reads(t) \/ Closes(t)
  <2> DEFINE Q == {[boot |-> b, row |-> boots[b]] : b \in
                    {x \in LiveBoots : /\ TokenOf[boots[x].key] \in tks
                                       /\ Allowed(boots[x].status, "cancel")}}
             T == [Idle EXCEPT !.kind = "cancelAll", !.queue = Q]
  <2>1. T \in Task /\ T.kind = "cancelAll" /\ T.queue = Q
    <3>1. Q \in SUBSET [boot : Boots, row : Row]
      BY TypeParts DEF LiveBoots
    <3> HIDE DEF Q
    <3> QED
      BY <1>0, <3>1 DEF Idle, Task, Kinds
  <2>2. \A q \in Q : q.row = boots[q.boot]
    OBVIOUS
  <2>3. /\ tasks[t] = Idle /\ conns' = conns /\ UNCHANGED d1
        /\ \/ NextInQueue(t, T) /\ alarm' = alarm
           \/ Rearm(alarm) /\ UNCHANGED <<boots, tasks>>
    BY <1>10 DEF CancelAll
  <2> HIDE DEF T, Q
  <2>4. CASE NextInQueue(t, T) /\ alarm' = alarm
    <3>1. ClosesAt(t, T)
      BY <1>0, <2>3, <2>4, IdleOwes DEF ClosesAt, d1
    <3> QED
      BY <2>1, <2>2, <2>4, <3>1, QueueNow
  <2>5. CASE Rearm(alarm) /\ UNCHANGED <<boots, tasks>>
    <3>1. Leaves /\ AlarmKept(t)
      BY <2>3, <2>5 DEF Leaves, d1, AlarmKept
    <3> QED
      BY <1>0, <2>3, <2>5, <3>1, IdleOwes, FinishReads
  <2> QED
    BY <2>3, <2>4, <2>5
<1>11. CASE AlarmFires(t)
  <2> DEFINE T == [Idle EXCEPT !.kind = "alarm", !.queue = OverdueQueue]
  <2>1. T \in Task /\ T.kind = "alarm" /\ T.queue = OverdueQueue
    <3>1. OverdueQueue \in SUBSET [boot : Boots, row : Row]
      BY TypeParts DEF OverdueQueue
    <3> QED
      BY <1>0, <3>1 DEF Idle, Task, Kinds
  <2>2. /\ tasks[t] = Idle /\ conns' = conns /\ UNCHANGED d1
        /\ \/ NextInQueue(t, T)
           \/ Rearm(0) /\ UNCHANGED <<boots, tasks>>
    BY <1>11 DEF AlarmFires
  <2> HIDE DEF T
  <2>3. CASE NextInQueue(t, T)
    <3>1. ClosesAt(t, T)
      BY <1>0, <2>1, <2>2, IdleOwes DEF ClosesAt, d1
    <3> QED
      BY <2>1, <2>3, <3>1, OverdueNow, QueueNow
  <2>4. CASE Rearm(0) /\ UNCHANGED <<boots, tasks>>
    <3>1. Leaves /\ AlarmKept(t)
      BY <2>2, <2>4 DEF Leaves, d1, AlarmKept
    <3> QED
      BY <1>0, <2>2, <2>4, <3>1, IdleOwes, FinishReads
  <2> QED
    BY <2>2, <2>3, <2>4
<1> QED
  BY <1>1, <1>2, <1>3, <1>4, <1>6, <1>7, <1>8, <1>9, <1>10, <1>11 DEF Start, Prepare

-----------------------------------------------------------------------------
(* Handlers that resume *)

\* A handler that is still looking owes nothing.
LEMMA LookingOwes ==
  ASSUME NEW t, SerialTask(t), tasks[t].pc \in {"env", "keyed", "proof", "state", "hash"}
  PROVE  /\ ~OwesIndex(t) /\ ~OwesSend(t) /\ ~OwesAlarm(t)
         /\ tasks[t].queue = {} /\ tasks[t].kind # "alarm"
BY DEF OwesIndex, OwesSend, OwesAlarm, Writing, SerialTask

\* One that has closed a boot owes an alarm only if it is the alarm.
LEMMA ClosedOwes ==
  ASSUME NEW t, SerialTask(t), tasks[t].pc = "audit", tasks[t].ev \in Closing
  PROVE  /\ ~OwesIndex(t) /\ ~OwesSend(t)
         /\ tasks[t].kind = "alarm" => tasks[t].ev \in Expiring
         /\ tasks[t].kind # "alarm" => ~OwesAlarm(t)
BY DEF OwesIndex, OwesSend, OwesAlarm, Writing, SerialTask, Closing

\* #handleChallengeResponse on a row that is current.
LEMMA AttachReads ==
  ASSUME IInv, NEW t \in Tasks, NEW b \in Boots, NEW cs \in [Conns -> Conn], Fewer(cs),
         ChallengeDecide(t, tasks[t], b, boots[b], cs), tasks[t].kind = "challenge",
         Leaves, ~OwesIndex(t), ~OwesSend(t), AlarmKept(t)
  PROVE  Reads(t)
<1> DEFINE T == tasks[t]
           U == [T EXCEPT !.pc = "attached", !.ev = "none", !.boot = b, !.snap = boots[b]]
<1>0. T \in Task
  BY TypeParts
<1>1. CASE boots[b].status \in Terminal
  <2>1. Finish(t) /\ conns' \in {cs, Shut(t, cs, T.conn)}
    BY <1>1 DEF ChallengeDecide
  <2>2. Fewer(conns')
    BY <2>1, FewerShut
  <2> QED
    BY <2>1, <2>2, FinishReads
<1>2. CASE boots[b].status \notin Terminal
  <2>1. conns' = [cs EXCEPT ![T.conn].att = b] /\ tasks' = [tasks EXCEPT ![t] = U]
    BY <1>2 DEF ChallengeDecide
  <2>2. /\ U.pc = "attached" /\ U.kind = "challenge" /\ U.boot = b /\ U.snap = boots[b]
        /\ U.queue = {} /\ U.conn = T.conn
    BY <1>0, TypeParts DEF Task, TaskInv
  <2> HIDE DEF U
  <2>3. tasks'[t] = U
    BY <2>1, TypeParts
  <2>4. \A x \in Boots, c \in Conns : c \in SocketsOf(conns', x) =>
          c \in SocketsOf(cs, x) \/ (x = b /\ c = T.conn)
    BY <2>1 DEF SocketsOf, Conn
  <2>5. \A x \in Boots, c \in Conns : c \in SocketsOf(conns', x) =>
          c \in SocketsOf(conns, x) \/ (x = b /\ c = T.conn)
    BY <2>4 DEF Fewer
  <2> QED
    BY <2>2, <2>3, <2>5 DEF Reads, Leaves, Writing
<1> QED
  BY <1>1, <1>2

\* The answer of a challenge, judged on the row as it was when it came.
LEMMA VerifiedNow ==
  ASSUME IInv, NEW t \in Tasks, SerialTask(t), ChallengeVerified(t)
  PROVE  Reads(t) \/ Closes(t)
<1> DEFINE T == tasks[t]
<1>0. T \in Task /\ TaskInv(t) /\ conns \in [Conns -> Conn] /\ Fewer(conns)
  BY TypeParts, FewerSame
<1>1. /\ T.kind = "challenge" /\ T.boot \in Boots /\ T.queue = {}
      /\ T.snap = boots[T.boot]
  BY <1>0 DEF ChallengeVerified, TaskInv, Task, SerialTask
<1>2. ~OwesIndex(t) /\ ~OwesSend(t) /\ ~OwesAlarm(t)
  BY LookingOwes DEF ChallengeVerified
<1>3. UNCHANGED d1
  BY DEF ChallengeVerified
<1>4. \/ /\ Finish(t) /\ boots' = boots /\ conns' = Shut(t, conns, T.conn)
         /\ UNCHANGED alarm \/ Rearm(alarm)
      \/ /\ \E ev \in {"cancel", ExpireEvent(T.snap)} : Close(t, T, T.boot, T.snap, ev)
         /\ UNCHANGED <<conns, alarm>>
      \/ /\ ChallengeDecide(t, T, T.boot, T.snap, conns)
         /\ UNCHANGED <<boots, alarm>>
  BY DEF ChallengeVerified
<1>5. CASE /\ Finish(t) /\ boots' = boots /\ conns' = Shut(t, conns, T.conn)
           /\ UNCHANGED alarm \/ Rearm(alarm)
  <2>1. Leaves /\ AlarmKept(t) /\ Fewer(conns')
    BY <1>0, <1>2, <1>3, <1>5, FewerShut DEF Leaves, AlarmKept, d1
  <2> QED
    BY <1>2, <1>5, <2>1, FinishReads
<1>6. ASSUME NEW ev \in {"cancel", ExpireEvent(T.snap)}, Close(t, T, T.boot, T.snap, ev),
             UNCHANGED <<conns, alarm>>
      PROVE  Closes(t)
  <2>1. ClosesAt(t, T)
    BY <1>0, <1>2, <1>3, <1>6 DEF ClosesAt, d1
  <2>2. ev \in Closing
    BY ExpireCloses DEF Closing
  <2> QED
    BY <1>0, <1>1, <1>6, <2>1, <2>2, CloseNow
<1>7. CASE ChallengeDecide(t, T, T.boot, T.snap, conns) /\ UNCHANGED <<boots, alarm>>
  <2>1. Leaves /\ AlarmKept(t)
    BY <1>2, <1>3, <1>7 DEF Leaves, AlarmKept, d1
  <2> QED
    BY <1>0, <1>1, <1>2, <1>7, <2>1, AttachReads
<1> QED
  BY <1>4, <1>5, <1>6, <1>7

\* #expire returns to its caller.
LEMMA AfterExpireNow ==
  ASSUME IInv, NEW t \in Tasks, SerialTask(t), AfterExpire(t)
  PROVE  Reads(t) \/ Closes(t)
<1> DEFINE T == tasks[t]
           b == T.boot
           cs == ShutAll(conns, b)
           U == [T EXCEPT !.pc = "env", !.ev = "none", !.boot = NULL]
<1>0. T \in Task /\ TaskInv(t)
  BY TypeParts
<1>1. b \in Boots /\ T.pc = "audit" /\ T.ev \in Closing
  BY <1>0 DEF AfterExpire, TaskInv, Task, Closing
<1>2. cs \in [Conns -> Conn] /\ Fewer(cs)
  BY <1>1, LessShutAll, FewerLess DEF Less
<1>3. ~OwesIndex(t) /\ ~OwesSend(t) /\ (T.kind # "alarm" => ~OwesAlarm(t))
  BY <1>1, ClosedOwes
<1>4. UNCHANGED d1
  BY DEF AfterExpire
<1>5. \/ /\ NextInQueue(t, T)
         /\ conns' = cs /\ UNCHANGED alarm
      \/ /\ T.kind = "hello" /\ T.queue = {} /\ UNCHANGED <<boots, alarm>>
         /\ HelloAdmit(t, T, cs)
      \/ /\ Finish(t) /\ Rearm(alarm) /\ boots' = boots
         /\ conns' \in {cs, Shut(t, cs, T.conn)}
      \/ /\ T.kind = "challenge" /\ Rearm(alarm) /\ boots' = boots
         /\ ChallengeDecide(t, T, b, boots[b], cs)
  BY ZenonT(60) DEF AfterExpire, ResumeDecide
<1> HIDE DEF cs
<1>6. CASE NextInQueue(t, T) /\ conns' = cs /\ UNCHANGED alarm
  <2>1. ClosesAt(t, T)
    BY <1>2, <1>3, <1>4, <1>6 DEF ClosesAt, d1
  <2> QED
    BY <1>0, <1>6, <2>1, QueueNow DEF SerialTask
<1>7. CASE T.kind = "hello" /\ T.queue = {} /\ UNCHANGED <<boots, alarm>> /\ HelloAdmit(t, T, cs)
  <2>1. Leaves /\ AlarmKept(t)
    BY <1>3, <1>4, <1>7 DEF Leaves, AlarmKept, d1
  <2>2. CASE Admissible(T.who)
    <3>1. tasks' = [tasks EXCEPT ![t] = U] /\ conns' = cs
      BY <1>7, <2>2 DEF HelloAdmit
    <3>2. U.pc = "env" /\ U.kind = "hello" /\ U.who = T.who /\ U.queue = {}
      BY <1>0, <1>7 DEF Task
    <3> HIDE DEF U
    <3> QED
      BY <1>2, <1>3, <2>1, <2>2, <3>1, <3>2, GoesOn DEF Writing, Admissible, Room
  <2>3. CASE ~Admissible(T.who)
    <3>1. Finish(t) /\ conns' = Shut(t, cs, T.conn)
      BY <1>7, <2>3 DEF HelloAdmit
    <3> QED
      BY <1>2, <1>3, <2>1, <3>1, FinishReads, FewerShut
  <2> QED
    BY <2>2, <2>3
<1>8. CASE /\ Finish(t) /\ Rearm(alarm) /\ boots' = boots
           /\ conns' \in {cs, Shut(t, cs, T.conn)}
  <2>1. Leaves /\ AlarmKept(t) /\ Fewer(conns')
    BY <1>2, <1>4, <1>8, FewerShut DEF Leaves, AlarmKept, d1
  <2> QED
    BY <1>3, <1>8, <2>1, FinishReads
<1>9. CASE /\ T.kind = "challenge" /\ Rearm(alarm) /\ boots' = boots
           /\ ChallengeDecide(t, T, b, boots[b], cs)
  <2>1. Leaves /\ AlarmKept(t)
    BY <1>4, <1>9 DEF Leaves, AlarmKept, d1
  <2> QED
    BY <1>1, <1>2, <1>3, <1>9, <2>1, AttachReads
<1> QED
  BY <1>5, <1>6, <1>7, <1>8, <1>9

\* #cancelOne, decline and #handleReceived, once their boot is closed.
LEMMA AfterCloseNow ==
  ASSUME IInv, NEW t \in Tasks, SerialTask(t), AfterCancel(t) \/ AfterDecline(t) \/ AfterConsume(t)
  PROVE  Reads(t) \/ Closes(t)
<1> DEFINE T == tasks[t]
           cs == ShutAll(conns, T.boot)
<1>0. T \in Task /\ TaskInv(t) /\ conns \in [Conns -> Conn] /\ Fewer(conns)
  BY TypeParts, FewerSame
<1>1. T.boot \in Boots /\ T.pc = "audit" /\ T.ev \in Closing /\ T.ev \notin Expiring
  BY <1>0 DEF AfterCancel, AfterDecline, AfterConsume, TaskInv, Task, Closing, Expiring
<1>2. cs \in [Conns -> Conn] /\ Fewer(cs)
  BY <1>1, LessShutAll, FewerLess DEF Less
<1>3. ~OwesIndex(t) /\ ~OwesSend(t) /\ ~OwesAlarm(t)
  BY <1>1, ClosedOwes
<1>4. UNCHANGED d1
  BY DEF AfterCancel, AfterDecline, AfterConsume
<1>5. \/ NextInQueue(t, T) /\ conns' = cs /\ UNCHANGED alarm
      \/ /\ Finish(t) /\ boots' = boots
         /\ conns' \in {cs, Shut(t, cs, T.conn), Shut(t, conns, T.conn)}
         /\ UNCHANGED alarm \/ Rearm(alarm)
  BY DEF AfterCancel, AfterDecline, AfterConsume
<1> HIDE DEF cs
<1>6. CASE NextInQueue(t, T) /\ conns' = cs /\ UNCHANGED alarm
  <2>1. ClosesAt(t, T)
    BY <1>2, <1>3, <1>4, <1>6 DEF ClosesAt, d1
  <2> QED
    BY <1>0, <1>6, <2>1, QueueNow DEF SerialTask
<1>7. CASE /\ Finish(t) /\ boots' = boots
           /\ conns' \in {cs, Shut(t, cs, T.conn), Shut(t, conns, T.conn)}
           /\ UNCHANGED alarm \/ Rearm(alarm)
  <2>1. Leaves /\ AlarmKept(t) /\ Fewer(conns')
    BY <1>0, <1>2, <1>3, <1>4, <1>7, FewerShut DEF Leaves, AlarmKept, d1
  <2> QED
    BY <1>3, <1>7, <2>1, FinishReads
<1> QED
  BY <1>5, <1>6, <1>7

\* Nothing more of a handler's own is left to do.
LEMMA RestNow ==
  ASSUME IInv, NEW t \in Tasks, SerialTask(t), SocketWaits(t),
         \/ HelloMake(t) \/ HelloOpened(t) \/ AfterDelivery(t) \/ ApprovalRefused(t)
         \/ PrepareRequest(t) \/ PrepareStore(t) \/ CompleteCheck(t)
  PROVE  Reads(t)
<1> DEFINE T == tasks[t]
<1>0. T \in Task /\ TaskInv(t) /\ conns \in [Conns -> Conn] /\ Fewer(conns)
  BY TypeParts, FewerSame
<1>1. CASE HelloOpened(t)
  <2>1. T.boot \in Boots /\ boots[T.boot].status = "PENDING"
    BY <1>0, <1>1 DEF HelloOpened, TaskInv, Task, SerialTask
  <2>2. conns' = [conns EXCEPT ![T.conn].att = T.boot]
    BY <1>1 DEF HelloOpened
  <2>3. \A x \in Boots, c \in Conns :
          boots[x].status = "APPROVED" /\ c \in SocketsOf(conns', x) => c \in SocketsOf(conns, x)
    BY <1>0, <2>1, <2>2 DEF SocketsOf, Conn
  <2>4. tasks'[t] = Idle
    BY <1>1, TypeParts DEF HelloOpened, Finish
  <2>5. ~OwesIndex(t) /\ ~OwesSend(t)
    BY <1>1 DEF HelloOpened, OwesIndex, OwesSend, Writing
  <2>6. conns[T.conn].st # "shut"
    BY <1>0, <1>1 DEF HelloOpened, TaskInv, SocketWaits
  <2>7. Leaves /\ AlarmKept(t)
    BY <1>1, <2>6 DEF HelloOpened, Leaves, AlarmKept, d1
  <2> QED
    BY <2>3, <2>4, <2>5, <2>7 DEF Reads, Leaves, Idle, Writing
<1>2. CASE AfterDelivery(t)
  <2>1. ~OwesIndex(t) /\ ~OwesSend(t) /\ (T.kind # "complete" => ~OwesAlarm(t))
    BY <1>2 DEF AfterDelivery, OwesIndex, OwesSend, OwesAlarm, Writing, SerialTask, Expiring
  <2>2. Finish(t) /\ Leaves /\ conns' = conns
    BY <1>2 DEF AfterDelivery, AfterDeliver, Leaves, d1
  <2>3. AlarmKept(t)
    BY <1>2, <2>1 DEF AfterDelivery, AfterDeliver, AlarmKept
  <2> QED
    BY <1>0, <2>1, <2>2, <2>3, FinishReads
<1>3. CASE ApprovalRefused(t) \/ PrepareStore(t)
  <2>1. T.pc \in {"state", "hash"}
    BY <1>3 DEF ApprovalRefused, PrepareStore
  <2>2. Finish(t) /\ Leaves /\ conns' = conns /\ alarm' = alarm
    BY <1>3 DEF ApprovalRefused, PrepareStore, Leaves, d1, storage
  <2> QED
    BY <1>0, <2>1, <2>2, LookingOwes, FinishReads DEF AlarmKept
<1>4. CASE PrepareRequest(t) \/ CompleteCheck(t)
  <2>1. T.pc = "state"
    BY <1>4 DEF PrepareRequest, CompleteCheck
  <2>2. Leaves /\ conns' = conns /\ alarm' = alarm
    BY Zenon, <1>4 DEF PrepareRequest, CompleteCheck, Leaves, d1, storage
  <2>3. \/ \E x : tasks' = [tasks EXCEPT ![t] = [T EXCEPT !.pc = "hash", !.ctx = x]]
        \/ \E r, tok : tasks' = [tasks EXCEPT ![t] = [T EXCEPT !.pc = "hash", !.rev = r, !.tok = tok]]
    BY Zenon, <1>4 DEF PrepareRequest, CompleteCheck
  <2>4. PICK U : /\ tasks' = [tasks EXCEPT ![t] = U]
                 /\ U.pc = "hash" /\ U.queue = T.queue /\ U.kind = T.kind
    BY <1>0, <2>3 DEF Task
  <2>5. /\ ~OwesIndex(t) /\ ~OwesSend(t) /\ ~OwesAlarm(t)
        /\ T.queue = {} /\ T.kind # "alarm"
    BY <2>1, LookingOwes
  <2>6. Fewer(conns') /\ AlarmKept(t)
    BY <1>0, <2>2, <2>5 DEF AlarmKept
  <2>7. /\ U.queue = {} /\ U.kind # "alarm" /\ U.pc \notin {"proof", "attached", "env", "keyed"}
        /\ U.pc \notin {"insert", "opened"} \cup Writing
    BY <2>4, <2>5 DEF Writing
  <2> QED
    BY <2>2, <2>4, <2>5, <2>6, <2>7, GoesOn
<1>5. CASE HelloMake(t)
  <2> DEFINE U == [T EXCEPT !.pc = "keyed", !.snap = Opening(T.who)]
  <2>1. T.pc = "env" /\ T.kind = "hello" /\ Leaves /\ alarm' = alarm
    BY <1>0, <1>5 DEF HelloMake, TaskInv, Leaves, d1, storage
  <2>2. \/ Finish(t) /\ conns' = Shut(t, conns, T.conn)
        \/ tasks' = [tasks EXCEPT ![t] = U] /\ conns' = conns
    BY <1>5 DEF HelloMake
  <2>3. /\ ~OwesIndex(t) /\ ~OwesSend(t) /\ ~OwesAlarm(t) /\ T.queue = {}
    BY <2>1, LookingOwes
  <2>4. Fewer(conns') /\ AlarmKept(t)
    BY <1>0, <2>1, <2>2, <2>3, FewerShut DEF AlarmKept
  <2>5. /\ U.pc = "keyed" /\ U.kind = "hello" /\ U.queue = {} /\ U.who = T.who
        /\ U.snap = Opening(T.who)
    BY <1>0, <2>1, <2>3 DEF Task
  <2>6. Opening(T.who).pending # 0
    BY TypeParts, BootAssumption DEF Opening, NoRow, IInv, TypeOK
  <2>7. T.who \in Clients
    BY <1>0, <2>1, OwnConn DEF TaskInv
  <2>8. Room(T.who)
    BY <2>1, <2>7 DEF SerialTask
  <2> HIDE DEF U
  <2> QED
    BY <2>1, <2>2, <2>3, <2>4, <2>5, <2>6, <2>8, GoesOn, FinishReads DEF Writing
<1> QED
  BY <1>1, <1>2, <1>3, <1>4, <1>5

-----------------------------------------------------------------------------
(* The steps that change a boot or its index row *)

\* The handler t opens a boot for its workload.
Inserts(t) ==
  LET U == tasks'[t]
  IN \E b \in Boots :
       /\ boots[b].status = NoStatus /\ tasks[t].snap.status = "PENDING"
       /\ boots' = [boots EXCEPT ![b] = tasks[t].snap]
       /\ U.pc = "insert" /\ U.boot = b /\ U.queue = {} /\ U.kind # "alarm"
       /\ UNCHANGED <<conns, alarm, index, records>>
       /\ ~OwesIndex(t) /\ ~OwesSend(t) /\ ~OwesAlarm(t)

\* The handler t approves its boot.
Approves(t) ==
  LET U == tasks'[t]
      b == tasks[t].boot
  IN /\ b \in Boots
     /\ boots[b].status = "PENDING"
     /\ \E pay \in Nat, r \in Nat :
          boots' = [boots EXCEPT ![b] =
            [@ EXCEPT !.status = "APPROVED", !.payload = pay, !.frame = r, !.digest = r]]
     /\ U.pc = "mirror" /\ U.ev = "approve" /\ U.boot = b
     /\ U.kind = "complete" /\ U.queue = {}
     /\ UNCHANGED <<conns, alarm, index, records>>
     /\ ~OwesIndex(t) /\ ~OwesSend(t) /\ ~OwesAlarm(t)

\* The handler t sends the payload of its boot.
Sends(t) ==
  LET U == tasks'[t]
      b == tasks[t].boot
  IN /\ b \in Boots
     /\ \E ev \in {"deliver", "redeliver"} :
          /\ Allowed(boots[b].status, ev)
          /\ boots' = [boots EXCEPT ![b].status = Target(ev)]
          /\ U.pc = FirstWrite(ev) /\ U.ev = ev
     /\ U.boot = b /\ U.kind = tasks[t].kind /\ U.queue = {} /\ U.kind # "alarm"
     /\ UNCHANGED <<conns, alarm, index, records>>
     /\ ~OwesIndex(t)
     /\ OwesAlarm(t) => U.kind = "complete"

\* The handler t has nothing to send after all, and ends.
Served(t) ==
  /\ Finish(t) /\ Leaves /\ conns' = conns
  /\ ~OwesIndex(t)
  /\ boots[tasks[t].boot].status = "APPROVED" =>
       \/ SocketsOf(conns, tasks[t].boot) = {}
       \/ tasks[t].pc = "attached" /\ conns[tasks[t].conn].st # "open"
  /\ AlarmKept(t)

\* A write of the handler t takes effect in D1.
Lands(t) ==
  LET T == tasks[t]
  IN /\ T.boot \in Boots
     /\ \E pc \in {"opened", "record", "audit"} :
          /\ tasks' = [tasks EXCEPT ![t] = [T EXCEPT !.pc = pc]]
          /\ T.pc = "insert" <=> pc = "opened"
          /\ pc = "record" => T.pc = "mirror" /\ T.ev = "approve"
     /\ \/ /\ T.pc \in {"insert", "mirror"}
           /\ index' = [index EXCEPT ![T.boot] = boots[T.boot].status]
           /\ records' = records
        \/ T.pc = "record" /\ index' = index
     /\ UNCHANGED <<boots, conns, alarm>>

\* The index row to update is missing.
Misses(t) ==
  /\ tasks[t].pc = "mirror" /\ tasks[t].boot \in Boots
  /\ index[tasks[t].boot] = NoStatus
  /\ Finish(t) /\ UNCHANGED <<boots, conns, index, records>>

\* #handleHello inserts the row it made.
LEMMA InsertNow ==
  ASSUME IInv, NEW t \in Tasks, SerialTask(t), HelloInsert(t)
  PROVE  Inserts(t)
<1> DEFINE T == tasks[t]
           U(b) == [T EXCEPT !.pc = "insert", !.boot = b, !.snap = NoRow]
<1>0. T \in Task /\ TaskInv(t) /\ T.pc = "keyed"
  BY TypeParts DEF HelloInsert
<1>1. /\ ~OwesIndex(t) /\ ~OwesSend(t) /\ ~OwesAlarm(t)
      /\ T.queue = {} /\ T.kind # "alarm"
  BY <1>0, LookingOwes
<1>2. UNCHANGED <<conns, alarm, index, records>>
  BY DEF HelloInsert, d1
<1>3. PICK b \in Boots :
        /\ boots[b].status = NoStatus
        /\ boots' = [boots EXCEPT ![b] = T.snap]
        /\ tasks' = [tasks EXCEPT ![t] = U(b)]
  BY DEF HelloInsert
<1>4. /\ U(b).pc = "insert" /\ U(b).boot = b /\ U(b).queue = T.queue /\ U(b).kind = T.kind
  BY <1>0 DEF Task
<1>5. T.snap.status = "PENDING"
  BY <1>0 DEF TaskInv, Fresh
<1> HIDE DEF U
<1>6. tasks'[t] = U(b)
  BY <1>3, TypeParts
<1> QED
  BY Zenon, <1>1, <1>2, <1>3, <1>4, <1>5, <1>6 DEF Inserts

\* completeApproval writes the approval, or ends.
LEMMA ApproveNow ==
  ASSUME IInv, NEW t \in Tasks, SerialTask(t), Approve(t)
  PROVE  Reads(t) \/ Approves(t)
<1> DEFINE T == tasks[t]
           U == [T EXCEPT !.pc = "mirror", !.ev = "approve"]
<1>0. /\ T \in Task /\ conns \in [Conns -> Conn] /\ Fewer(conns) /\ TaskInv(t)
      /\ T.pc = "hash" /\ T.kind = "complete"
  BY TypeParts, FewerSame DEF Approve
<1>1. ~OwesIndex(t) /\ ~OwesSend(t) /\ ~OwesAlarm(t) /\ T.queue = {}
  BY <1>0, LookingOwes
<1>2. UNCHANGED <<conns, alarm, index, records>>
  BY DEF Approve, d1
<1>3. T.boot \in Boots /\ T.ctx.pay \in Nat /\ T.rev \in Nat
  BY <1>0 DEF TaskInv, Task, Context
<1>4. CASE Finish(t) /\ boots' = boots
  BY <1>0, <1>1, <1>2, <1>4, FinishReads DEF Leaves, AlarmKept
<1>5. CASE /\ boots[T.boot].status = "PENDING"
           /\ boots' = [boots EXCEPT ![T.boot] =
                [@ EXCEPT !.status = "APPROVED", !.payload = T.ctx.pay,
                          !.frame = T.rev, !.digest = T.rev]]
           /\ tasks' = [tasks EXCEPT ![t] = U]
  <2>1. /\ U.pc = "mirror" /\ U.ev = "approve" /\ U.boot = T.boot /\ U.queue = T.queue
        /\ U.kind = T.kind
    BY <1>0 DEF Task
  <2> HIDE DEF U
  <2>2. tasks'[t] = U
    BY <1>5, TypeParts
  <2> QED
    BY Zenon, <1>0, <1>1, <1>2, <1>3, <1>5, <2>1, <2>2 DEF Approves
<1> QED
  BY <1>4, <1>5 DEF Approve, StillApprovable, Target

\* #deliver on a row that is current.
LEMMA DeliverNow ==
  ASSUME IInv, NEW t \in Tasks, NEW targets, tasks[t].boot \in Boots,
         Deliver(t, tasks[t], boots[tasks[t].boot], targets),
         conns' = conns, UNCHANGED d1, ~OwesIndex(t),
         tasks[t].queue = {}, tasks[t].kind # "alarm",
         targets = {} => SocketsOf(conns, tasks[t].boot) = {},
         OwesAlarm(t) => tasks[t].kind = "complete"
  PROVE  Sends(t) \/ Served(t)
<1> DEFINE T == tasks[t]
           row == boots[T.boot]
           ev == IF row.status = "APPROVED" THEN "deliver" ELSE "redeliver"
           U == [T EXCEPT !.pc = FirstWrite(ev), !.ev = ev, !.snap = NoRow]
<1>0. T \in Task /\ RowInv(T.boot)
  BY TypeParts
<1>1. CASE row.frame = 0 \/ targets = {} \/ ~Allowed(row.status, ev)
  <2>1. AfterDeliver(t, T)
    BY <1>1 DEF Deliver
  <2>2. Finish(t) /\ Leaves /\ AlarmKept(t)
    BY <2>1 DEF AfterDeliver, Leaves, AlarmKept, d1
  <2>3. row.status = "APPROVED" => SocketsOf(conns, T.boot) = {}
    BY <1>0, <1>1 DEF RowInv, Allowed, Transitions, Target
  <2> QED
    BY <2>2, <2>3 DEF Served
<1>2. CASE row.frame # 0 /\ targets # {} /\ Allowed(row.status, ev)
  <2>1. /\ boots' = [boots EXCEPT ![T.boot].status = Target(ev)]
        /\ tasks' = [tasks EXCEPT ![t] = U]
        /\ UNCHANGED alarm
    BY <1>2 DEF Deliver
  <2>2. U.pc = FirstWrite(ev) /\ U.ev = ev /\ U.boot = T.boot /\ U.kind = T.kind /\ U.queue = {}
    BY <1>0 DEF Task
  <2>3. ev \in {"deliver", "redeliver"} /\ Allowed(boots[T.boot].status, ev)
    BY <1>2
  <2> HIDE DEF U, ev
  <2>4. tasks'[t] = U
    BY <2>1, TypeParts
  <2> QED
    BY Zenon, <2>1, <2>2, <2>3, <2>4 DEF Sends, d1
<1> QED
  BY <1>1, <1>2

\* The two handlers that deliver.
LEMMA SendNow ==
  ASSUME IInv, NEW t \in Tasks, SerialTask(t), Attached(t) \/ AfterApprove(t)
  PROVE  Sends(t) \/ Served(t)
<1> DEFINE T == tasks[t]
<1>0. T \in Task /\ TaskInv(t)
  BY TypeParts
<1>1. CASE Attached(t)
  <2>1. /\ T.pc = "attached" /\ T.kind = "challenge" /\ T.boot \in Boots /\ T.queue = {}
        /\ T.snap = boots[T.boot]
    BY <1>0, <1>1 DEF Attached, TaskInv, Task, SerialTask
  <2>2. ~OwesIndex(t) /\ ~OwesAlarm(t)
    BY <2>1 DEF OwesIndex, OwesAlarm, Writing
  <2>3. UNCHANGED <<conns, d1>>
    BY <1>1 DEF Attached
  <2>4. CASE conns[T.conn].st = "shut" \/ T.snap.status = "PENDING"
    <3>1. Finish(t) /\ Leaves /\ alarm' = alarm
      BY <1>1, <2>3, <2>4 DEF Attached, Leaves, d1
    <3> QED
      BY <2>1, <2>2, <2>3, <2>4, <3>1 DEF Served, AlarmKept
  <2>5. CASE ~(conns[T.conn].st = "shut" \/ T.snap.status = "PENDING")
    <3>1. Deliver(t, T, boots[T.boot], {T.conn})
      BY <1>1, <2>1, <2>5 DEF Attached
    <3> QED
      BY <2>1, <2>2, <2>3, <3>1, DeliverNow
  <2> QED
    BY <2>4, <2>5
<1>2. CASE AfterApprove(t)
  <2>1. /\ T.pc = "audit" /\ T.ev = "approve" /\ T.boot \in Boots /\ T.queue = {}
        /\ T.kind # "alarm"
    BY <1>0, <1>2 DEF AfterApprove, TaskInv, Task, SerialTask, Closing, Expiring
  <2>2. ~OwesIndex(t) /\ (OwesAlarm(t) => T.kind = "complete")
    BY <2>1 DEF OwesIndex, OwesAlarm, Writing
  <2>3. UNCHANGED <<conns, d1>> /\ Deliver(t, T, boots[T.boot], SocketsOf(conns, T.boot))
    BY <1>2 DEF AfterApprove
  <2> QED
    BY <2>1, <2>2, <2>3, DeliverNow
<1> QED
  BY <1>1, <1>2

\* The writes to D1: a record that is already there would be the boot's own.
LEMMA WriteNow ==
  ASSUME IInv, NEW t \in Tasks, SerialTask(t), HelloIndex(t) \/ Mirror(t) \/ Record(t),
         tasks[t].pc = "record" => tasks[t].ev = "approve"
  PROVE  Lands(t) \/ Misses(t)
<1> DEFINE T == tasks[t]
           Goes(pc) == tasks' = [tasks EXCEPT ![t] = [T EXCEPT !.pc = pc]]
<1>0. T \in Task /\ TaskInv(t) /\ T.boot \in Boots
  BY TypeParts DEF HelloIndex, Mirror, Record, TaskInv, Task
<1>1. CASE HelloIndex(t)
  <2>1. /\ T.pc = "insert" /\ Goes("opened") /\ records' = records
        /\ index' = [index EXCEPT ![T.boot] = "PENDING"]
        /\ UNCHANGED <<boots, conns, alarm>>
    BY <1>1 DEF HelloIndex, storage
  <2>2. boots[T.boot].status = "PENDING"
    BY <2>1 DEF SerialTask
  <2> QED
    BY <1>0, <2>1, <2>2 DEF Lands
<1>2. CASE Mirror(t)
  <2>0. T.pc = "mirror" /\ UNCHANGED <<boots, conns, records>>
    BY <1>2 DEF Mirror
  <2>1. CASE index[T.boot] = NoStatus
    <3>1. Finish(t) /\ UNCHANGED index
      BY <1>2, <2>1 DEF Mirror
    <3> QED
      BY <1>0, <2>0, <2>1, <3>1 DEF Misses
  <2>2. CASE index[T.boot] # NoStatus
    <3>1. /\ index' = [index EXCEPT ![T.boot] = Target(T.ev)]
          /\ tasks' = [tasks EXCEPT ![t].pc = IF T.ev = "approve" THEN "record" ELSE "audit"]
          /\ UNCHANGED alarm
      BY <1>2, <2>2 DEF Mirror
    <3>2. Target(T.ev) = boots[T.boot].status
      BY <2>0 DEF SerialTask
    <3>3. (T.ev = "approve" /\ Goes("record")) \/ (T.ev # "approve" /\ Goes("audit"))
      BY <3>1
    <3> QED
      BY <1>0, <2>0, <3>1, <3>2, <3>3 DEF Lands
  <2> QED
    BY <2>1, <2>2
<1>3. CASE Record(t)
  <2>1. T.pc = "record" /\ records[T.boot] = 0
    BY <1>3 DEF Record, SerialTask
  <2>2. Goes("audit") /\ UNCHANGED <<boots, conns, alarm, index>>
    BY <1>3, <2>1 DEF Record, storage
  <2> QED
    BY <1>0, <2>1, <2>2 DEF Lands
<1> QED
  BY <1>1, <1>2, <1>3

\* Any step of a handler while its reads are current.
StepNow(t) ==
  \/ Reads(t) \/ Closes(t) \/ Inserts(t) \/ Approves(t)
  \/ Sends(t) \/ Served(t) \/ Lands(t) \/ Misses(t)

\* Every handler takes one of these steps.
LEMMA HandlerNow ==
  ASSUME IInv, ReleaseInv, NEW t \in Tasks, SerialTask(t), SocketWaits(t),
         Start(t) \/ Continue(t)
  PROVE  StepNow(t)
<1>1. tasks[t].pc = "record" => tasks[t].ev = "approve"
  BY DEF ReleaseInv, ReleaseHeld
<1> QED
  BY <1>1, StartNow, InsertNow, ApproveNow, SendNow, WriteNow, VerifiedNow, AfterExpireNow,
     AfterCloseNow, RestNow DEF Continue, StepNow

-----------------------------------------------------------------------------
(* What the handler read stays current *)

\* A handler that was given nothing to hold.
LEMMA IdleSerial ==
  ASSUME NEW t, tasks'[t] = Idle
  PROVE  SerialTask(t)'
BY DEF SerialTask, Idle, Writing

\* A handler that is not at a hello has no socket to keep for itself.
LEMMA IdleWaits ==
  ASSUME NEW t, tasks'[t] = Idle
  PROVE  SocketWaits(t)'
BY DEF SocketWaits, Idle

\* The pending boots of a token are counted in the rows alone.
LEMMA PendingSame ==
  ASSUME boots' = boots, NEW tk
  PROVE  PendingOf(tk)' = PendingOf(tk)
BY DEF PendingOf

\* A record exists only for a boot that was approved.
LEMMA PendingUnrecorded ==
  ASSUME IInv, ReleaseInv, NEW b \in Boots, boots[b].status = "PENDING"
  PROVE  records[b] = 0
<1>1. boots[b].digest = 0
  BY TypeParts DEF RowInv
<1> QED
  BY <1>1 DEF ReleaseInv, RecordNamesPayload

\* What the handler of the step holds afterwards is as it left it.
LEMMA HandlerCurrent ==
  ASSUME IInv, IInv', ReleaseInv, NEW t \in Tasks, SerialTask(t), StepNow(t)
  PROVE  SerialTask(t)'
<1> DEFINE T == tasks[t]
           U == tasks'[t]
<1>0. /\ T \in Task /\ TaskInv(t)
      /\ tasks \in [Tasks -> Task] /\ boots \in [Boots -> Row]
  BY TypeParts
<1>1. U \in Task
  BY DEF IInv, TypeOK
<1>2. CASE Reads(t)
  <2>1. ASSUME NEW k \in Clients, U.pc \in {"env", "keyed"}, U.who = k
        PROVE  Room(k)'
    BY <1>2, <2>1, PendingSame DEF Reads, Room
  <2> QED
    BY <1>2, <2>1 DEF Reads, SerialTask, Writing
<1>3. CASE Closes(t)
  <2>1. PICK b \in Boots, ev \in Closing :
          /\ boots' = [boots EXCEPT ![b].status = Target(ev), ![b].frame = 0]
          /\ U.pc = "mirror" /\ U.ev = ev /\ U.boot = b
          /\ \A q \in U.queue : q.boot # b /\ q.row = boots[q.boot]
          /\ U.kind = "alarm" => ev \in Expiring
    BY <1>3 DEF Closes
  <2>2. \A q \in U.queue : q.boot \in Boots /\ q.row = boots'[q.boot]
    BY <1>0, <1>1, <2>1 DEF Task
  <2>3. boots'[b].status = Target(ev)
    BY <1>0, <2>1 DEF Row
  <2>4. ev # "approve"
    BY DEF Closing
  <2> QED
    BY <2>1, <2>2, <2>3, <2>4 DEF SerialTask, Writing
<1>4. CASE Inserts(t)
  <2>1. boots'[U.boot].status = "PENDING" /\ U.pc = "insert" /\ U.queue = {} /\ U.kind # "alarm"
    BY <1>0, <1>4 DEF Inserts
  <2> QED
    BY <2>1 DEF SerialTask
<1>5. CASE Approves(t)
  <2>1. boots'[T.boot].status = "APPROVED"
    BY <1>0, <1>5 DEF Approves, Row
  <2>2. records'[T.boot] = 0
    BY <1>5, PendingUnrecorded DEF Approves
  <2> QED
    BY <1>5, <2>1, <2>2 DEF Approves, SerialTask, Target
<1>6. CASE Sends(t)
  <2>1. PICK ev \in {"deliver", "redeliver"} :
          /\ boots' = [boots EXCEPT ![T.boot].status = Target(ev)]
          /\ U.pc = FirstWrite(ev) /\ U.ev = ev
    BY <1>6 DEF Sends
  <2>2. boots'[T.boot].status = Target(ev)
    BY <1>0, <1>6, <2>1 DEF Sends, Row
  <2>3. U.pc \in {"mirror", "audit"}
    BY <2>1 DEF FirstWrite
  <2> QED
    BY <1>6, <2>1, <2>2, <2>3 DEF Sends, SerialTask
<1>7. CASE Served(t) \/ Misses(t)
  <2>1. U = Idle
    BY <1>0, <1>7 DEF Served, Misses, Finish
  <2> QED
    BY <2>1, IdleSerial
<1>8. CASE Lands(t)
  <2>1. PICK pc \in {"opened", "record", "audit"} :
          /\ tasks' = [tasks EXCEPT ![t] = [T EXCEPT !.pc = pc]]
          /\ T.pc = "insert" <=> pc = "opened"
          /\ pc = "record" => T.pc = "mirror" /\ T.ev = "approve"
    BY <1>8 DEF Lands
  <2>2. /\ U.pc = pc /\ U.queue = T.queue /\ U.kind = T.kind /\ U.ev = T.ev /\ U.boot = T.boot
    BY <1>0, <2>1 DEF Task
  <2>3. T.pc \in {"insert", "mirror", "record"} /\ boots' = boots
    BY <1>8 DEF Lands
  <2>4. pc = "record" => records' = records
    BY <1>8, <2>1 DEF Lands
  <2>5. pc # "opened" => pc \in Writing /\ T.pc \in Writing
    BY <2>1, <2>3 DEF Writing
  <2>6. pc = "opened" => T.queue = {} /\ T.kind # "alarm"
    BY <2>1 DEF SerialTask, Writing
  <2> QED
    BY <2>1, <2>2, <2>3, <2>4, <2>5, <2>6 DEF SerialTask
<1> QED
  BY <1>2, <1>3, <1>4, <1>5, <1>6, <1>7, <1>8 DEF StepNow

\* A live boot keeps a deadline.
LEMMA TimesKept ==
  ASSUME IInv, RowChange, Current
  PROVE  \A b \in Boots : RowTimes(b)'
<1> SUFFICES ASSUME NEW b \in Boots PROVE RowTimes(b)'
  OBVIOUS
<1>0. boots \in [Boots -> Row] /\ now \in Nat /\ RowTimes(b)
  BY TypeParts DEF Current, IInv, TypeOK
<1>1. CASE boots'[b] = boots[b]
  BY <1>0, <1>1 DEF RowTimes
<1>2. ASSUME NEW t \in Tasks, HelloInsert(t) PROVE RowTimes(b)'
  <2>1. PICK x \in Boots : boots' = [boots EXCEPT ![x] = tasks[t].snap]
    BY <1>2 DEF HelloInsert
  <2>2. /\ tasks[t].snap.status = "PENDING" /\ tasks[t].snap.digest = 0
        /\ tasks[t].snap.pending # 0
    BY <1>2, TypeParts DEF HelloInsert, TaskInv, Fresh, Current, SerialTask
  <2>3. CASE b = x
    BY <1>0, <2>1, <2>2, <2>3 DEF RowTimes
  <2>4. CASE b # x
    BY <1>0, <1>1, <2>1, <2>4
  <2> QED
    BY <2>3, <2>4
<1>3. CASE ClosedOne
  <2>1. \A ev \in Closing : Target(ev) \in Terminal
    BY ClosingTerminal
  <2> QED
    BY <1>0, <1>3, <2>1 DEF ClosedOne, RowTimes, Row, Terminal
<1>4. ASSUME NEW x \in Boots, ApprovedOne(x) PROVE RowTimes(b)'
  BY <1>0, <1>4 DEF ApprovedOne, RowTimes, Row
<1>5. ASSUME NEW x \in Boots, DeliveredOne(x) PROVE RowTimes(b)'
  BY <1>0, <1>5 DEF DeliveredOne, RowTimes, Row
<1> QED
  BY <1>1, <1>2, <1>3, <1>4, <1>5 DEF RowChange, Released, RowsSame

\* Sets of pending boots that lose members stay within the limit.
LEMMA LimitsLess ==
  ASSUME Limits, \A tk \in Tokens : PendingOf(tk)' \subseteq PendingOf(tk), MaxPending \in Nat
  PROVE  Limits'
<1> SUFFICES ASSUME NEW tk \in Tokens
             PROVE  IsFiniteSet(PendingOf(tk)') /\ Cardinality(PendingOf(tk)') <= MaxPending
  BY DEF Limits
<1> DEFINE P == PendingOf(tk)
           Q == PendingOf(tk)'
<1>1. IsFiniteSet(P) /\ Cardinality(P) <= MaxPending /\ Q \in SUBSET P
  BY DEF Limits
<1> HIDE DEF P, Q
<1>2. IsFiniteSet(Q) /\ Cardinality(Q) <= Cardinality(P)
  BY <1>1, FS_Subset
<1>3. Cardinality(P) \in Nat /\ Cardinality(Q) \in Nat
  BY <1>1, <1>2, FS_CardinalityType
<1> QED
  BY <1>1, <1>2, <1>3 DEF Q

\* A boot is opened only where the handler, alone since it counted, saw room.
LEMMA LimitsOpened ==
  ASSUME IInv, Limits, NEW t \in Tasks, SerialTask(t), HelloInsert(t),
         NEW k, k = tasks[t].who, Opened(k)
  PROVE  Limits'
<1>0. /\ boots \in [Boots -> Row] /\ k \in Clients /\ MaxPending \in Nat
      /\ TokenOf \in [Clients -> Tokens]
  BY TypeParts, BootAssumption DEF Opened
<1>1. PICK b \in Boots, row \in Row :
        /\ boots[b].status = NoStatus
        /\ Fresh(row, k)
        /\ boots' = [boots EXCEPT ![b] = row]
  BY DEF Opened
<1>2. boots'[b].status = "PENDING" /\ boots'[b].key = k
  BY <1>0, <1>1 DEF Fresh
<1>3. \A x \in Boots \ {b} : boots'[x] = boots[x]
  BY <1>0, <1>1
<1> SUFFICES ASSUME NEW tk \in Tokens
             PROVE  IsFiniteSet(PendingOf(tk)') /\ Cardinality(PendingOf(tk)') <= MaxPending
  BY DEF Limits
<1> DEFINE P == PendingOf(tk)
           Q == PendingOf(tk)'
           P1 == P \cup {b}
<1>4. IsFiniteSet(P) /\ Cardinality(P) <= MaxPending
  BY DEF Limits
<1>5. CASE tk = TokenOf[k]
  <2>1. Q \in SUBSET P1
    BY <1>3 DEF PendingOf
  <2>2. Cardinality(P) < MaxPending
    BY <1>0, <1>5 DEF SerialTask, HelloInsert, Room
  <2> HIDE DEF P, Q
  <2>3. IsFiniteSet(P1) /\ (Cardinality(P1) = Cardinality(P) \/ Cardinality(P1) = Cardinality(P) + 1)
    BY <1>4, FS_AddElement
  <2> HIDE DEF P1
  <2>4. IsFiniteSet(Q) /\ Cardinality(Q) <= Cardinality(P1)
    BY <2>1, <2>3, FS_Subset
  <2>5. Cardinality(P) \in Nat /\ Cardinality(P1) \in Nat /\ Cardinality(Q) \in Nat
    BY <1>4, <2>3, <2>4, FS_CardinalityType
  <2>6. IsFiniteSet(Q) /\ Cardinality(Q) <= MaxPending
    BY <1>0, <2>2, <2>3, <2>4, <2>5
  <2> QED
    BY <2>6 DEF Q
<1>6. CASE tk # TokenOf[k]
  <2>1. Q \in SUBSET P
    BY <1>2, <1>3, <1>6 DEF PendingOf
  <2> HIDE DEF P, Q
  <2>2. IsFiniteSet(Q) /\ Cardinality(Q) <= Cardinality(P)
    BY <1>4, <2>1, FS_Subset
  <2>3. Cardinality(P) \in Nat /\ Cardinality(Q) \in Nat
    BY <1>4, <2>2, FS_CardinalityType
  <2> QED
    BY <1>0, <1>4, <2>2, <2>3 DEF Q
<1> QED
  BY <1>5, <1>6

\* Pending boots are otherwise only closed, approved, delivered.
LEMMA LimitsKept ==
  ASSUME IInv, RowChange, Current
  PROVE  Limits'
<1>0. boots \in [Boots -> Row] /\ MaxPending \in Nat /\ Limits
  BY TypeParts, BootAssumption DEF Current
<1>1. ASSUME NEW t \in Tasks, HelloInsert(t), Opened(tasks[t].who) PROVE Limits'
  BY <1>0, <1>1, LimitsOpened DEF Current
<1>2. CASE ClosedOne
  <2>1. \A ev \in Closing : Target(ev) # "PENDING"
    BY ClosingTerminal DEF Terminal
  <2>2. \A tk \in Tokens : PendingOf(tk)' \subseteq PendingOf(tk)
    BY <1>0, <1>2, <2>1 DEF ClosedOne, PendingOf, Row
  <2> QED
    BY <1>0, <2>2, LimitsLess
<1>3. ASSUME NEW x \in Boots, ApprovedOne(x) PROVE Limits'
  <2>1. \A tk \in Tokens : PendingOf(tk)' \subseteq PendingOf(tk)
    BY <1>0, <1>3 DEF ApprovedOne, PendingOf, Row
  <2> QED
    BY <1>0, <2>1, LimitsLess
<1>4. ASSUME NEW x \in Boots, DeliveredOne(x) PROVE Limits'
  <2>1. \A tk \in Tokens : PendingOf(tk)' \subseteq PendingOf(tk)
    BY <1>0, <1>4 DEF DeliveredOne, PendingOf, Row
  <2> QED
    BY <1>0, <2>1, LimitsLess
<1>5. CASE RowsSame
  <2>1. \A tk \in Tokens : PendingOf(tk)' \subseteq PendingOf(tk)
    BY <1>5 DEF RowsSame, PendingOf
  <2> QED
    BY <1>0, <2>1, LimitsLess
<1> QED
  BY <1>1, <1>2, <1>3, <1>4, <1>5 DEF RowChange, Released

\* Steps that are no handler's, or that end one.
Elsewhere == UNCHANGED vars \/ World \/ \E t \in Tasks : Throw(t)

\* They leave the rows and what D1 holds.
LEMMA ElsewhereLeaves ==
  ASSUME IInv, Elsewhere
  PROVE  /\ Leaves
         /\ \A t \in Tasks : tasks'[t] = tasks[t] \/ tasks'[t] = Idle
<1>1. CASE UNCHANGED vars
  BY <1>1 DEF vars, Leaves
<1>2. CASE World
  BY <1>2 DEF World, Tick, Connect, Disconnect, Revoke, ChangeVault, Restart, Leaves, storage, d1
<1>3. ASSUME NEW t \in Tasks, Throw(t)
      PROVE  Leaves /\ \A s \in Tasks : tasks'[s] = tasks[s] \/ tasks'[s] = Idle
  BY <1>3, TypeParts DEF Throw, Finish, Leaves, d1
<1> QED
  BY <1>1, <1>2, <1>3 DEF Elsewhere

\* No socket a handler is on is bound, shut or given to another workload.
LEMMA ElsewhereWaits ==
  ASSUME IInv, Elsewhere, NEW t \in Tasks, SocketWaits(t), tasks'[t] = tasks[t]
  PROVE  SocketWaits(t)'
<1> DEFINE c == tasks[t].conn
<1> SUFFICES ASSUME tasks[t].kind = "hello"
             PROVE  conns'[c].st # "shut" /\ conns'[c].att = NULL
  BY DEF SocketWaits
<1>1. /\ c \in Conns /\ Busy(c) /\ conns[c].st # "shut" /\ conns[c].att = NULL
      /\ conns \in [Conns -> Conn]
  BY OwnConn, TypeParts DEF TaskInv, SocketWaits
<1>2. CASE conns'[c] = conns[c]
  BY <1>1, <1>2
<1>3. ASSUME NEW x \in Conns, Disconnect(x)
      PROVE  conns'[c] = conns[c] \/ conns'[c] = [conns[c] EXCEPT !.st = "closed"]
  BY <1>1, <1>3 DEF Disconnect
<1>4. CASE \E x \in Conns : Disconnect(x)
  BY <1>1, <1>3, <1>4 DEF Conn
<1>5. ASSUME NEW x \in Conns, NEW k \in Clients, Connect(x, k) PROVE conns'[c] = conns[c]
  BY <1>1, <1>5 DEF Connect
<1>6. CASE Restart
  BY <1>1, <1>6 DEF Restart, NoConn
<1> QED
  BY <1>2, <1>4, <1>5, <1>6 DEF Elsewhere, World, Tick, Revoke, ChangeVault, Throw, vars

\* No other handler is in flight.
OthersIdle(t) == \A s \in Tasks \ {t} : tasks[s] = Idle

\* The handlers begin in turn, so the one that takes a step is by itself,
LEMMA StepsAlone ==
  ASSUME IInv, InTurn, NEW t \in Tasks, Start(t) => Quiet, Start(t) \/ Continue(t)
  PROVE  OthersIdle(t)
<1>1. CASE Quiet
  BY <1>1 DEF Quiet, OthersIdle
<1>2. CASE Continue(t)
  <2>1. tasks[t].pc # "idle"
    BY Zenon, <1>2 DEF Continue, HelloMake, HelloInsert, HelloIndex, HelloOpened, ChallengeVerified,
       Attached, ApprovalRefused, PrepareRequest, PrepareStore, CompleteCheck, Approve,
       Mirror, Record, AfterExpire, AfterCancel, AfterDecline, AfterConsume, AfterApprove,
       AfterDelivery
  <2>2. tasks[t] # Idle
    BY <2>1 DEF Idle
  <2> QED
    BY <2>2 DEF InTurn, OthersIdle
<1> QED
  BY <1>1, <1>2

\* and still is after it.
LEMMA StaysAlone ==
  ASSUME IInv, ReleaseInv, NEW t \in Tasks, OthersIdle(t), Start(t) \/ Continue(t)
  PROVE  OthersIdle(t)'
<1>1. Alone(t)
  BY HandlerHolds DEF ReleaseInv
<1> QED
  BY <1>1 DEF Alone, OthersIdle

\* A handler that goes on leaves a socket that waits as it is.
LEMMA OnwardWaits ==
  ASSUME IInv, NEW t \in Tasks, SocketWaits(t),
         tasks'[t].kind = tasks[t].kind, tasks'[t].conn = tasks[t].conn,
         conns' = conns \/ \E b \in Boots : conns' = ShutAll(conns, b)
  PROVE  SocketWaits(t)'
<1> DEFINE c == tasks[t].conn
<1> SUFFICES ASSUME tasks[t].kind = "hello"
             PROVE  conns'[c].st # "shut" /\ conns'[c].att = NULL
  BY DEF SocketWaits
<1>1. /\ c \in Conns /\ conns[c].st # "shut" /\ conns[c].att = NULL
  BY OwnConn, TypeParts DEF TaskInv, SocketWaits
<1>2. conns'[c] = conns[c]
  BY <1>1, BootAssumption DEF ShutAll, SocketsOf
<1> QED
  BY <1>1, <1>2

\* One that closes a boot goes on as it was,
LEMMA CloseOnward ==
  ASSUME IInv, NEW t \in Tasks, NEW T \in Task, NEW b, NEW snap, NEW ev,
         Close(t, T, b, snap, ev)
  PROVE  tasks'[t].kind = T.kind /\ tasks'[t].conn = T.conn
BY TypeParts DEF Close, Task

\* also with the next of a list.
LEMMA QueueOnward ==
  ASSUME IInv, NEW t \in Tasks, NEW T \in Task, NextInQueue(t, T)
  PROVE  tasks'[t].kind = T.kind /\ tasks'[t].conn = T.conn
<1>1. PICK q \in T.queue :
        Close(t, [T EXCEPT !.queue = @ \ {q}], q.boot, q.row,
              IF T.kind = "cancelAll" THEN "cancel" ELSE ExpireEvent(q.row))
  BY DEF NextInQueue
<1> DEFINE V == [T EXCEPT !.queue = @ \ {q}]
<1>2. V \in Task /\ V.kind = T.kind /\ V.conn = T.conn
  BY DEF Task
<1>3. Close(t, V, q.boot, q.row, IF T.kind = "cancelAll" THEN "cancel" ELSE ExpireEvent(q.row))
  BY <1>1
<1> HIDE DEF V
<1> QED
  BY <1>2, <1>3, CloseOnward

\* A handler that goes on as one of another kind, or ends, is no hello's.
LEMMA OtherKindWaits ==
  ASSUME NEW t, tasks'[t].kind # "hello"
  PROVE  SocketWaits(t)'
BY DEF SocketWaits

\* A hello finds its socket open and not bound.
LEMMA HelloWaits ==
  ASSUME IInv, NEW t \in Tasks, NEW c \in Conns, Hello(t, c)
  PROVE  SocketWaits(t)'
<1> DEFINE T == [Idle EXCEPT !.kind = "hello", !.conn = c, !.who = conns[c].client,
                             !.queue = OverdueQueue]
<1>0. tasks[t] = Idle /\ conns[c].st = "open" /\ tasks \in [Tasks -> Task]
  BY TypeParts DEF Hello, FrameOn
<1>1. CASE tasks'[t] = Idle
  BY <1>1, IdleWaits
<1>2. CASE tasks'[t] # Idle
  <2>1. conns' = conns /\ conns[c].att = NULL
    BY <1>0, <1>2 DEF Hello, HelloAdmit, Finish
  <2>2. NextInQueue(t, T) \/ tasks' = [tasks EXCEPT ![t] = [T EXCEPT !.pc = "env", !.ev = "none",
                                                                     !.boot = NULL]]
    BY <1>0, <1>2 DEF Hello, HelloAdmit, Finish
  <2>3. T \in Task /\ T.conn = c
    <3>1. OverdueQueue \in SUBSET [boot : Boots, row : Row]
      BY TypeParts DEF OverdueQueue
    <3>2. conns[c].client \in Clients \cup {NULL}
      BY TypeParts DEF Conn
    <3> QED
      BY <3>1, <3>2, IdleType DEF Idle, Task, Kinds
  <2>4. tasks'[t].conn = c
    <3>1. CASE NextInQueue(t, T)
      BY <2>3, <3>1, QueueOnward
    <3>2. CASE ~NextInQueue(t, T)
      BY <1>0, <2>2, <3>2 DEF Idle
    <3> QED
      BY <3>1, <3>2
  <2> QED
    BY <1>0, <2>1, <2>4 DEF SocketWaits
<1> QED
  BY <1>1, <1>2

\* Every other handler begins as one of its own kind.
LEMMA OtherStart ==
  ASSUME IInv, NEW t \in Tasks, Start(t), ~\E c \in Conns : Hello(t, c)
  PROVE  tasks'[t].kind # "hello"
<1>0. /\ Idle \in Task /\ Idle.kind = "none" /\ Idle.queue = {} /\ tasks \in [Tasks -> Task]
  BY IdleType, TypeParts DEF Idle
<1> DEFINE Ends == tasks'[t] = Idle
<1>1. ASSUME NEW c \in Conns, NEW b \in Boots, Resume(t, c, b) PROVE tasks'[t].kind # "hello"
  <2> DEFINE T == [Idle EXCEPT !.kind = "resume", !.conn = c, !.who = conns[c].client]
  <2>1. Close(t, T, b, boots[b], ExpireEvent(boots[b])) \/ Ends
    BY <1>0, <1>1 DEF Resume, ResumeDecide, FrameOn, Finish
  <2>2. CASE Close(t, T, b, boots[b], ExpireEvent(boots[b]))
    BY <1>0, <2>2 DEF Close, Idle
  <2> QED
    BY <1>0, <2>1, <2>2
<1>2. ASSUME NEW c \in Conns, NEW b \in Boots, NEW good \in BOOLEAN,
             ChallengeResponse(t, c, b, good)
      PROVE  tasks'[t].kind # "hello"
  <2> DEFINE U == [Idle EXCEPT !.pc = "proof", !.kind = "challenge", !.boot = b,
                        !.snap = boots[b], !.conn = c, !.who = conns[c].client,
                        !.proof = good,
                        !.tok = TokenOf[boots[b].key] \notin revoked]
  <2>1. tasks' = [tasks EXCEPT ![t] = U] \/ Ends
    BY <1>0, <1>2 DEF ChallengeResponse, FrameOn
  <2>2. U.kind = "challenge"
    BY DEF Idle
  <2> HIDE DEF U
  <2> QED
    BY <1>0, <2>1, <2>2
<1>3. ASSUME NEW c \in Conns, NEW b \in Boots, NEW good \in BOOLEAN, Received(t, c, b, good)
      PROVE  tasks'[t].kind # "hello"
  <2> DEFINE T == [Idle EXCEPT !.kind = "received", !.conn = c, !.who = conns[c].client]
  <2>1. Close(t, T, b, boots[b], "consume") \/ Ends
    BY <1>0, <1>3 DEF Received, FrameOn
  <2>2. CASE Close(t, T, b, boots[b], "consume")
    BY <1>0, <2>2 DEF Close, Idle
  <2> QED
    BY <1>0, <2>1, <2>2
<1>4. ASSUME NEW b, NEW kind \in Kinds \ {"hello"}, NEW snap, NEW ev,
             Close(t, [Idle EXCEPT !.kind = kind], b, snap, ev)
      PROVE  tasks'[t].kind # "hello"
  BY <1>0, <1>4 DEF Close, Idle
<1>5. ASSUME NEW b \in Boots, NEW kind \in {"prepare", "complete"}, NEW ctx,
             ApprovalStart(t, b, kind, ctx)
      PROVE  tasks'[t].kind # "hello"
  <2>1. CASE Close(t, [Idle EXCEPT !.kind = kind], b, boots[b], "expirePending")
    BY <1>4, <2>1 DEF Kinds
  <2>2. CASE ~Close(t, [Idle EXCEPT !.kind = kind], b, boots[b], "expirePending")
    BY <1>0, <1>5, <2>2 DEF ApprovalStart, Idle
  <2> QED
    BY <2>1, <2>2
<1>6. ASSUME NEW x \in contexts, Complete(t, x) PROVE tasks'[t].kind # "hello"
  BY <1>5, <1>6, TypeParts DEF Complete, Stored, Context
<1>7. ASSUME NEW b \in Boots, Decline(t, b) \/ CancelBoot(t, b) PROVE tasks'[t].kind # "hello"
  <2>1. CASE tasks' = tasks /\ tasks[t] = Idle
    BY <1>0, <2>1
  <2> QED
    BY <1>4, <1>7, <2>1 DEF Decline, CancelBoot, Kinds
<1>8. ASSUME NEW kind \in {"cancelAll", "alarm"}, NEW q \in SUBSET [boot : Boots, row : Row],
             NextInQueue(t, [Idle EXCEPT !.kind = kind, !.queue = q])
      PROVE  tasks'[t].kind # "hello"
  <2> DEFINE T == [Idle EXCEPT !.kind = kind, !.queue = q]
  <2>1. T \in Task /\ T.kind = kind
    BY <1>0 DEF Idle, Task, Kinds
  <2>2. NextInQueue(t, T)
    BY <1>8
  <2> HIDE DEF T
  <2> QED
    BY <2>1, <2>2, QueueOnward
<1>9. ASSUME NEW tks, CancelAll(t, tks) PROVE tasks'[t].kind # "hello"
  <2> DEFINE Q == {[boot |-> b, row |-> boots[b]] : b \in
                    {x \in LiveBoots : /\ TokenOf[boots[x].key] \in tks
                                       /\ Allowed(boots[x].status, "cancel")}}
  <2>1. Q \in SUBSET [boot : Boots, row : Row]
    BY TypeParts DEF LiveBoots
  <2>2. NextInQueue(t, [Idle EXCEPT !.kind = "cancelAll", !.queue = Q]) \/ Ends
    BY <1>0, <1>9 DEF CancelAll
  <2> HIDE DEF Q
  <2> QED
    BY <1>0, <1>8, <2>1, <2>2
<1>10. CASE AlarmFires(t)
  <2>1. OverdueQueue \in SUBSET [boot : Boots, row : Row]
    BY TypeParts DEF OverdueQueue
  <2>2. NextInQueue(t, [Idle EXCEPT !.kind = "alarm", !.queue = OverdueQueue]) \/ Ends
    BY <1>0, <1>10 DEF AlarmFires
  <2> QED
    BY <1>0, <1>8, <2>1, <2>2
<1> QED
  BY <1>1, <1>2, <1>3, <1>5, <1>6, <1>7, <1>9, <1>10 DEF Start, Prepare

\* A handler that attaches is no hello's.
LEMMA DecideWaits ==
  ASSUME IInv, NEW t \in Tasks, NEW b, NEW row, NEW cs, tasks[t].kind = "challenge",
         ChallengeDecide(t, tasks[t], b, row, cs)
  PROVE  Finish(t) \/ SocketWaits(t)'
<1> DEFINE U == [tasks[t] EXCEPT !.pc = "attached", !.ev = "none", !.boot = b, !.snap = row]
<1>1. Finish(t) \/ tasks' = [tasks EXCEPT ![t] = U]
  BY DEF ChallengeDecide
<1>2. U.kind = "challenge"
  BY TypeParts DEF Task
<1> HIDE DEF U
<1> QED
  BY <1>1, <1>2, TypeParts, OtherKindWaits

\* Until it binds its socket a hello runs on it alone.
LEMMA WaitsKept ==
  ASSUME IInv, NEW t \in Tasks, SocketWaits(t), Start(t) \/ Continue(t)
  PROVE  SocketWaits(t)'
<1> DEFINE T == tasks[t]
<1>0. T \in Task /\ TaskInv(t) /\ tasks \in [Tasks -> Task]
  BY TypeParts
<1> DEFINE Same == tasks'[t].kind = T.kind /\ tasks'[t].conn = T.conn
<1>1. CASE Start(t)
  BY <1>1, HelloWaits, OtherStart, OtherKindWaits
<1>2. CASE Finish(t)
  BY <1>0, <1>2, IdleWaits DEF Finish
<1>3. CASE AfterExpire(t) /\ ~Finish(t)
  <2> DEFINE cs == ShutAll(conns, T.boot)
             U == [T EXCEPT !.pc = "env", !.ev = "none", !.boot = NULL]
  <2>1. T.boot \in Boots
    BY <1>0, <1>3 DEF AfterExpire, TaskInv, Task
  <2>2. \/ NextInQueue(t, T) /\ conns' = cs
        \/ tasks' = [tasks EXCEPT ![t] = U] /\ conns' = cs
        \/ T.kind = "challenge" /\ ChallengeDecide(t, T, T.boot, boots[T.boot], cs)
    BY ZenonT(60), <1>3 DEF AfterExpire, ResumeDecide, HelloAdmit
  <2>3. CASE NextInQueue(t, T) /\ conns' = cs
    BY <1>0, <2>1, <2>3, QueueOnward, OnwardWaits
  <2>4. CASE tasks' = [tasks EXCEPT ![t] = U] /\ conns' = cs
    <3>1. Same
      BY <1>0, <2>4 DEF Task
    <3> QED
      BY <2>1, <2>4, <3>1, OnwardWaits
  <2>5. CASE T.kind = "challenge" /\ ChallengeDecide(t, T, T.boot, boots[T.boot], cs)
    BY <1>2, <2>5, DecideWaits
  <2> HIDE DEF cs, U
  <2> QED
    BY <2>2, <2>3, <2>4, <2>5
<1>4. CASE AfterCancel(t) /\ ~Finish(t)
  <2>1. T.boot \in Boots
    BY <1>0, <1>4 DEF AfterCancel, TaskInv, Task
  <2>2. NextInQueue(t, T) /\ conns' = ShutAll(conns, T.boot)
    BY <1>4 DEF AfterCancel
  <2> QED
    BY <1>0, <2>1, <2>2, QueueOnward, OnwardWaits
<1>5. CASE HelloMake(t) /\ ~Finish(t)
  <2>1. tasks' = [tasks EXCEPT ![t] = [T EXCEPT !.pc = "keyed", !.snap = Opening(T.who)]]
    BY <1>5 DEF HelloMake
  <2>2. Same /\ conns' = conns
    BY <1>0, <1>5, <2>1 DEF HelloMake, Task
  <2> QED
    BY <2>2, OnwardWaits
<1>6. CASE HelloInsert(t)
  <2>1. PICK b \in Boots :
          tasks' = [tasks EXCEPT ![t] = [T EXCEPT !.pc = "insert", !.boot = b, !.snap = NoRow]]
    BY <1>6 DEF HelloInsert
  <2>2. Same /\ conns' = conns
    BY <1>0, <1>6, <2>1 DEF HelloInsert, Task
  <2> QED
    BY <2>2, OnwardWaits
<1>7. CASE HelloIndex(t) \/ Mirror(t) \/ Record(t)
  <2>1. conns' = conns
    BY <1>7 DEF HelloIndex, Mirror, Record, storage
  <2>2. Finish(t) \/ \E pc : tasks' = [tasks EXCEPT ![t] = [T EXCEPT !.pc = pc]]
    BY <1>7 DEF HelloIndex, Mirror, Record
  <2>3. ASSUME NEW pc, tasks' = [tasks EXCEPT ![t] = [T EXCEPT !.pc = pc]]
        PROVE  Same
    BY <1>0, <2>3 DEF Task
  <2> QED
    BY <1>2, <2>1, <2>2, <2>3, OnwardWaits
<1>8. CASE ChallengeVerified(t)
  <2>1. T.kind = "challenge"
    BY <1>0, <1>8 DEF ChallengeVerified, TaskInv
  <2>2. \/ Finish(t)
        \/ \E ev : Close(t, T, T.boot, T.snap, ev)
        \/ ChallengeDecide(t, T, T.boot, T.snap, conns)
    BY <1>8 DEF ChallengeVerified
  <2>3. ASSUME NEW ev, Close(t, T, T.boot, T.snap, ev) PROVE SocketWaits(t)'
    BY <1>0, <2>1, <2>3, CloseOnward, OtherKindWaits
  <2> QED
    BY <1>2, <2>1, <2>2, <2>3, DecideWaits
<1>10. CASE Attached(t) \/ AfterApprove(t)
  <2>1. PICK row, targets : Finish(t) \/ Deliver(t, T, row, targets)
    BY <1>10 DEF Attached, AfterApprove
  <2> DEFINE ev == IF row.status = "APPROVED" THEN "deliver" ELSE "redeliver"
  <2>2. Finish(t) \/ tasks' = [tasks EXCEPT ![t] =
                         [T EXCEPT !.pc = FirstWrite(ev), !.ev = ev, !.snap = NoRow]]
    BY <2>1 DEF Deliver, AfterDeliver
  <2> DEFINE U == [T EXCEPT !.pc = FirstWrite(ev), !.ev = ev, !.snap = NoRow]
  <2>3. U.kind = T.kind /\ U.conn = T.conn
    BY <1>0 DEF Task
  <2>4. Finish(t) \/ tasks' = [tasks EXCEPT ![t] = U]
    BY <2>2
  <2>5. conns' = conns
    BY <1>10 DEF Attached, AfterApprove
  <2> HIDE DEF U, ev
  <2>6. Finish(t) \/ Same
    BY <1>0, <2>3, <2>4
  <2> QED
    BY <1>2, <2>5, <2>6, OnwardWaits
<1>11. CASE PrepareRequest(t) \/ CompleteCheck(t) \/ Approve(t)
  <2>1. T.kind \in {"prepare", "complete"}
    BY <1>11 DEF PrepareRequest, CompleteCheck, Approve
  <2>2. \/ Finish(t)
        \/ \E x : tasks' = [tasks EXCEPT ![t] = [T EXCEPT !.pc = "hash", !.ctx = x]]
        \/ \E r, tok : tasks' = [tasks EXCEPT ![t] = [T EXCEPT !.pc = "hash", !.rev = r, !.tok = tok]]
        \/ tasks' = [tasks EXCEPT ![t] = [T EXCEPT !.pc = "mirror", !.ev = "approve"]]
    BY Zenon, <1>11 DEF PrepareRequest, CompleteCheck, Approve
  <2>3. Finish(t) \/ tasks'[t].kind = T.kind
    BY <1>0, <2>2 DEF Task
  <2> QED
    BY <1>2, <2>1, <2>3, OtherKindWaits
<1>9. CASE \/ HelloOpened(t) \/ ApprovalRefused(t) \/ PrepareStore(t)
           \/ AfterDecline(t) \/ AfterConsume(t) \/ AfterDelivery(t)
  BY <1>2, <1>9 DEF HelloOpened, ApprovalRefused, PrepareStore, AfterDecline, AfterConsume,
     AfterDelivery, AfterDeliver
<1> QED
  BY <1>1, <1>2, <1>3, <1>4, <1>5, <1>6, <1>7, <1>8, <1>9, <1>10, <1>11 DEF Continue

\* In its turn a handler finds what it read still current.
LEMMA CurrentKept ==
  ASSUME IInv, IInv', ReleaseInv, Current, [Next]_vars,
         Elsewhere \/ \A t \in Tasks : Start(t) => Quiet
  PROVE  Current'
<1>1. RowChange
  BY NextRows
<1>2. CASE Elsewhere
  <2>1. InTurn'
    BY <1>2, ElsewhereLeaves DEF InTurn, Current
  <2>2. ASSUME NEW s \in Tasks PROVE SerialTask(s)' /\ SocketWaits(s)'
    <3>1. CASE tasks'[s] = Idle
      BY <3>1, IdleSerial, IdleWaits
    <3>2. CASE tasks'[s] = tasks[s]
      <4>1. boots' = boots /\ records' = records /\ SerialTask(s)
        BY <1>2, ElsewhereLeaves DEF Leaves, Current
      <4>2. \A tk : PendingOf(tk)' = PendingOf(tk)
        BY <4>1, PendingSame
      <4>3. SerialTask(s)'
        BY <3>2, <4>1, <4>2 DEF SerialTask, Room
      <4> QED
        BY <1>2, <3>2, <4>3, ElsewhereWaits DEF Current
    <3> QED
      BY <1>2, <3>1, <3>2, ElsewhereLeaves
  <2> QED
    BY <1>1, <2>1, <2>2, TimesKept, LimitsKept DEF Current
<1>3. ASSUME NEW t \in Tasks, Start(t) \/ Continue(t), Start(t) => Quiet
      PROVE  Current'
  <2>1. OthersIdle(t)'
    BY <1>3, StepsAlone, StaysAlone DEF Current
  <2>2. InTurn'
    BY <2>1 DEF OthersIdle, InTurn
  <2>3. SerialTask(t)'
    BY <1>3, HandlerNow, HandlerCurrent DEF Current
  <2>4. \A s \in Tasks \ {t} : SerialTask(s)' /\ SocketWaits(s)'
    BY <2>1, IdleSerial, IdleWaits DEF OthersIdle
  <2>5. SocketWaits(t)'
    BY <1>3, WaitsKept DEF Current
  <2> QED
    BY <1>1, <2>2, <2>3, <2>4, <2>5, TimesKept, LimitsKept DEF Current
<1> QED
  BY <1>2, <1>3 DEF Next, Elsewhere

-----------------------------------------------------------------------------
(* What is left undone is owed, as long as nothing failed *)

\* The handler that owes is the one that is in flight.
LEMMA OwedByOne ==
  ASSUME NEW t \in Tasks, OthersIdle(t)
  PROVE  /\ IndexFollows =>
              \A b \in Boots :
                /\ index[b] # boots[b].status => OwesIndex(t) /\ tasks[t].boot = b
                /\ index[b] = NoStatus /\ boots[b].status # NoStatus =>
                     tasks[t].pc = "insert" /\ tasks[t].boot = b
         /\ SocketsServed =>
              \A b \in Boots : boots[b].status = "APPROVED" /\ SocketsOf(conns, b) # {} =>
                /\ OwesSend(t) /\ tasks[t].boot = b
                /\ tasks[t].pc = "attached" => SocketsOf(conns, b) \subseteq {tasks[t].conn}
         /\ AlarmSet =>
              \A b \in LiveBoots : ~Covered(b) =>
                OwesAlarm(t) /\ (tasks[t].kind = "alarm" \/ tasks[t].boot = b)
<1>1. \A s \in Tasks \ {t} :
        ~OwesIndex(s) /\ ~OwesSend(s) /\ ~OwesAlarm(s) /\ tasks[s].pc # "insert"
  <2> SUFFICES ASSUME NEW s \in Tasks \ {t}
               PROVE  ~OwesIndex(s) /\ ~OwesSend(s) /\ ~OwesAlarm(s) /\ tasks[s].pc # "insert"
    OBVIOUS
  <2>1. tasks[s] = Idle
    BY DEF OthersIdle
  <2>2. tasks[s].pc # "insert"
    BY <2>1 DEF Idle
  <2> QED
    BY <2>1, <2>2, IdleOwes
<1> QED
  BY <1>1 DEF IndexFollows, SocketsServed, AlarmSet

\* An index row to update is there: the boot was inserted before it was changed.
LEMMA NoMiss ==
  ASSUME IInv, IndexFollows, NEW t \in Tasks, OthersIdle(t)
  PROVE  ~Misses(t)
<1> SUFFICES ASSUME Misses(t) PROVE FALSE
  OBVIOUS
<1>1. boots[tasks[t].boot].status # NoStatus
  BY TypeParts, BootAssumption DEF Misses, TaskInv
<1>2. tasks[t].pc = "insert"
  BY <1>1, OwedByOne DEF Misses
<1> QED
  BY <1>2 DEF Misses

\* A status is stored first and then shown in the index.
LEMMA IndexStep ==
  ASSUME IInv, IndexFollows, NEW t \in Tasks, OthersIdle(t), StepNow(t)
  PROVE  IndexFollows'
<1> DEFINE T == tasks[t]
           U == tasks'[t]
<1>0. /\ T \in Task /\ tasks \in [Tasks -> Task] /\ boots \in [Boots -> Row]
      /\ index \in [Boots -> Status \cup {NoStatus}]
  BY TypeParts
<1>1. \A b \in Boots : index[b] # boots[b].status => OwesIndex(t) /\ T.boot = b
  BY OwedByOne
<1> SUFFICES ASSUME NEW b \in Boots
             PROVE  /\ index'[b] # boots'[b].status => U.pc \in {"insert", "mirror"} /\ U.boot = b
                    /\ index'[b] = NoStatus /\ boots'[b].status # NoStatus =>
                         U.pc = "insert" /\ U.boot = b
  BY DEF IndexFollows, OwesIndex
<1>2. CASE Reads(t)
  BY <1>1, <1>2 DEF Reads
<1>3. CASE Closes(t)
  <2>1. PICK x \in Boots, ev \in Closing :
          /\ Allowed(boots[x].status, ev)
          /\ boots' = [boots EXCEPT ![x].status = Target(ev), ![x].frame = 0]
          /\ U.pc = "mirror" /\ U.boot = x
    BY <1>3 DEF Closes
  <2>2. index' = index /\ index[b] = boots[b].status
    BY <1>1, <1>3 DEF Closes
  <2>3. boots[x].status # NoStatus
    BY <2>1, AllowedLive DEF Live, NoStatus, Closing
  <2>4. CASE b = x
    BY <2>1, <2>2, <2>3, <2>4
  <2>5. CASE b # x
    BY <1>0, <2>1, <2>2, <2>5
  <2> QED
    BY <2>4, <2>5
<1>4. CASE Inserts(t)
  <2>1. index' = index /\ index[b] = boots[b].status
    BY <1>1, <1>4 DEF Inserts
  <2> QED
    BY <1>0, <1>4, <2>1 DEF Inserts
<1>5. CASE Approves(t)
  <2>1. index' = index /\ index[b] = boots[b].status /\ U.pc = "mirror" /\ U.boot = T.boot
    BY <1>1, <1>5 DEF Approves
  <2>2. CASE b = T.boot
    BY <1>5, <2>1, <2>2 DEF Approves, NoStatus
  <2>3. CASE b # T.boot
    BY <1>0, <1>5, <2>1, <2>3 DEF Approves
  <2> QED
    BY <2>2, <2>3
<1>6. CASE Sends(t)
  <2>1. PICK ev \in {"deliver", "redeliver"} :
          /\ Allowed(boots[T.boot].status, ev)
          /\ boots' = [boots EXCEPT ![T.boot].status = Target(ev)]
          /\ U.pc = FirstWrite(ev)
    BY <1>6 DEF Sends
  <2>2. index' = index /\ index[b] = boots[b].status /\ U.boot = T.boot /\ T.boot \in Boots
    BY <1>1, <1>6 DEF Sends
  <2>3. boots[T.boot].status # NoStatus
    BY <2>1, AllowedLive DEF Live, NoStatus, Events
  <2>4. CASE b # T.boot
    BY <1>0, <2>1, <2>2, <2>4
  <2>5. CASE b = T.boot /\ ev = "deliver"
    BY <2>1, <2>2, <2>3, <2>5 DEF FirstWrite
  <2>6. CASE b = T.boot /\ ev = "redeliver"
    <3>1. boots[b].status = "DELIVERED"
      BY <2>1, <2>6 DEF Allowed, Transitions
    <3>2. boots'[b].status = "DELIVERED"
      BY <1>0, <2>1, <2>6 DEF Target, Row
    <3> QED
      BY <2>2, <3>1, <3>2 DEF NoStatus
  <2> QED
    BY <2>1, <2>4, <2>5, <2>6
<1>7. CASE Served(t)
  BY <1>1, <1>7 DEF Served, Leaves
<1>8. CASE Lands(t)
  <2>1. boots' = boots /\ T.boot \in Boots
    BY <1>8 DEF Lands
  <2>2. CASE T.pc \in {"insert", "mirror"} /\ index' = [index EXCEPT ![T.boot] = boots[T.boot].status]
    BY <1>0, <1>1, <2>1, <2>2
  <2>3. CASE T.pc = "record" /\ index' = index
    BY <1>1, <2>1, <2>3 DEF OwesIndex
  <2> QED
    BY <1>8, <2>2, <2>3 DEF Lands
<1>9. CASE Misses(t)
  BY <1>9, NoMiss
<1> QED
  BY <1>2, <1>3, <1>4, <1>5, <1>6, <1>7, <1>8, <1>9 DEF StepNow

\* A socket is bound to an approved boot by the handler that sends it the payload.
LEMMA SocketsStep ==
  ASSUME IInv, IndexFollows, SocketsServed, NEW t \in Tasks, OthersIdle(t), StepNow(t)
  PROVE  SocketsServed'
<1> DEFINE T == tasks[t]
           U == tasks'[t]
<1>0. T \in Task /\ tasks \in [Tasks -> Task] /\ boots \in [Boots -> Row]
  BY TypeParts
<1>1. \A b \in Boots : boots[b].status = "APPROVED" /\ SocketsOf(conns, b) # {} =>
        /\ OwesSend(t) /\ T.boot = b
        /\ T.pc = "attached" => SocketsOf(conns, b) \subseteq {T.conn}
  BY OwedByOne
<1> SUFFICES ASSUME NEW b \in Boots,
                    boots'[b].status = "APPROVED", SocketsOf(conns', b) # {}
             PROVE  /\ U.pc = "attached" \/ (U.pc \in Writing /\ U.ev = "approve")
                    /\ U.boot = b
                    /\ U.pc = "attached" => SocketsOf(conns', b) \subseteq {U.conn}
  BY DEF SocketsServed, OwesSend
<1>2. CASE Reads(t)
  <2>1. boots[b].status = "APPROVED" /\ SocketsOf(conns, b) = {}
    BY <1>1, <1>2 DEF Reads
  <2>2. \A c \in SocketsOf(conns', b) : U.pc = "attached" /\ U.boot = b /\ U.conn = c
    <3> SUFFICES ASSUME NEW c \in SocketsOf(conns', b)
                 PROVE  U.pc = "attached" /\ U.boot = b /\ U.conn = c
      OBVIOUS
    <3>1. c \in Conns
      BY DEF SocketsOf
    <3> QED
      BY <1>2, <2>1, <3>1 DEF Reads
  <2> QED
    BY <2>2
<1>3. CASE Closes(t)
  <2>1. PICK x \in Boots, ev \in Closing :
          boots' = [boots EXCEPT ![x].status = Target(ev), ![x].frame = 0]
    BY <1>3 DEF Closes
  <2>2. Target(ev) # "APPROVED"
    BY ClosingTerminal DEF Terminal
  <2>3. boots[b].status = "APPROVED"
    BY <1>0, <2>1, <2>2 DEF Row
  <2>4. SocketsOf(conns, b) # {} /\ ~OwesSend(t)
    BY <1>3 DEF Closes, Fewer
  <2> QED
    BY <1>1, <2>3, <2>4
<1>4. CASE Inserts(t)
  <2>1. boots[b].status = "APPROVED"
    BY <1>0, <1>4 DEF Inserts, NoRow
  <2> QED
    BY <1>1, <1>4, <2>1 DEF Inserts
<1>5. CASE Approves(t)
  <2>1. U.pc = "mirror" /\ U.ev = "approve" /\ U.boot = T.boot
    BY <1>5 DEF Approves
  <2>2. CASE b # T.boot
    <3>1. boots[b].status = "APPROVED" /\ conns' = conns /\ ~OwesSend(t)
      BY <1>0, <1>5, <2>2 DEF Approves
    <3> QED
      BY <1>1, <3>1
  <2> QED
    BY <2>1, <2>2 DEF Writing
<1>6. CASE Sends(t)
  <2>1. PICK ev \in {"deliver", "redeliver"} :
          boots' = [boots EXCEPT ![T.boot].status = Target(ev)]
    BY <1>6 DEF Sends
  <2>2. Target(ev) = "DELIVERED"
    BY DEF Target
  <2>3. b # T.boot /\ boots[b].status = "APPROVED" /\ conns' = conns
    BY <1>0, <1>6, <2>1, <2>2 DEF Row, Sends
  <2> QED
    BY <1>1, <2>3
<1>7. CASE Served(t)
  <2>1. boots[b].status = "APPROVED" /\ conns' = conns
    BY <1>7 DEF Served, Leaves
  <2>2. T.boot = b /\ (T.pc = "attached" => SocketsOf(conns, b) \subseteq {T.conn})
    BY <1>1, <2>1
  <2>3. T.pc = "attached" /\ conns[T.conn].st # "open"
    BY <1>7, <2>1, <2>2 DEF Served
  <2>4. SocketsOf(conns, b) = {}
    BY <2>2, <2>3 DEF SocketsOf
  <2> QED
    BY <2>1, <2>4
<1>8. CASE Lands(t)
  <2>1. PICK pc \in {"opened", "record", "audit"} :
          /\ tasks' = [tasks EXCEPT ![t] = [T EXCEPT !.pc = pc]]
          /\ T.pc = "insert" <=> pc = "opened"
    BY <1>8 DEF Lands
  <2>2. U.pc = pc /\ U.ev = T.ev /\ U.boot = T.boot
    BY <1>0, <2>1 DEF Task
  <2>3. boots[b].status = "APPROVED" /\ conns' = conns /\ T.pc \in {"insert", "mirror", "record"}
    BY <1>8 DEF Lands
  <2>4. T.boot = b /\ T.pc \in Writing /\ T.ev = "approve"
    BY <1>1, <2>3 DEF OwesSend
  <2>5. pc \in Writing
    BY <2>1, <2>4 DEF Writing
  <2> QED
    BY <2>2, <2>4, <2>5 DEF Writing
<1>9. CASE Misses(t)
  BY <1>9, NoMiss
<1> QED
  BY <1>2, <1>3, <1>4, <1>5, <1>6, <1>7, <1>8, <1>9 DEF StepNow

\* #recomputeAlarm covers every live boot, whatever alarm was set.
LEMMA RearmCovers ==
  ASSUME IInv, \A b \in Boots : RowTimes(b), NEW set \in Nat, Rearm(set), boots' = boots
  PROVE  \A b \in LiveBoots : alarm' # 0 /\ alarm' <= Deadline(boots[b])
<1>1. \A b \in LiveBoots : Deadline(boots[b]) \in Nat \ {0}
  <2> SUFFICES ASSUME NEW b \in Boots, boots[b].status \in Live
               PROVE  Deadline(boots[b]) \in Nat \ {0}
    BY DEF LiveBoots
  <2>1. RowInv(b) /\ RowTimes(b) /\ boots[b] \in Row
    BY TypeParts
  <2>2. boots[b].pending \in Nat /\ boots[b].payload \in Nat /\ boots[b].created \in Nat
    BY <2>1 DEF Row
  <2>3. boots[b].status = "APPROVED" => boots[b].payload # 0
    BY <2>1, <2>2 DEF RowInv
  <2>4. boots[b].status = "PENDING" => boots[b].pending # 0
    BY <2>1 DEF RowTimes
  <2>5. boots[b].status = "DELIVERED" => boots[b].payload # 0
    BY <2>1 DEF RowTimes
  <2> QED
    BY <2>2, <2>3, <2>4, <2>5 DEF Live, Deadline
<1> DEFINE D(b) == Deadline(boots[b])
<1>2. CASE LiveBoots = {}
  BY <1>2
<1>3. CASE LiveBoots # {}
  <2>1. PICK x \in LiveBoots :
          /\ \A y \in LiveBoots : D(x) <= D(y)
          /\ alarm' = IF set = 0 \/ set > D(x) THEN D(x) ELSE set
    BY <1>3 DEF Rearm
  <2>2. \A y \in LiveBoots : D(y) \in Nat \ {0}
    BY <1>1
  <2> HIDE DEF D
  <2>3. alarm' # 0 /\ alarm' <= D(x) /\ alarm' \in Nat
    BY <2>1, <2>2
  <2> SUFFICES ASSUME NEW b \in LiveBoots PROVE alarm' # 0 /\ alarm' <= D(b)
    BY DEF D
  <2> QED
    BY <2>1, <2>2, <2>3
<1> QED
  BY <1>2, <1>3

\* The alarm is set anew after a boot was opened or approved; closing a boot needs no
\* earlier one, and the alarm's own handler sets it last.
LEMMA AlarmServed ==
  ASSUME IInv, \A b \in Boots : RowTimes(b), IndexFollows, AlarmSet,
         NEW t \in Tasks, OthersIdle(t), StepNow(t)
  PROVE  AlarmSet'
<1> DEFINE T == tasks[t]
           U == tasks'[t]
<1>0. /\ T \in Task /\ tasks \in [Tasks -> Task] /\ boots \in [Boots -> Row]
      /\ alarm \in Nat
  BY TypeParts
<1>1. \A b \in LiveBoots : ~Covered(b) => OwesAlarm(t) /\ (T.kind = "alarm" \/ T.boot = b)
  BY OwedByOne
<1> SUFFICES ASSUME NEW b \in Boots, boots'[b].status \in Live,
                    ~(alarm' # 0 /\ alarm' <= Deadline(boots'[b]))
             PROVE  OwesAlarm(t)' /\ (U.kind = "alarm" \/ U.boot = b)
  BY DEF AlarmSet, LiveBoots, Covered
\* A boot that was live with this deadline before, under the same alarm.
<1>2. ASSUME boots[b].status \in Live, Deadline(boots[b]) = Deadline(boots'[b]), alarm' = alarm
      PROVE  OwesAlarm(t) /\ (T.kind = "alarm" \/ T.boot = b)
  BY <1>1, <1>2 DEF LiveBoots, Covered
<1>3. ASSUME Leaves, AlarmKept(t) PROVE FALSE
  <2>1. boots' = boots /\ b \in LiveBoots
    BY <1>3 DEF Leaves, LiveBoots
  <2>2. CASE Rearm(alarm) \/ Rearm(0)
    BY <1>0, <2>1, <2>2, RearmCovers
  <2>3. CASE alarm' = alarm /\ ~OwesAlarm(t)
    BY <1>2, <2>1, <2>3 DEF LiveBoots
  <2> QED
    BY <1>3, <2>2, <2>3 DEF AlarmKept
<1>4. CASE Reads(t) \/ Served(t)
  BY <1>3, <1>4 DEF Reads, Served, Leaves
<1>5. CASE Closes(t)
  <2>1. PICK x \in Boots, ev \in Closing :
          boots' = [boots EXCEPT ![x].status = Target(ev), ![x].frame = 0]
    BY <1>5 DEF Closes
  <2>2. Target(ev) \notin Live
    BY ClosingTerminal DEF Terminal, Live
  <2>3. b # x /\ boots'[b] = boots[b]
    BY <1>0, <2>1, <2>2 DEF Row
  <2>4. CASE U.kind = "alarm"
    BY <2>4 DEF OwesAlarm
  <2>5. CASE alarm' = alarm /\ ~OwesAlarm(t)
    BY <1>2, <2>3, <2>5
  <2> QED
    BY <1>5, <2>4, <2>5 DEF Closes
<1>6. CASE Inserts(t)
  <2>1. PICK x \in Boots :
          /\ \A y \in Boots \ {x} : boots'[y] = boots[y]
          /\ U.pc = "insert" /\ U.boot = x
    BY <1>0, <1>6 DEF Inserts
  <2>2. alarm' = alarm /\ ~OwesAlarm(t)
    BY <1>6 DEF Inserts
  <2>3. CASE b # x
    BY <1>2, <2>1, <2>2, <2>3
  <2>4. CASE b = x
    BY <2>1, <2>4 DEF OwesAlarm
  <2> QED
    BY <2>3, <2>4
<1>7. CASE Approves(t)
  <2>1. /\ U.pc = "mirror" /\ U.ev = "approve" /\ U.boot = T.boot /\ U.kind = "complete"
        /\ alarm' = alarm /\ ~OwesAlarm(t)
    BY <1>7 DEF Approves
  <2>2. CASE b # T.boot
    <3>1. boots'[b] = boots[b]
      BY <1>0, <1>7, <2>2 DEF Approves
    <3> QED
      BY <1>2, <2>1, <3>1
  <2>3. CASE b = T.boot
    BY <2>1, <2>3 DEF OwesAlarm, Writing
  <2> QED
    BY <2>2, <2>3
<1>8. CASE Sends(t)
  <2>1. PICK ev \in {"deliver", "redeliver"} :
          /\ Allowed(boots[T.boot].status, ev)
          /\ boots' = [boots EXCEPT ![T.boot].status = Target(ev)]
          /\ U.pc = FirstWrite(ev) /\ U.ev = ev
    BY <1>8 DEF Sends
  <2>2. /\ alarm' = alarm /\ T.kind # "alarm" /\ U.boot = T.boot /\ T.boot \in Boots
        /\ OwesAlarm(t) => U.kind = "complete"
    BY <1>8 DEF Sends
  <2>3. CASE b # T.boot
    <3>1. boots'[b] = boots[b]
      BY <1>0, <2>1, <2>3
    <3> QED
      BY <1>2, <2>2, <2>3, <3>1
  <2>4. CASE b = T.boot
    <3>1. boots[b].status \in {"APPROVED", "DELIVERED"}
      BY <2>1, <2>4 DEF Allowed, Transitions
    <3>2. /\ boots'[b].status = Target(ev) /\ boots'[b].payload = boots[b].payload
      BY <1>0, <2>1, <2>4 DEF Row
    <3>3. Target(ev) = "DELIVERED"
      BY DEF Target
    <3>4. Deadline(boots[b]) = Deadline(boots'[b]) /\ boots[b].status \in Live
      BY <3>1, <3>2, <3>3 DEF Deadline, Live
    <3>5. U.kind = "complete"
      BY <1>2, <2>2, <3>4
    <3>6. U.pc \in Writing
      BY <2>1 DEF FirstWrite, Writing
    <3> QED
      BY <2>1, <2>2, <2>4, <3>5, <3>6 DEF OwesAlarm
  <2> QED
    BY <2>3, <2>4
<1>9. CASE Lands(t)
  <2>1. PICK pc \in {"opened", "record", "audit"} :
          /\ tasks' = [tasks EXCEPT ![t] = [T EXCEPT !.pc = pc]]
          /\ T.pc = "insert" <=> pc = "opened"
    BY <1>9 DEF Lands
  <2>2. U.pc = pc /\ U.ev = T.ev /\ U.boot = T.boot /\ U.kind = T.kind
    BY <1>0, <2>1 DEF Task
  <2>3. boots' = boots /\ alarm' = alarm /\ T.pc \in {"insert", "mirror", "record"}
    BY <1>9 DEF Lands
  <2>4. OwesAlarm(t) /\ (T.kind = "alarm" \/ T.boot = b)
    BY <1>2, <2>3
  <2>5. pc = "opened" \/ pc \in Writing
    BY <2>1 DEF Writing
  <2> QED
    BY <2>1, <2>2, <2>3, <2>4, <2>5 DEF OwesAlarm
<1>10. CASE Misses(t)
  BY <1>10, NoMiss
<1> QED
  BY <1>4, <1>5, <1>6, <1>7, <1>8, <1>9, <1>10 DEF StepNow

\* Where no handler runs, sockets only go, and no failure is counted unless it happened.
LEMMA ElsewhereKeeps ==
  ASSUME IInv, Elsewhere, faults' = 0, IndexFollows, SocketsServed, AlarmSet
  PROVE  (IndexFollows /\ SocketsServed /\ AlarmSet)'
<1>0. faults \in Nat /\ conns \in [Conns -> Conn]
  BY TypeParts DEF IInv, TypeOK
<1>1. ~Restart /\ \A t \in Tasks : ~Throw(t)
  BY <1>0 DEF Restart, Throw
<1>2. tasks' = tasks /\ alarm' = alarm /\ boots' = boots /\ index' = index
  BY <1>1 DEF Elsewhere, World, Tick, Connect, Disconnect, Revoke, ChangeVault, vars, storage, d1
<1>3. \A b \in Boots : SocketsOf(conns', b) \subseteq SocketsOf(conns, b)
  <2>1. CASE conns' = conns
    BY <2>1
  <2>2. ASSUME NEW c \in Conns, NEW k \in Clients, Connect(c, k)
        PROVE  \A b \in Boots : SocketsOf(conns', b) \subseteq SocketsOf(conns, b)
    BY <1>0, <2>2, BootAssumption DEF Connect, SocketsOf, NoConn
  <2>3. ASSUME NEW c \in Conns, Disconnect(c)
        PROVE  \A b \in Boots : SocketsOf(conns', b) \subseteq SocketsOf(conns, b)
    <3>1. conns' = [conns EXCEPT ![c] = IF Busy(c) THEN [@ EXCEPT !.st = "closed"] ELSE NoConn]
      BY <2>3 DEF Disconnect
    <3>2. conns[c] \in Conn
      BY <1>0
    <3>3. conns'[c].st = "closed"
      BY <1>0, <3>1, <3>2 DEF NoConn, Conn
    <3>4. \A x \in Conns \ {c} : conns'[x] = conns[x]
      BY <1>0, <3>1
    <3> QED
      BY <3>3, <3>4 DEF SocketsOf
  <2> QED
    BY <1>1, <2>1, <2>2, <2>3 DEF Elsewhere, World, Tick, Revoke, ChangeVault, vars
<1>4. IndexFollows'
  BY <1>2 DEF IndexFollows, OwesIndex
<1>5. SocketsServed'
  <2> SUFFICES ASSUME NEW b \in Boots, boots[b].status = "APPROVED", SocketsOf(conns', b) # {}
               PROVE  \E t \in Tasks :
                        /\ OwesSend(t) /\ tasks[t].boot = b
                        /\ tasks[t].pc = "attached" => SocketsOf(conns', b) \subseteq {tasks[t].conn}
    BY <1>2 DEF SocketsServed, OwesSend
  <2>1. SocketsOf(conns, b) # {} /\ SocketsOf(conns', b) \subseteq SocketsOf(conns, b)
    BY <1>3
  <2>2. PICK t \in Tasks :
          /\ OwesSend(t) /\ tasks[t].boot = b
          /\ tasks[t].pc = "attached" => SocketsOf(conns, b) \subseteq {tasks[t].conn}
    BY <2>1 DEF SocketsServed
  <2> QED
    BY <2>1, <2>2
<1>6. AlarmSet'
  BY <1>2 DEF AlarmSet, LiveBoots, Covered, OwesAlarm
<1> QED
  BY <1>4, <1>5, <1>6

\* A handler that takes a step has not failed.
LEMMA StepFaults ==
  ASSUME NEW t \in Tasks, Start(t) \/ Continue(t)
  PROVE  faults' = faults
<1>1. CASE Start(t)
  BY Zenon, <1>1 DEF Start, Hello, Resume, ChallengeResponse, Received, Prepare, Complete,
     ApprovalStart, Decline, CancelBoot, CancelAll, AlarmFires, outside
<1>2. CASE Continue(t)
  BY Zenon, <1>2 DEF Continue, HelloMake, HelloInsert, HelloIndex, HelloOpened, ChallengeVerified,
     Attached, ApprovalRefused, PrepareRequest, PrepareStore, CompleteCheck, Approve, Mirror,
     Record, AfterExpire, AfterCancel, AfterDecline, AfterConsume, AfterApprove,
     AfterDelivery, outside
<1> QED
  BY Zenon, <1>1, <1>2

-----------------------------------------------------------------------------
(* The invariant holds *)

LEMMA InitSerialInv == Init => SerialInv
<1> SUFFICES ASSUME Init PROVE SerialInv
  OBVIOUS
<1>1. /\ \A b \in Boots : boots[b] = NoRow /\ index[b] = NoStatus
      /\ \A t \in Tasks : tasks[t] = Idle
  BY DEF Init
<1>2. InTurn /\ \A t \in Tasks : SerialTask(t) /\ SocketWaits(t)
  <2>1. InTurn
    BY <1>1 DEF InTurn
  <2>2. \A t \in Tasks : SerialTask(t) /\ SocketWaits(t)
    BY <1>1 DEF SerialTask, SocketWaits, Idle, Writing
  <2> QED
    BY <2>1, <2>2
<1>3. \A b \in Boots : RowTimes(b) /\ boots[b].status = NoStatus
  BY <1>1 DEF RowTimes, NoRow, NoStatus
<1>4. Limits
  <2>1. \A tk \in Tokens : PendingOf(tk) = {}
    BY <1>3 DEF PendingOf, NoStatus
  <2>2. IsFiniteSet({}) /\ Cardinality({}) = 0
    BY FS_EmptySet
  <2> QED
    BY <2>1, <2>2, BootAssumption DEF Limits
<1>5. IndexFollows /\ SocketsServed /\ AlarmSet
  BY <1>1, <1>3 DEF IndexFollows, SocketsServed, AlarmSet, LiveBoots, Live, NoStatus
<1> QED
  BY <1>2, <1>3, <1>4, <1>5 DEF SerialInv, Current

LEMMA NextSerialInv ==
  ASSUME IInv, IInv', ReleaseInv, SerialInv, [Next]_vars,
         [\A t \in Tasks : Start(t) => Quiet]_vars
  PROVE  SerialInv'
<1>0. Elsewhere \/ \A t \in Tasks : Start(t) => Quiet
  BY DEF Elsewhere
<1>1. Current /\ Current'
  BY <1>0, CurrentKept DEF SerialInv
<1>2. ASSUME faults' = 0 PROVE (IndexFollows /\ SocketsServed /\ AlarmSet)'
  <2>1. CASE Elsewhere
    <3>1. faults = 0
      <4>1. faults \in Nat
        BY DEF IInv, TypeOK
      <4>2. CASE UNCHANGED vars
        BY <1>2, <4>2 DEF vars
      <4>3. CASE World
        <5>1. faults' = faults \/ faults' = faults + 1
          BY Zenon, <4>3 DEF World, Tick, Connect, Disconnect, Revoke, ChangeVault, Restart,
             outside
        <5> QED
          BY <1>2, <4>1, <5>1
      <4>4. ASSUME NEW t \in Tasks, Throw(t) PROVE faults = 0
        BY <1>2, <4>1, <4>4 DEF Throw
      <4> QED
        BY <2>1, <4>2, <4>3, <4>4 DEF Elsewhere
    <3> QED
      BY <1>2, <2>1, <3>1, ElsewhereKeeps DEF SerialInv
  <2>2. ASSUME NEW t \in Tasks, Start(t) \/ Continue(t), Start(t) => Quiet
        PROVE  (IndexFollows /\ SocketsServed /\ AlarmSet)'
    <3>1. IndexFollows /\ SocketsServed /\ AlarmSet
      BY <1>2, <2>2, StepFaults DEF SerialInv
    <3>2. StepNow(t)
      BY <1>1, <2>2, HandlerNow DEF Current
    <3>3. \A b \in Boots : RowTimes(b)
      BY <1>1 DEF Current
    <3>4. OthersIdle(t)
      BY <1>1, <2>2, StepsAlone DEF Current
    <3> QED
      BY <3>1, <3>2, <3>3, <3>4, IndexStep, SocketsStep, AlarmServed
  <2> QED
    BY <1>0, <2>1, <2>2 DEF Next, Elsewhere
<1> QED
  BY <1>1, <1>2 DEF SerialInv

\* While one handler runs at a time, what it read is current at each of its steps,
\* no token has more pending boots than its limit, and, as long as nothing failed,
\* an index row that lags, a payload that was not sent and an alarm that is late are
\* each owed by that handler.
THEOREM SerialInvariant == Spec /\ Serialized => []SerialInv
<1>1. IInv /\ IInv' /\ ReleaseInv /\ SerialInv /\ [Next]_vars
        /\ [\A t \in Tasks : Start(t) => Quiet]_vars => SerialInv'
  BY NextSerialInv
<1> QED
  BY <1>1, InitSerialInv, BootInvariant, ReleaseInvariant, PTL DEF Spec, Serialized

\* No token has more pending boots than the limit a hello is admitted under: the
\* count read before the handler's await still holds when the row is inserted.
THEOREM PendingLimitHolds == Spec /\ Serialized => []PendingWithinLimit
<1>1. SerialInv => PendingWithinLimit
  BY DEF SerialInv, Current, Limits, PendingWithinLimit
<1> QED
  BY <1>1, SerialInvariant, PTL

\* Between handlers the index in D1 shows the status the object holds: each
\* transition stores its status first and mirrors it before its handler ends.
THEOREM IndexAgreesHolds == Spec /\ Serialized => []IndexAgrees
<1>1. SerialInv => IndexAgrees
  BY DEF SerialInv, IndexFollows, IndexAgrees, Quiet, OwesIndex, Idle
<1> QED
  BY <1>1, SerialInvariant, PTL

\* Between handlers no approved boot has a client attached that was not sent its
\* payload, whether the client came before the approval or after it.
THEOREM AttachedIsDeliveredHolds == Spec /\ Serialized => []AttachedIsDelivered
<1>1. SerialInv => AttachedIsDelivered
  BY DEF SerialInv, SocketsServed, AttachedIsDelivered, Quiet, OwesSend, Idle, Writing
<1> QED
  BY <1>1, SerialInvariant, PTL

\* Between handlers an alarm is set, no later than the first deadline of a live boot.
THEOREM AlarmCoversHolds == Spec /\ Serialized => []AlarmCovers
<1>1. SerialInv => AlarmCovers
  BY DEF SerialInv, AlarmSet, Covered, AlarmCovers, Quiet, OwesAlarm, Idle, Writing
<1> QED
  BY <1>1, SerialInvariant, PTL

-----------------------------------------------------------------------------
(* The transition table *)

\* A step opens a boot, moves one along a row of the table, or leaves them all.
LEMMA LifecycleStep ==
  ASSUME IInv, ReleaseInv, Current, [Next]_vars
  PROVE  \/ boots' = boots
         \/ \E b \in Boots :
              /\ \A x \in Boots \ {b} : boots'[x] = boots[x]
              /\ \/ boots[b].status = NoStatus /\ boots'[b].status = "PENDING"
                 \/ \E ev \in Events :
                      Allowed(boots[b].status, ev) /\ boots'[b].status = Target(ev)
<1> DEFINE Goal == \/ boots' = boots
                   \/ \E b \in Boots :
                        /\ \A x \in Boots \ {b} : boots'[x] = boots[x]
                        /\ \/ boots[b].status = NoStatus /\ boots'[b].status = "PENDING"
                           \/ \E ev \in Events :
                                Allowed(boots[b].status, ev) /\ boots'[b].status = Target(ev)
<1>0. boots \in [Boots -> Row]
  BY TypeParts
<1>1. CASE Elsewhere
  BY <1>1, ElsewhereLeaves DEF Leaves
<1>2. ASSUME NEW t \in Tasks, StepNow(t) PROVE Goal
  <2>1. CASE Reads(t) \/ Served(t) \/ Lands(t) \/ Misses(t)
    BY <2>1 DEF Reads, Served, Leaves, Lands, Misses
  <2>2. CASE Closes(t)
    <3>1. PICK b \in Boots, ev \in Closing :
            /\ Allowed(boots[b].status, ev)
            /\ boots' = [boots EXCEPT ![b].status = Target(ev), ![b].frame = 0]
      BY <2>2 DEF Closes
    <3>2. boots'[b].status = Target(ev) /\ \A x \in Boots \ {b} : boots'[x] = boots[x]
      BY <1>0, <3>1 DEF Row
    <3>3. ev \in Events
      BY ClosingTerminal
    <3> QED
      BY <3>1, <3>2, <3>3
  <2>3. CASE Inserts(t)
    <3>1. PICK b \in Boots :
            /\ boots[b].status = NoStatus
            /\ boots'[b].status = "PENDING"
            /\ \A x \in Boots \ {b} : boots'[x] = boots[x]
      BY <1>0, <2>3 DEF Inserts, NoRow
    <3> QED
      BY <3>1
  <2>4. CASE Approves(t)
    <3> DEFINE b == tasks[t].boot
    <3>1. /\ b \in Boots /\ boots[b].status = "PENDING" /\ boots'[b].status = "APPROVED"
          /\ \A x \in Boots \ {b} : boots'[x] = boots[x]
      BY <1>0, <2>4 DEF Approves, Row
    <3>2. "approve" \in Events /\ Allowed("PENDING", "approve") /\ Target("approve") = "APPROVED"
      BY DEF Events, Allowed, Transitions, Target
    <3> QED
      BY <3>1, <3>2
  <2>5. CASE Sends(t)
    <3> DEFINE b == tasks[t].boot
    <3>1. PICK ev \in {"deliver", "redeliver"} :
            /\ Allowed(boots[b].status, ev)
            /\ boots' = [boots EXCEPT ![b].status = Target(ev)]
      BY <2>5 DEF Sends
    <3>2. b \in Boots
      BY <2>5 DEF Sends
    <3>3. boots'[b].status = Target(ev) /\ \A x \in Boots \ {b} : boots'[x] = boots[x]
      BY <1>0, <3>1, <3>2 DEF Row
    <3>4. ev \in Events
      BY DEF Events
    <3> QED
      BY <3>1, <3>2, <3>3, <3>4
  <2> QED
    BY <1>2, <2>1, <2>2, <2>3, <2>4, <2>5 DEF StepNow
<1>3. ASSUME NEW t \in Tasks, Start(t) \/ Continue(t) PROVE Goal
  BY <1>2, <1>3, HandlerNow DEF Current
<1> QED
  BY <1>1, <1>3 DEF Next, Elsewhere

\* The statuses of the rows are those of the abstract lifecycle.
LEMMA LifecycleNext ==
  ASSUME IInv, IInv', ReleaseInv, Current, [Next]_vars
  PROVE  [Lifecycle!Next]_([b \in Boots |-> boots[b].status])
<1> DEFINE s == [b \in Boots |-> boots[b].status]
           s1 == [b \in Boots |-> boots'[b].status]
<1>1. CASE boots' = boots
  BY <1>1
<1>2. ASSUME NEW b \in Boots, \A x \in Boots \ {b} : boots'[x] = boots[x]
      PROVE  s1 = [s EXCEPT ![b] = boots'[b].status] /\ s[b] = boots[b].status
  BY <1>2
<1>3. ASSUME NEW b \in Boots, \A x \in Boots \ {b} : boots'[x] = boots[x],
             boots[b].status = NoStatus, boots'[b].status = "PENDING"
      PROVE  Lifecycle!Open(b)
  <2>1. s1 = [s EXCEPT ![b] = "PENDING"] /\ s[b] = NoStatus
    BY <1>2, <1>3
  <2> QED
    BY <2>1 DEF Lifecycle!Open, Lifecycle!NoStatus, NoStatus
<1>4. ASSUME NEW b \in Boots, \A x \in Boots \ {b} : boots'[x] = boots[x],
             NEW ev \in Events, Allowed(boots[b].status, ev), boots'[b].status = Target(ev)
      PROVE  Lifecycle!Move(b, ev)
  <2>1. s1 = [s EXCEPT ![b] = Target(ev)] /\ Allowed(s[b], ev)
    BY <1>2, <1>4
  <2> QED
    BY <2>1 DEF Lifecycle!Move, Lifecycle!Target, Target, Lifecycle!Allowed, Allowed,
       Lifecycle!Transitions, Transitions
<1>5. Events = Lifecycle!Events
  BY DEF Events, Lifecycle!Events
<1> QED
  BY <1>1, <1>3, <1>4, <1>5, LifecycleStep DEF Lifecycle!Next

\* The object implements BootLifecycle: every change of a boot's status is a row of
\* the transition table, taken from the status the boot has at that moment.
THEOREM ImplementsLifecycleHolds == Spec /\ Serialized => ImplementsLifecycle
<1>1. Init => Lifecycle!Init
  BY DEF Init, Lifecycle!Init, NoRow, NoStatus, Lifecycle!NoStatus
<1>2. IInv /\ IInv' /\ ReleaseInv /\ SerialInv /\ [Next]_vars =>
        [Lifecycle!Next]_([b \in Boots |-> boots[b].status])
  BY LifecycleNext DEF SerialInv
<1> QED
  BY <1>1, <1>2, BootInvariant, ReleaseInvariant, SerialInvariant, PTL
     DEF Spec, ImplementsLifecycle, Lifecycle!Spec

\* A terminal status is final: the table has no row that leaves it.
THEOREM TerminalIsFinalHolds == Spec /\ Serialized => TerminalIsFinal
<1>1. ASSUME IInv, ReleaseInv, SerialInv, [Next]_vars
      PROVE  [\A b \in Boots : boots[b].status \in Terminal =>
                boots'[b].status = boots[b].status]_vars
  <2> SUFFICES ASSUME NEW b \in Boots, boots[b].status \in Terminal
               PROVE  boots'[b].status = boots[b].status
    OBVIOUS
  <2>1. \A ev : ~Allowed(boots[b].status, ev)
    BY AllowedLive DEF Live, Terminal
  <2> QED
    BY <1>1, <2>1, LifecycleStep DEF SerialInv, Terminal, NoStatus
<1> QED
  BY <1>1, BootInvariant, ReleaseInvariant, SerialInvariant, PTL DEF Spec, TerminalIsFinal

\* With a single task every execution is serialized: what the serial runs check is an
\* instance of the theorems above.
THEOREM OneTaskSerialized == (\A s, t \in Tasks : s = t) => (Spec => Serialized)
<1> SUFFICES ASSUME \A s, t \in Tasks : s = t PROVE Spec => Serialized
  OBVIOUS
<1>1. ASSUME NEW t \in Tasks, Start(t) PROVE Quiet
  <2>1. tasks[t] = Idle
    BY Zenon, <1>1 DEF Start, Hello, Resume, ChallengeResponse, Received, FrameOn, Prepare,
       Complete, ApprovalStart, Decline, CancelBoot, CancelAll, AlarmFires
  <2> QED
    BY <2>1 DEF Quiet
<1>2. [Next]_vars => [\A t \in Tasks : Start(t) => Quiet]_vars
  BY <1>1
<1> QED
  BY <1>2, PTL DEF Spec, Serialized

=============================================================================
