------------------------- MODULE BootReleaseProofs -------------------------
(***************************************************************************)
(* Proof that BootSession implements BootRelease, and what it shows on the *)
(* way: a step changes the stored rows in one of four ways or not at all.  *)
(* A boot is opened, closed, approved or delivered, the last two only by   *)
(* the handlers meant for it; which of its status and digest a handler     *)
(* looked at before an await no longer matters then.                       *)
(*                                                                         *)
(* The second half is about an approval that is suspended between its      *)
(* check, its write, its record and its delivery (ReleaseHeld says what    *)
(* its handler carries from one to the next): the approval recorded in D1  *)
(* is of what was released, and a revoked token releases nothing once no   *)
(* handler is left that saw it alive.                                      *)
(***************************************************************************)
EXTENDS BootSessionProofs

Opened(k) ==
  /\ k \in Clients
  /\ \E b \in Boots, row \in Row :
       /\ boots[b].status = NoStatus
       /\ Fresh(row, k)
       /\ boots' = [boots EXCEPT ![b] = row]
  /\ sentTo' = sentTo

ClosedOne ==
  /\ \E b \in Boots, ev \in Closing :
       /\ boots[b].status # NoStatus
       /\ boots' = [boots EXCEPT ![b].status = Target(ev), ![b].frame = 0]
  /\ sentTo' = sentTo

ApprovedOne(b) ==
  /\ \E r \in 1 .. MaxRev, pay \in Nat :
       /\ boots[b].status = "PENDING"
       /\ now < boots[b].pending /\ now < pay
       /\ boots' = [boots EXCEPT ![b] =
            [@ EXCEPT !.status = "APPROVED", !.payload = pay, !.frame = r, !.digest = r]]
  /\ sentTo' = sentTo

DeliveredOne(b) ==
  /\ boots[b].digest # 0
  /\ boots' = [boots EXCEPT ![b].status = "DELIVERED"]
  /\ \E got \in SUBSET {boots[b].key} : sentTo' = [sentTo EXCEPT ![b] = @ \cup got]

RowsSame == boots' = boots /\ sentTo' = sentTo

\* The handler t approves its boot, or delivers it.
Released(t) ==
  LET b == tasks[t].boot
  IN /\ b \in Boots
     /\ \/ Approve(t) /\ ApprovedOne(b)
        \/ (Attached(t) \/ AfterApprove(t)) /\ DeliveredOne(b)

RowChange ==
  \/ ClosedOne \/ RowsSame
  \/ \E t \in Tasks : (HelloInsert(t) /\ Opened(tasks[t].who)) \/ Released(t)

-----------------------------------------------------------------------------
(* The handlers, by what they do to a row *)

\* #apply and its row update close one boot, whatever the snapshot was.
LEMMA CloseRows ==
  ASSUME NEW t, NEW T, NEW b \in Boots, NEW snap, NEW ev \in Closing,
         Close(t, T, b, snap, ev), boots[b].status # NoStatus, sentTo' = sentTo
  PROVE  ClosedOne \/ RowsSame
BY DEF Close, ClosedOne

\* Only a boot that has a row is put on a list to close.
LEMMA QueueRows ==
  ASSUME NEW t, NEW T, NextInQueue(t, T), sentTo' = sentTo,
         \A q \in T.queue : q.boot \in Boots /\ boots[q.boot].status # NoStatus
  PROVE  ClosedOne \/ RowsSame
<1>1. PICK q \in T.queue :
        Close(t, [T EXCEPT !.queue = @ \ {q}], q.boot, q.row,
              IF T.kind = "cancelAll" THEN "cancel" ELSE ExpireEvent(q.row))
  BY DEF NextInQueue
<1> DEFINE ev == IF T.kind = "cancelAll" THEN "cancel" ELSE ExpireEvent(q.row)
<1>2. ev \in Closing
  BY ExpireCloses DEF Closing
<1> QED
  BY <1>1, <1>2, CloseRows

\* The list of overdue boots, as hello and the alarm read it.
LEMMA OverdueRows ==
  ASSUME IInv
  PROVE  \A q \in OverdueQueue : q.boot \in Boots /\ boots[q.boot].status # NoStatus
BY DEF OverdueQueue, Overdue, Live, NoStatus

\* What a handler does to the rows before its first await.
LEMMA StartRows ==
  ASSUME IInv, NEW t \in Tasks, Start(t)
  PROVE  ClosedOne \/ RowsSame
<1> USE DEF RowsSame
<1>1. ASSUME NEW c \in Conns, Hello(t, c) PROVE ClosedOne \/ RowsSame
  <2> DEFINE T == [Idle EXCEPT !.kind = "hello", !.conn = c, !.who = conns[c].client,
                               !.queue = OverdueQueue]
  <2>1. T.queue = OverdueQueue
    BY DEF Idle
  <2>2. sentTo' = sentTo /\ (NextInQueue(t, T) \/ UNCHANGED boots)
    BY <1>1 DEF Hello
  <2> HIDE DEF T
  <2> QED
    BY <2>1, <2>2, QueueRows, OverdueRows
<1>2. ASSUME NEW c \in Conns, NEW b \in Boots, Resume(t, c, b) PROVE ClosedOne \/ RowsSame
  <2> DEFINE T == [Idle EXCEPT !.kind = "resume", !.conn = c, !.who = conns[c].client]
  <2>1. /\ sentTo' = sentTo
        /\ \/ Close(t, T, b, boots[b], ExpireEvent(boots[b])) /\ boots[b].status # NoStatus
           \/ UNCHANGED boots
    BY <1>2 DEF Resume
  <2> HIDE DEF T
  <2> QED
    BY <2>1, CloseRows, ExpireCloses
<1>3. ASSUME NEW c \in Conns, NEW b \in Boots, NEW good \in BOOLEAN,
             ChallengeResponse(t, c, b, good)
      PROVE  ClosedOne \/ RowsSame
  BY <1>3 DEF ChallengeResponse
<1>4. ASSUME NEW c \in Conns, NEW b \in Boots, NEW good \in BOOLEAN, Received(t, c, b, good)
      PROVE  ClosedOne \/ RowsSame
  <2> DEFINE T == [Idle EXCEPT !.kind = "received", !.conn = c, !.who = conns[c].client]
  <2>1. /\ sentTo' = sentTo
        /\ \/ Close(t, T, b, boots[b], "consume") /\ conns[c].att = b
           \/ UNCHANGED boots
    BY <1>4 DEF Received
  <2>2. conns[c].att = b => boots[b].status # NoStatus
    BY TypeParts, BootAssumption DEF ConnInv
  <2> HIDE DEF T
  <2> QED
    BY <2>1, <2>2, CloseRows DEF Closing
<1>5. ASSUME NEW b \in Boots, NEW kind, NEW ctx, ApprovalStart(t, b, kind, ctx)
      PROVE  ClosedOne \/ RowsSame
  <2> DEFINE T == [Idle EXCEPT !.kind = kind]
  <2>1. /\ sentTo' = sentTo /\ boots[b].status # NoStatus
        /\ Close(t, T, b, boots[b], "expirePending") \/ UNCHANGED boots
    BY <1>5 DEF ApprovalStart, NoStatus
  <2> HIDE DEF T
  <2> QED
    BY <2>1, CloseRows DEF Closing
<1>6. ASSUME NEW x \in contexts, Complete(t, x) PROVE ClosedOne \/ RowsSame
  BY <1>5, <1>6, TypeParts DEF Complete, Stored, Context
<1>7. ASSUME NEW b \in Boots, Decline(t, b) \/ CancelBoot(t, b) PROVE ClosedOne \/ RowsSame
  <2>1. sentTo' = sentTo
    BY <1>7 DEF Decline, CancelBoot
  <2>2. ASSUME NEW kind \in Kinds, NEW ev \in {"decline", "cancel"},
               Close(t, [Idle EXCEPT !.kind = kind], b, boots[b], ev)
        PROVE  ClosedOne \/ RowsSame
    <3>1. boots[b].status # NoStatus /\ ev \in Closing
      BY <2>2, AllowedLive DEF Close, Live, NoStatus, Closing
    <3> QED
      BY <2>1, <2>2, <3>1, CloseRows
  <2>3. CASE UNCHANGED boots
    BY <2>1, <2>3
  <2> QED
    BY <1>7, <2>2, <2>3 DEF Decline, CancelBoot, Kinds
<1>8. ASSUME NEW tks, CancelAll(t, tks) PROVE ClosedOne \/ RowsSame
  <2> DEFINE Q == {[boot |-> b, row |-> boots[b]] : b \in
                    {x \in LiveBoots : /\ TokenOf[boots[x].key] \in tks
                                       /\ Allowed(boots[x].status, "cancel")}}
             T == [Idle EXCEPT !.kind = "cancelAll", !.queue = Q]
  <2>1. T.queue = Q
    BY DEF Idle
  <2>2. sentTo' = sentTo /\ (NextInQueue(t, T) \/ UNCHANGED boots)
    BY <1>8 DEF CancelAll
  <2>3. \A q \in Q : q.boot \in Boots /\ boots[q.boot].status # NoStatus
    BY DEF LiveBoots, Live, NoStatus
  <2> HIDE DEF T, Q
  <2> QED
    BY <2>1, <2>2, <2>3, QueueRows
<1>9. CASE AlarmFires(t)
  <2> DEFINE T == [Idle EXCEPT !.kind = "alarm", !.queue = OverdueQueue]
  <2>1. T.queue = OverdueQueue
    BY DEF Idle
  <2>2. sentTo' = sentTo /\ (NextInQueue(t, T) \/ UNCHANGED boots)
    BY <1>9 DEF AlarmFires
  <2> HIDE DEF T
  <2> QED
    BY <2>1, <2>2, QueueRows, OverdueRows
<1> QED
  BY <1>1, <1>2, <1>3, <1>4, <1>5, <1>6, <1>7, <1>8, <1>9 DEF Start, Prepare

\* A payload that is sent has been released: its digest is stored.
LEMMA DeliverRows ==
  ASSUME IInv, NEW t, NEW T, NEW row, NEW targets, Deliver(t, T, row, targets),
         T.boot \in Boots,
         row.frame # 0 => boots[T.boot].digest # 0,
         \A c \in targets : conns[c].st = "open" => conns[c].client = boots[T.boot].key
  PROVE  RowsSame \/ DeliveredOne(T.boot)
<1> DEFINE got == {conns[c].client : c \in {x \in targets : conns[x].st = "open"}}
           ev == IF row.status = "APPROVED" THEN "deliver" ELSE "redeliver"
<1>1. got \subseteq {boots[T.boot].key}
  OBVIOUS
<1>2. Target(ev) = "DELIVERED"
  BY DEF Target
<1>3. \/ RowsSame
      \/ /\ row.frame # 0
         /\ boots' = [boots EXCEPT ![T.boot].status = Target(ev)]
         /\ sentTo' = [sentTo EXCEPT ![T.boot] = @ \cup got]
  BY DEF Deliver, AfterDeliver, RowsSame
<1> HIDE DEF got, ev
<1>4. CASE RowsSame
  BY <1>4
<1>5. CASE ~RowsSame
  BY <1>1, <1>2, <1>3, <1>5 DEF DeliveredOne
<1> QED
  BY <1>4, <1>5

\* What a resumed handler does to the rows.
LEMMA ContinueRows ==
  ASSUME IInv, NEW t \in Tasks, Continue(t)
  PROVE  \/ ClosedOne \/ RowsSame
         \/ (HelloInsert(t) /\ Opened(tasks[t].who)) \/ Released(t)
<1> DEFINE T == tasks[t]
<1>0. /\ T \in Task /\ TaskInv(t)
      /\ \A q \in T.queue : q.boot \in Boots /\ boots[q.boot].status # NoStatus
  BY TypeParts DEF TaskInv, Task
<1>1. CASE HelloInsert(t)
  <2>1. T.who \in Clients /\ T.snap \in Row /\ Fresh(T.snap, T.who)
    BY <1>0, <1>1, OwnConn DEF HelloInsert, TaskInv, Task
  <2>2. \E b \in Boots : boots[b].status = NoStatus /\ boots' = [boots EXCEPT ![b] = T.snap]
    BY <1>1 DEF HelloInsert
  <2>3. sentTo' = sentTo
    BY <1>1 DEF HelloInsert
  <2> QED
    BY <1>1, <2>1, <2>2, <2>3 DEF Opened
<1>2. CASE ChallengeVerified(t)
  <2>1. T.boot \in Boots /\ boots[T.boot].status # NoStatus
    BY <1>0, <1>2 DEF ChallengeVerified, TaskInv, Task
  <2>2. /\ sentTo' = sentTo
        /\ \/ UNCHANGED boots
           \/ Close(t, T, T.boot, T.snap, "cancel")
           \/ Close(t, T, T.boot, T.snap, ExpireEvent(T.snap))
    BY <1>2 DEF ChallengeVerified
  <2>3. "cancel" \in Closing /\ ExpireEvent(T.snap) \in Closing
    BY ExpireCloses DEF Closing
  <2>4. CASE UNCHANGED boots
    BY <2>2, <2>4 DEF RowsSame
  <2> QED
    BY <2>1, <2>2, <2>3, <2>4, CloseRows
<1>3. CASE Attached(t)
  <2>1. /\ T.boot \in Boots /\ T.conn # NULL /\ boots[T.boot].key = T.who
        /\ T.snap.frame # 0 => boots[T.boot].digest # 0
    BY <1>0, <1>3 DEF Attached, TaskInv, Task
  <2>2. conns[T.conn].client = T.who
    BY <2>1, OwnConn
  <2>3. RowsSame \/ Deliver(t, T, T.snap, {T.conn})
    BY <1>3 DEF Attached, RowsSame
  <2>4. CASE RowsSame
    BY <2>4 DEF RowsSame
  <2>5. CASE Deliver(t, T, T.snap, {T.conn})
    <3>1. RowsSame \/ DeliveredOne(T.boot)
      BY <2>1, <2>2, <2>5, DeliverRows
    <3> QED
      BY <1>3, <2>1, <3>1 DEF Released
  <2> QED
    BY <2>3, <2>4, <2>5
<1>4. CASE AfterApprove(t)
  <2>1. T.boot \in Boots /\ Deliver(t, T, boots[T.boot], SocketsOf(conns, T.boot))
    BY <1>0, <1>4 DEF AfterApprove, TaskInv, Task
  <2>2. boots[T.boot].frame # 0 => boots[T.boot].digest # 0
    BY <2>1, TypeParts DEF RowInv
  <2>3. \A c \in SocketsOf(conns, T.boot) : conns[c].client = boots[T.boot].key
    BY <2>1, TypeParts, BootAssumption DEF SocketsOf, ConnInv
  <2>4. RowsSame \/ DeliveredOne(T.boot)
    BY Zenon, <2>1, <2>2, <2>3, DeliverRows
  <2> QED
    BY <1>4, <2>1, <2>4 DEF Released
<1>5. CASE Approve(t)
  <2>1. /\ T.boot \in Boots /\ T.rev \in 1 .. MaxRev /\ T.ctx.pay \in Nat
    <3>1. T.rev \in 1 .. rev /\ rev \in 1 .. MaxRev /\ MaxRev \in Nat
      BY <1>0, <1>5, TypeParts, BootAssumption DEF Approve, TaskInv
    <3> QED
      BY <1>0, <1>5, <3>1 DEF Approve, TaskInv, Task, Context
  <2>2. /\ sentTo' = sentTo
        /\ \/ UNCHANGED boots
           \/ /\ StillApprovable(T)
              /\ boots' = [boots EXCEPT ![T.boot] =
                   [@ EXCEPT !.status = "APPROVED", !.payload = T.ctx.pay,
                             !.frame = T.rev, !.digest = T.rev]]
    BY <1>5 DEF Approve, Target
  <2>3. now \in Nat /\ boots[T.boot].pending \in Nat
    BY <2>1, TypeParts DEF Row
  <2> QED
    BY <1>5, <2>1, <2>2, <2>3 DEF Released, RowsSame, ApprovedOne, StillApprovable
<1>6. CASE AfterExpire(t)
  <2>1. sentTo' = sentTo /\ (NextInQueue(t, T) \/ UNCHANGED boots)
    BY SMTT(30), <1>6 DEF AfterExpire
  <2> QED
    BY <1>0, <2>1, QueueRows DEF RowsSame
<1>7. CASE AfterCancel(t)
  <2>1. sentTo' = sentTo /\ (NextInQueue(t, T) \/ UNCHANGED boots)
    BY Zenon, <1>7 DEF AfterCancel
  <2> QED
    BY <1>0, <2>1, QueueRows DEF RowsSame
<1>8. CASE \/ HelloMake(t) \/ HelloIndex(t) \/ HelloOpened(t) \/ ApprovalRefused(t)
           \/ PrepareRequest(t) \/ PrepareStore(t) \/ CompleteCheck(t) \/ Mirror(t) \/ Record(t)
           \/ AfterDecline(t) \/ AfterConsume(t) \/ AfterDelivery(t)
  BY Zenon, <1>8 DEF RowsSame, HelloMake, HelloIndex, HelloOpened, ApprovalRefused, PrepareRequest,
     PrepareStore, CompleteCheck, Mirror, Record, AfterDecline, AfterConsume, AfterDelivery,
     AfterDeliver, storage
<1> QED
  BY <1>1, <1>2, <1>3, <1>4, <1>5, <1>6, <1>7, <1>8 DEF Continue

\* Every step changes the rows in one of the four ways or leaves them.
LEMMA NextRows == IInv /\ [Next]_vars => RowChange
<1> SUFFICES ASSUME IInv, [Next]_vars PROVE RowChange
  OBVIOUS
<1>1. CASE World \/ UNCHANGED vars \/ \E t \in Tasks : Throw(t)
  BY <1>1 DEF World, Tick, Connect, Disconnect, Revoke, ChangeVault, Restart, Throw,
     storage, vars, RowChange, RowsSame
<1>2. CASE \E t \in Tasks : Start(t) \/ Continue(t)
  BY <1>2, StartRows, ContinueRows DEF RowChange
<1> QED
  BY <1>1, <1>2 DEF Next

-----------------------------------------------------------------------------
(* The refinement *)

\* No boot is opened, and nothing is released, at the start.
LEMMA InitRelease == Init => Release!Init
<1> SUFFICES ASSUME Init PROVE Release!Init
  OBVIOUS
<1>1. \A b \in Boots : boots[b] = NoRow
  BY DEF Init
<1>2. \A b \in Boots : Decision(b) = "NONE" /\ boots[b].key = NULL /\ boots[b].digest = 0
  BY <1>1 DEF Decision, NoRow, NoStatus
<1> QED
  BY <1>2 DEF Release!Init, Init

\* A row of each kind, as the abstract specification sees it.
LEMMA Decided ==
  ASSUME IInv, NEW b \in Boots
  PROVE  /\ boots[b].status = NoStatus => Decision(b) = "NONE" /\ boots[b].digest = 0
         /\ boots[b].digest # 0 => Decision(b) = "RELEASED" /\ boots[b].status # NoStatus
         /\ boots[b].status = "PENDING" => Decision(b) = "OPEN" /\ boots[b].digest = 0
         /\ boots[b].status \notin {NoStatus, "PENDING"} /\ boots[b].digest = 0 =>
              Decision(b) = "REFUSED"
<1>1. RowInv(b)
  BY TypeParts
<1>2. boots[b].status = NoStatus => boots[b].digest = 0
  BY <1>1 DEF RowInv, NoRow
<1>3. boots[b].status = "PENDING" => boots[b].digest = 0
  BY <1>1 DEF RowInv
<1> QED
  BY <1>2, <1>3 DEF Decision, NoStatus

\* The boots a step leaves alone look the same.
LEMMA OthersDecided ==
  ASSUME NEW b \in Boots, boots'[b] = boots[b]
  PROVE  Decision(b)' = Decision(b)
BY DEF Decision

\* Each way to change the rows is a step of BootRelease or none: closing a boot
\* refuses it only if it was pending, a delivery sends what was released.
LEMMA StepRelease ==
  ASSUME IInv, IInv', RowChange
  PROVE  [Release!Next]_(Release!vars)
<1> DEFINE D == [b \in Boots |-> Decision(b)]
           K == [b \in Boots |-> boots[b].key]
           P == [b \in Boots |-> boots[b].digest]
<1>0. boots \in [Boots -> Row] /\ boots' \in [Boots -> Row] /\ sentTo \in [Boots -> SUBSET Clients]
  BY TypeParts DEF IInv, TypeOK
<1>1. ASSUME NEW k, Opened(k)
      PROVE  [Release!Next]_(Release!vars)
  <2>1. PICK b \in Boots, row \in Row :
          /\ boots[b].status = NoStatus
          /\ Fresh(row, k)
          /\ boots' = [boots EXCEPT ![b] = row]
    BY <1>1 DEF Opened
  <2>2. boots'[b].status = "PENDING" /\ boots'[b].key = k /\ boots'[b].digest = 0
    BY <1>0, <2>1 DEF Fresh
  <2>3. Decision(b) = "NONE" /\ boots[b].digest = 0
    BY <2>1, Decided
  <2>4. Decision(b)' = "OPEN"
    BY <2>2 DEF Decision, NoStatus
  <2>5. \A x \in Boots \ {b} : boots'[x] = boots[x] /\ Decision(x)' = Decision(x)
    BY <1>0, <2>1, OthersDecided
  <2>6. D[b] = "NONE" /\ D' = [D EXCEPT ![b] = "OPEN"]
    BY <2>3, <2>4, <2>5
  <2>7. K' = [K EXCEPT ![b] = k] /\ P' = P
    BY <2>2, <2>3, <2>5
  <2> QED
    BY <1>1, <2>6, <2>7 DEF Release!Next, Release!Open, Opened
<1>2. ASSUME NEW b \in Boots, ApprovedOne(b)
      PROVE  [Release!Next]_(Release!vars)
  <2>1. PICK r \in 1 .. MaxRev, pay \in Nat :
          /\ boots[b].status = "PENDING"
          /\ boots' = [boots EXCEPT ![b] =
               [@ EXCEPT !.status = "APPROVED", !.payload = pay, !.frame = r, !.digest = r]]
    BY <1>2 DEF ApprovedOne
  <2>2. /\ boots'[b].status = "APPROVED" /\ boots'[b].key = boots[b].key
        /\ boots'[b].digest = r /\ r # 0
    BY <1>0, <2>1, BootAssumption DEF Row
  <2>3. Decision(b) = "OPEN"
    BY <2>1, Decided
  <2>4. Decision(b)' = "RELEASED"
    BY <2>2 DEF Decision, NoStatus
  <2>5. \A x \in Boots \ {b} : boots'[x] = boots[x] /\ Decision(x)' = Decision(x)
    BY <1>0, <2>1, OthersDecided
  <2>6. D[b] = "OPEN" /\ D' = [D EXCEPT ![b] = "RELEASED"]
    BY <2>3, <2>4, <2>5
  <2>7. K' = K /\ P' = [P EXCEPT ![b] = r]
    BY <2>2, <2>5
  <2> QED
    BY <1>2, <2>6, <2>7 DEF Release!Next, Release!Release, ApprovedOne
<1>3. CASE ClosedOne
  <2>1. PICK b \in Boots, ev \in Closing :
          /\ boots[b].status # NoStatus
          /\ boots' = [boots EXCEPT ![b].status = Target(ev), ![b].frame = 0]
    BY <1>3 DEF ClosedOne
  <2>2. Target(ev) \notin {NoStatus, "PENDING"}
    BY ClosingTerminal DEF Terminal, NoStatus
  <2>3. /\ boots'[b].status \notin {NoStatus, "PENDING"}
        /\ boots'[b].key = boots[b].key /\ boots'[b].digest = boots[b].digest
    BY <1>0, <2>1, <2>2 DEF Row
  <2>4. \A x \in Boots \ {b} : boots'[x] = boots[x] /\ Decision(x)' = Decision(x)
    BY <1>0, <2>1, OthersDecided
  <2>5. K' = K /\ P' = P
    BY <2>3, <2>4
  <2>6. CASE boots[b].digest = 0 /\ boots[b].status = "PENDING"
    <3>1. Decision(b) = "OPEN" /\ Decision(b)' = "REFUSED"
      BY <2>3, <2>6, Decided DEF Decision, NoStatus
    <3>2. D[b] = "OPEN" /\ D' = [D EXCEPT ![b] = "REFUSED"]
      BY <2>4, <3>1
    <3> QED
      BY <1>3, <2>5, <3>2 DEF Release!Next, Release!Refuse, ClosedOne
  <2>7. CASE boots[b].digest # 0 \/ boots[b].status # "PENDING"
    <3>1. Decision(b)' = Decision(b)
      <4>1. CASE boots[b].digest # 0
        <5>1. Decision(b)' = "RELEASED"
          BY <2>3, <4>1 DEF Decision, NoStatus
        <5> QED
          BY <4>1, <5>1, Decided
      <4>2. CASE boots[b].digest = 0
        <5>1. Decision(b)' = "REFUSED"
          BY <2>3, <4>2 DEF Decision, NoStatus
        <5> QED
          BY <2>1, <2>7, <4>2, <5>1, Decided
      <4> QED
        BY <4>1, <4>2
    <3>2. D' = D
      BY <2>4, <3>1
    <3> QED
      BY <1>3, <2>5, <3>2 DEF Release!vars, ClosedOne
  <2> QED
    BY <2>6, <2>7
<1>4. ASSUME NEW b \in Boots, DeliveredOne(b)
      PROVE  [Release!Next]_(Release!vars)
  <2>1. PICK got \in SUBSET {boots[b].key} :
          /\ boots[b].digest # 0
          /\ boots' = [boots EXCEPT ![b].status = "DELIVERED"]
          /\ sentTo' = [sentTo EXCEPT ![b] = @ \cup got]
    BY <1>4 DEF DeliveredOne
  <2>2. /\ boots'[b].status = "DELIVERED"
        /\ boots'[b].key = boots[b].key /\ boots'[b].digest = boots[b].digest
    BY <1>0, <2>1 DEF Row
  <2>3. Decision(b) = "RELEASED"
    BY <2>1, Decided
  <2>4. Decision(b)' = "RELEASED"
    BY <2>1, <2>2 DEF Decision, NoStatus
  <2>5. \A x \in Boots \ {b} : boots'[x] = boots[x] /\ Decision(x)' = Decision(x)
    BY <1>0, <2>1, OthersDecided
  <2>6. D[b] = "RELEASED" /\ D' = D /\ K' = K /\ P' = P /\ K[b] = boots[b].key
    BY <2>2, <2>3, <2>4, <2>5
  <2>7. sentTo[b] \subseteq {boots[b].key}
    BY TypeParts DEF RowInv
  <2>8. sentTo' = sentTo \/ sentTo' = [sentTo EXCEPT ![b] = {K[b]}]
    <3>1. sentTo[b] \cup got \in {sentTo[b], {boots[b].key}}
      BY <2>7
    <3> QED
      BY ZenonT(60), <1>0, <2>1, <2>6, <3>1
  <2> QED
    BY <2>6, <2>8 DEF Release!Next, Release!Send, Release!vars
<1>5. CASE RowsSame
  <2>1. \A x \in Boots : Decision(x)' = Decision(x)
    BY <1>5, OthersDecided DEF RowsSame
  <2>2. D' = D /\ K' = K /\ P' = P
    BY <1>5, <2>1 DEF RowsSame
  <2> QED
    BY <1>5, <2>2 DEF Release!vars, RowsSame
<1> QED
  BY <1>1, <1>2, <1>3, <1>4, <1>5 DEF RowChange, Released

\* The object implements BootRelease for any number of boots, workloads, sockets
\* and handlers: a boot is decided once, a released payload stays what it was and
\* goes only to the workload that opened the boot.
THEOREM OneRelease == Spec => ImplementsRelease
<1>1. IInv /\ IInv' /\ [Next]_vars => [Release!Next]_(Release!vars)
  BY NextRows, StepRelease
<1> QED
  BY <1>1, InitRelease, BootInvariant, PTL DEF Spec, Release!Spec, ImplementsRelease

\* No boot becomes approved after its pending deadline or for an expired payload,
\* however long its handler was suspended since it looked at the clock.
THEOREM InTime == Spec => ApprovedInTime
<1> DEFINE InTimeStep == \A b \in Boots :
             boots[b].status # "APPROVED" /\ boots'[b].status = "APPROVED" =>
               now < boots[b].pending /\ now < boots'[b].payload
<1>1. IInv /\ [Next]_vars => [InTimeStep]_vars
  <2> SUFFICES ASSUME IInv, RowChange, NEW b \in Boots,
                      boots[b].status # "APPROVED", boots'[b].status = "APPROVED"
               PROVE  now < boots[b].pending /\ now < boots'[b].payload
    BY NextRows
  <2>0. boots \in [Boots -> Row]
    BY TypeParts
  <2>1. ASSUME NEW x \in Boots, ApprovedOne(x)
        PROVE  now < boots[b].pending /\ now < boots'[b].payload
    BY <2>0, <2>1 DEF ApprovedOne, Row
  <2>2. \A k : ~Opened(k)
    BY <2>0 DEF Opened, Fresh
  <2>3. ~ClosedOne
    <3>1. \A ev \in Closing : Target(ev) # "APPROVED"
      BY ClosingTerminal DEF Terminal
    <3> QED
      BY <2>0, <3>1 DEF ClosedOne, Row
  <2>4. \A x \in Boots : ~DeliveredOne(x)
    BY <2>0 DEF DeliveredOne, Row
  <2>5. ~RowsSame
    BY DEF RowsSame
  <2> QED
    BY <2>1, <2>2, <2>3, <2>4, <2>5 DEF RowChange, Released
<1> QED
  BY <1>1, BootInvariant, PTL DEF Spec, ApprovedInTime

-----------------------------------------------------------------------------
(* The record of an approval, and the kill switch *)

Writing == {"mirror", "record", "audit"}

Expiring == {"expirePending", "expirePayload"}

\* What the handler t that approves or delivers still holds true: the revision it
\* hashed is the one that was prepared, the one it wrote is the one it will record,
\* and it saw the token alive.
ReleaseHeld(t) ==
  LET T == tasks[t]
  IN /\ T.pc = "hash" /\ T.kind = "complete" => T.ctx.rev = T.rev
     /\ T.pc = "record" => T.ev = "approve"
     /\ T.pc \in Writing /\ T.ev = "approve" =>
          T.tok /\ T.ctx.rev # 0 /\ T.ctx.rev = boots[T.boot].digest
     /\ T.pc = "attached" => T.tok
     /\ T.kind = "challenge" /\ T.pc \in Writing /\ T.ev \in Expiring => T.tok

ReleaseInv ==
  /\ RecordNamesPayload
  /\ \A t \in Tasks : ReleaseHeld(t)

\* A handler that holds none of this.
Plain(T) ==
  /\ T.pc \notin {"attached", "record"}
  /\ T.pc = "hash" => T.kind # "complete"
  /\ T.pc \in Writing => T.ev # "approve"
  /\ T.pc \in Writing /\ T.kind = "challenge" => T.ev \notin Expiring

\* A step of the handler t leaves the others where they are.
Alone(t) == \A s \in Tasks \ {t} : tasks'[s] = tasks[s]

PlainStep(t) == Alone(t) /\ Plain(tasks'[t])

-----------------------------------------------------------------------------
(* What other handlers rely on, and steps that hold nothing *)

\* A digest, once stored, stays: every change of the rows keeps it.
LEMMA DigestStays ==
  ASSUME IInv, [Next]_vars, NEW b \in Boots, boots[b].digest # 0
  PROVE  boots'[b].digest = boots[b].digest
<1>0. RowChange /\ boots \in [Boots -> Row]
  BY NextRows, TypeParts
<1>1. boots[b].status \notin {NoStatus, "PENDING"}
  BY Decided
<1>2. ASSUME NEW k, Opened(k)
      PROVE  boots'[b].digest = boots[b].digest
  BY <1>0, <1>1, <1>2 DEF Opened
<1>3. CASE ClosedOne
  BY <1>0, <1>3 DEF ClosedOne, Row
<1>4. ASSUME NEW x \in Boots, ApprovedOne(x)
      PROVE  boots'[b].digest = boots[b].digest
  BY <1>0, <1>1, <1>4 DEF ApprovedOne
<1>5. ASSUME NEW x \in Boots, DeliveredOne(x)
      PROVE  boots'[b].digest = boots[b].digest
  BY <1>0, <1>5 DEF DeliveredOne, Row
<1> QED
  BY <1>0, <1>2, <1>3, <1>4, <1>5 DEF RowChange, Released, RowsSame

\* Another handler still holds what it held.
LEMMA OtherHolds ==
  ASSUME IInv, [Next]_vars, NEW s \in Tasks, ReleaseHeld(s), tasks'[s] = tasks[s]
  PROVE  ReleaseHeld(s)'
<1> DEFINE T == tasks[s]
<1>1. T.pc \in Writing => T.boot \in Boots
  BY TypeParts DEF TaskInv, Writing, Task
<1>2. ASSUME T.pc \in Writing, T.ev = "approve"
      PROVE  boots'[T.boot].digest = boots[T.boot].digest
  BY <1>1, <1>2, DigestStays DEF ReleaseHeld
<1> QED
  BY <1>2 DEF ReleaseHeld

\* A handler that holds nothing has nothing to show.
LEMMA PlainHolds ==
  ASSUME NEW t \in Tasks, Plain(tasks'[t])
  PROVE  ReleaseHeld(t)'
BY DEF Plain, ReleaseHeld, Writing

\* A handler that ends holds nothing.
LEMMA IdlePlain == Plain(Idle)
BY DEF Plain, Idle, Writing

\* Nor does one that ends here,
LEMMA FinishPlain ==
  ASSUME IInv, NEW t \in Tasks, Finish(t)
  PROVE  PlainStep(t)
<1>1. tasks'[t] = Idle
  BY TypeParts DEF Finish
<1> QED
  BY <1>1, IdlePlain DEF Finish, PlainStep, Alone

\* or never began.
LEMMA StillIdlePlain ==
  ASSUME IInv, NEW t \in Tasks, tasks[t] = Idle, UNCHANGED tasks
  PROVE  PlainStep(t)
BY IdlePlain DEF PlainStep, Alone

\* A handler that was given a record with the fields of a task.
LEMMA SetPlain ==
  ASSUME IInv, NEW t \in Tasks, NEW T, tasks' = [tasks EXCEPT ![t] = T], Plain(T)
  PROVE  PlainStep(t)
<1>1. tasks'[t] = T /\ Alone(t)
  BY TypeParts DEF Alone
<1> QED
  BY <1>1 DEF PlainStep

\* A handler that closes a boot goes on to the D1 writes with that event.
LEMMA ClosePlain ==
  ASSUME IInv, NEW t \in Tasks, NEW T \in Task, NEW b, NEW snap, NEW ev \in Closing,
         Close(t, T, b, snap, ev),
         T.kind = "challenge" => ev \notin Expiring
  PROVE  PlainStep(t)
<1> DEFINE U == [T EXCEPT !.pc = FirstWrite(ev), !.ev = ev, !.boot = b]
<1>1. U.pc = FirstWrite(ev) /\ U.ev = ev /\ U.kind = T.kind
  BY DEF Task
<1>2. FirstWrite(ev) = "mirror" /\ ev # "approve"
  BY DEF FirstWrite, Closing
<1>3. tasks' = [tasks EXCEPT ![t] = U]
  BY DEF Close
<1>4. Plain(U)
  BY <1>1, <1>2 DEF Plain, Writing
<1> HIDE DEF U
<1> QED
  BY <1>3, <1>4, SetPlain

\* and so does one that works through a list.
LEMMA QueuePlain ==
  ASSUME IInv, NEW t \in Tasks, NEW T \in Task, NextInQueue(t, T), T.kind # "challenge"
  PROVE  PlainStep(t)
<1>1. PICK q \in T.queue :
        Close(t, [T EXCEPT !.queue = @ \ {q}], q.boot, q.row,
              IF T.kind = "cancelAll" THEN "cancel" ELSE ExpireEvent(q.row))
  BY DEF NextInQueue
<1> DEFINE U == [T EXCEPT !.queue = @ \ {q}]
           ev == IF T.kind = "cancelAll" THEN "cancel" ELSE ExpireEvent(q.row)
<1>2. U \in Task /\ U.kind = T.kind
  BY DEF Task
<1>3. ev \in Closing
  BY ExpireCloses DEF Closing
<1>4. Close(t, U, q.boot, q.row, ev)
  BY <1>1
<1> HIDE DEF U, ev
<1> QED
  BY <1>2, <1>3, <1>4, ClosePlain

\* A handler that sends, or has nothing to send, does not approve.
LEMMA DeliverPlain ==
  ASSUME IInv, NEW t \in Tasks, NEW T \in Task, NEW row, NEW targets,
         Deliver(t, T, row, targets)
  PROVE  PlainStep(t)
<1> DEFINE ev == IF row.status = "APPROVED" THEN "deliver" ELSE "redeliver"
           U == [T EXCEPT !.pc = FirstWrite(ev), !.ev = ev, !.snap = NoRow]
<1>1. Finish(t) \/ tasks' = [tasks EXCEPT ![t] = U]
  BY DEF Deliver, AfterDeliver
<1>2. U.pc = FirstWrite(ev) /\ U.ev = ev /\ U.kind = T.kind
  BY DEF Task
<1>3. FirstWrite(ev) \in {"mirror", "audit"} /\ ev \in {"deliver", "redeliver"}
  BY DEF FirstWrite
<1>4. Plain(U)
  BY <1>2, <1>3 DEF Plain, Writing, Expiring
<1> HIDE DEF U
<1> QED
  BY <1>1, <1>4, SetPlain, FinishPlain

-----------------------------------------------------------------------------
(* The handlers *)

\* Before its first await a handler holds nothing of this.
LEMMA StartPlain ==
  ASSUME IInv, NEW t \in Tasks, Start(t)
  PROVE  PlainStep(t)
<1>0. Idle \in Task
  BY IdleType
<1>1. ASSUME NEW c \in Conns, Hello(t, c) PROVE PlainStep(t)
  <2> DEFINE T == [Idle EXCEPT !.kind = "hello", !.conn = c, !.who = conns[c].client,
                               !.queue = OverdueQueue]
             U == [T EXCEPT !.pc = "env", !.ev = "none", !.boot = NULL]
  <2>1. T \in Task /\ T.kind = "hello"
    <3>1. OverdueQueue \in SUBSET [boot : Boots, row : Row]
      BY TypeParts DEF OverdueQueue
    <3>2. conns[c].client \in Clients \cup {NULL}
      BY TypeParts DEF Conn
    <3> QED
      BY <1>0, <3>1, <3>2 DEF Idle, Task, Kinds
  <2>2. \/ NextInQueue(t, T)
        \/ tasks' = [tasks EXCEPT ![t] = U]
        \/ Finish(t)
        \/ tasks[t] = Idle /\ UNCHANGED tasks
    BY <1>1 DEF Hello, HelloAdmit, FrameOn
  <2>3. Plain(U)
    BY DEF Plain, Idle, Writing
  <2> HIDE DEF T, U
  <2> QED
    BY <2>1, <2>2, <2>3, QueuePlain, SetPlain, FinishPlain, StillIdlePlain
<1>2. ASSUME NEW c \in Conns, NEW b \in Boots, Resume(t, c, b) PROVE PlainStep(t)
  <2> DEFINE T == [Idle EXCEPT !.kind = "resume", !.conn = c, !.who = conns[c].client]
  <2>1. T \in Task /\ T.kind = "resume"
    <3>1. conns[c].client \in Clients \cup {NULL}
      BY TypeParts DEF Conn
    <3> QED
      BY <1>0, <3>1 DEF Idle, Task, Kinds
  <2>2. \/ Close(t, T, b, boots[b], ExpireEvent(boots[b]))
        \/ Finish(t)
        \/ tasks[t] = Idle /\ UNCHANGED tasks
    BY <1>2 DEF Resume, ResumeDecide, FrameOn
  <2> HIDE DEF T
  <2> QED
    BY <2>1, <2>2, ExpireCloses, ClosePlain, FinishPlain, StillIdlePlain
<1>3. ASSUME NEW c \in Conns, NEW b \in Boots, NEW good \in BOOLEAN,
             ChallengeResponse(t, c, b, good)
      PROVE  PlainStep(t)
  <2> DEFINE U == [Idle EXCEPT !.pc = "proof", !.kind = "challenge", !.boot = b,
                        !.snap = boots[b], !.conn = c, !.who = conns[c].client,
                        !.proof = good,
                        !.tok = TokenOf[boots[b].key] \notin revoked]
  <2>1. tasks' = [tasks EXCEPT ![t] = U] \/ (tasks[t] = Idle /\ UNCHANGED tasks)
    BY <1>3 DEF ChallengeResponse, FrameOn
  <2>2. Plain(U)
    BY DEF Plain, Idle, Writing
  <2> HIDE DEF U
  <2> QED
    BY <2>1, <2>2, SetPlain, StillIdlePlain
<1>4. ASSUME NEW c \in Conns, NEW b \in Boots, NEW good \in BOOLEAN, Received(t, c, b, good)
      PROVE  PlainStep(t)
  <2> DEFINE T == [Idle EXCEPT !.kind = "received", !.conn = c, !.who = conns[c].client]
  <2>1. T \in Task /\ T.kind = "received"
    <3>1. conns[c].client \in Clients \cup {NULL}
      BY TypeParts DEF Conn
    <3> QED
      BY <1>0, <3>1 DEF Idle, Task, Kinds
  <2>2. Close(t, T, b, boots[b], "consume") \/ (tasks[t] = Idle /\ UNCHANGED tasks)
    BY <1>4 DEF Received, FrameOn
  <2> HIDE DEF T
  <2> QED
    BY <2>1, <2>2, ClosePlain, StillIdlePlain DEF Closing
<1>5. ASSUME NEW b \in Boots, NEW kind \in {"prepare", "complete", "decline", "cancelBoot"},
             NEW ev \in {"expirePending", "decline", "cancel"},
             Close(t, [Idle EXCEPT !.kind = kind], b, boots[b], ev)
      PROVE  PlainStep(t)
  <2> DEFINE T == [Idle EXCEPT !.kind = kind]
  <2>1. T \in Task /\ T.kind = kind
    BY <1>0 DEF Idle, Task, Kinds
  <2>2. Close(t, T, b, boots[b], ev) /\ T.kind # "challenge"
    BY <1>5, <2>1
  <2> HIDE DEF T
  <2> QED
    BY <2>1, <2>2, ClosePlain DEF Closing
<1>6. ASSUME NEW b \in Boots, NEW kind \in {"prepare", "complete"}, NEW ctx,
             ApprovalStart(t, b, kind, ctx)
      PROVE  PlainStep(t)
  <2> DEFINE U == [Idle EXCEPT !.pc = "state", !.kind = kind, !.boot = b,
                        !.snap = boots[b], !.tok = TokenLive(TokenOf[boots[b].key]),
                        !.rev = rev, !.ctx = ctx]
  <2>1. \/ Close(t, [Idle EXCEPT !.kind = kind], b, boots[b], "expirePending")
        \/ tasks' = [tasks EXCEPT ![t] = U]
    BY <1>6 DEF ApprovalStart
  <2>2. Plain(U)
    BY DEF Plain, Idle, Writing
  <2> HIDE DEF U
  <2> QED
    BY <1>5, <2>1, <2>2, SetPlain
<1>7. ASSUME NEW x \in contexts, Complete(t, x) PROVE PlainStep(t)
  BY <1>6, <1>7, TypeParts DEF Complete, Stored, Context
<1>8. ASSUME NEW b \in Boots, Decline(t, b) \/ CancelBoot(t, b) PROVE PlainStep(t)
  BY <1>5, <1>8, StillIdlePlain DEF Decline, CancelBoot
<1>9. ASSUME NEW tks, CancelAll(t, tks) PROVE PlainStep(t)
  <2> DEFINE Q == {[boot |-> b, row |-> boots[b]] : b \in
                    {x \in LiveBoots : /\ TokenOf[boots[x].key] \in tks
                                       /\ Allowed(boots[x].status, "cancel")}}
             T == [Idle EXCEPT !.kind = "cancelAll", !.queue = Q]
  <2>1. T \in Task /\ T.kind = "cancelAll"
    <3>1. Q \in SUBSET [boot : Boots, row : Row]
      BY TypeParts DEF LiveBoots
    <3> HIDE DEF Q
    <3> QED
      BY <1>0, <3>1 DEF Idle, Task, Kinds
  <2>2. NextInQueue(t, T) \/ (tasks[t] = Idle /\ UNCHANGED tasks)
    BY <1>9 DEF CancelAll
  <2> HIDE DEF T, Q
  <2> QED
    BY <2>1, <2>2, QueuePlain, StillIdlePlain
<1>10. CASE AlarmFires(t)
  <2> DEFINE T == [Idle EXCEPT !.kind = "alarm", !.queue = OverdueQueue]
  <2>1. T \in Task /\ T.kind = "alarm"
    <3>1. OverdueQueue \in SUBSET [boot : Boots, row : Row]
      BY TypeParts DEF OverdueQueue
    <3> QED
      BY <1>0, <3>1 DEF Idle, Task, Kinds
  <2>2. NextInQueue(t, T) \/ (tasks[t] = Idle /\ UNCHANGED tasks)
    BY <1>10 DEF AlarmFires
  <2> HIDE DEF T
  <2> QED
    BY <2>1, <2>2, QueuePlain, StillIdlePlain
<1> QED
  BY <1>1, <1>2, <1>3, <1>4, <1>6, <1>7, <1>8, <1>9, <1>10 DEF Start, Prepare

\* A handler that resumes and neither checks an approval nor writes one.
LEMMA ContinuePlain ==
  ASSUME IInv, NEW t \in Tasks,
         \/ HelloMake(t) \/ HelloInsert(t) \/ HelloIndex(t) \/ HelloOpened(t)
         \/ Attached(t) \/ ApprovalRefused(t) \/ PrepareRequest(t) \/ PrepareStore(t)
         \/ AfterCancel(t) \/ AfterDecline(t) \/ AfterConsume(t)
         \/ AfterApprove(t) \/ AfterDelivery(t)
  PROVE  PlainStep(t)
<1> DEFINE T == tasks[t]
<1>0. T \in Task /\ TaskInv(t)
  BY TypeParts
<1>1. CASE HelloMake(t) \/ HelloInsert(t)
  <2>1. ASSUME NEW row PROVE Plain([T EXCEPT !.pc = "keyed", !.snap = row])
    BY <1>0 DEF Plain, Task, Writing
  <2>2. ASSUME NEW b PROVE Plain([T EXCEPT !.pc = "insert", !.boot = b, !.snap = NoRow])
    BY <1>0 DEF Plain, Task, Writing
  <2> QED
    BY <1>1, <2>1, <2>2, SetPlain, FinishPlain DEF HelloMake, HelloInsert
<1>2. CASE HelloIndex(t)
  <2>1. Plain([T EXCEPT !.pc = "opened"])
    BY <1>0 DEF Plain, Task, Writing
  <2> QED
    BY <1>2, <2>1, SetPlain DEF HelloIndex
<1>3. CASE Attached(t)
  <2>1. Finish(t) \/ Deliver(t, T, T.snap, {T.conn})
    BY <1>3 DEF Attached
  <2> QED
    BY <1>0, <2>1, FinishPlain, DeliverPlain
<1>4. CASE PrepareRequest(t)
  <2>1. ASSUME NEW x PROVE Plain([T EXCEPT !.pc = "hash", !.ctx = x])
    BY <1>0, <1>4 DEF PrepareRequest, Plain, Task, Writing
  <2> QED
    BY <1>4, <2>1, SetPlain DEF PrepareRequest
<1>5. CASE AfterCancel(t)
  <2>1. (NextInQueue(t, T) /\ T.queue # {}) \/ Finish(t)
    BY <1>5 DEF AfterCancel
  <2>2. T.queue # {} => T.kind # "challenge"
    BY <1>0 DEF TaskInv
  <2> QED
    BY <1>0, <2>1, <2>2, QueuePlain, FinishPlain
<1>6. CASE AfterApprove(t)
  <2>1. Deliver(t, T, boots[T.boot], SocketsOf(conns, T.boot))
    BY <1>6 DEF AfterApprove
  <2> QED
    BY <1>0, <2>1, DeliverPlain
<1>7. CASE \/ HelloOpened(t) \/ ApprovalRefused(t) \/ PrepareStore(t) \/ AfterDecline(t)
           \/ AfterConsume(t) \/ AfterDelivery(t)
  <2>1. Finish(t)
    BY <1>7 DEF HelloOpened, ApprovalRefused, PrepareStore, AfterDecline, AfterConsume,
       AfterDelivery, AfterDeliver
  <2> QED
    BY <2>1, FinishPlain
<1> QED
  BY <1>1, <1>2, <1>3, <1>4, <1>5, <1>6, <1>7

\* #handleChallengeResponse attaches only where the token was seen alive.
LEMMA AttachHolds ==
  ASSUME IInv, NEW t \in Tasks, NEW b \in Boots, NEW row, NEW cs,
         ChallengeDecide(t, tasks[t], b, row, cs), tasks[t].tok
  PROVE  Alone(t) /\ ReleaseHeld(t)'
<1> DEFINE T == tasks[t]
           U == [T EXCEPT !.pc = "attached", !.ev = "none", !.boot = b, !.snap = row]
<1>1. T \in Task
  BY TypeParts
<1>2. U.pc = "attached" /\ U.tok
  BY <1>1 DEF Task
<1>3. Finish(t) \/ tasks' = [tasks EXCEPT ![t] = U]
  BY DEF ChallengeDecide
<1>4. CASE Finish(t)
  BY <1>4, FinishPlain, PlainHolds DEF PlainStep
<1>5. CASE tasks' = [tasks EXCEPT ![t] = U]
  <2>1. tasks'[t] = U /\ Alone(t)
    BY <1>5, TypeParts DEF Alone
  <2> HIDE DEF U
  <2> QED
    BY <1>2, <2>1 DEF ReleaseHeld, Writing
<1> QED
  BY <1>3, <1>4, <1>5

\* The answer of a challenge is judged with the token it saw.
LEMMA ChallengeVerifiedHolds ==
  ASSUME IInv, NEW t \in Tasks, ChallengeVerified(t)
  PROVE  Alone(t) /\ ReleaseHeld(t)'
<1> DEFINE T == tasks[t]
           U(ev) == [T EXCEPT !.pc = FirstWrite(ev), !.ev = ev, !.boot = T.boot]
<1>0. T \in Task
  BY TypeParts
<1>1. \/ Finish(t)
      \/ Close(t, T, T.boot, T.snap, "cancel")
      \/ T.tok /\ Close(t, T, T.boot, T.snap, ExpireEvent(T.snap))
      \/ T.tok /\ ChallengeDecide(t, T, T.boot, T.snap, conns) /\ T.boot \in Boots
  <2>1. T.boot \in Boots
    BY <1>0, TypeParts DEF ChallengeVerified, TaskInv, Task
  <2> QED
    BY <2>1 DEF ChallengeVerified, SawLive
<1>2. CASE Finish(t) \/ Close(t, T, T.boot, T.snap, "cancel")
  <2>1. PlainStep(t)
    BY <1>0, <1>2, FinishPlain, ClosePlain DEF Closing, Expiring
  <2> QED
    BY <2>1, PlainHolds DEF PlainStep
<1>3. CASE T.tok /\ Close(t, T, T.boot, T.snap, ExpireEvent(T.snap))
  <2> DEFINE ev == ExpireEvent(T.snap)
  <2>1. tasks'[t] = U(ev) /\ Alone(t)
    BY <1>3, TypeParts DEF Alone, Close
  <2>2. FirstWrite(ev) = "mirror" /\ ev # "approve"
    BY DEF FirstWrite, ExpireEvent
  <2>3. U(ev).pc = "mirror" /\ U(ev).ev # "approve" /\ U(ev).tok
    BY <1>0, <1>3, <2>2 DEF Task
  <2> HIDE DEF U, ev
  <2> QED
    BY <2>1, <2>3 DEF ReleaseHeld, Writing
<1>4. CASE T.tok /\ ChallengeDecide(t, T, T.boot, T.snap, conns) /\ T.boot \in Boots
  BY <1>4, AttachHolds
<1> QED
  BY <1>1, <1>2, <1>3, <1>4

\* A challenge whose boot was expired on the way still has its token.
LEMMA AfterExpireHolds ==
  ASSUME IInv, NEW t \in Tasks, ReleaseHeld(t), AfterExpire(t)
  PROVE  Alone(t) /\ ReleaseHeld(t)'
<1> DEFINE T == tasks[t]
           U == [T EXCEPT !.pc = "env", !.ev = "none", !.boot = NULL]
<1>0. T \in Task /\ TaskInv(t)
  BY TypeParts
<1>1. T.boot \in Boots
  BY <1>0 DEF AfterExpire, TaskInv, Task
<1>2. \/ T.queue # {} /\ NextInQueue(t, T)
      \/ tasks' = [tasks EXCEPT ![t] = U]
      \/ Finish(t)
      \/ T.kind = "challenge" /\ ChallengeDecide(t, T, T.boot, boots[T.boot], ShutAll(conns, T.boot))
  BY DEF AfterExpire, HelloAdmit, ResumeDecide
<1>3. CASE T.queue # {} /\ NextInQueue(t, T)
  <2>1. T.kind # "challenge"
    BY <1>0, <1>3 DEF TaskInv
  <2>2. PlainStep(t)
    BY <1>0, <1>3, <2>1, QueuePlain
  <2> QED
    BY <2>2, PlainHolds DEF PlainStep
<1>4. CASE tasks' = [tasks EXCEPT ![t] = U] \/ Finish(t)
  <2>1. Plain(U)
    BY <1>0 DEF Plain, Task, Writing
  <2> HIDE DEF U
  <2>2. PlainStep(t)
    BY <1>4, <2>1, SetPlain, FinishPlain
  <2> QED
    BY <2>2, PlainHolds DEF PlainStep
<1>5. CASE T.kind = "challenge" /\ ChallengeDecide(t, T, T.boot, boots[T.boot], ShutAll(conns, T.boot))
  <2>1. T.tok
    BY <1>5 DEF AfterExpire, ReleaseHeld, Writing, Expiring
  <2> QED
    BY <1>1, <1>5, <2>1, AttachHolds
<1> QED
  BY <1>2, <1>3, <1>4, <1>5

\* completeApproval hashes the revision its context names.
LEMMA CompleteCheckHolds ==
  ASSUME IInv, NEW t \in Tasks, CompleteCheck(t)
  PROVE  Alone(t) /\ ReleaseHeld(t)'
<1> DEFINE T == tasks[t]
<1>0. T \in Task
  BY TypeParts
<1>1. PICK r \in T.rev .. rev :
        /\ T.ctx.rev = r
        /\ tasks' = [tasks EXCEPT ![t] =
             [T EXCEPT !.pc = "hash", !.rev = r, !.tok = TokenOf[T.snap.key] \notin revoked]]
  BY DEF CompleteCheck, ContextHolds
<1> DEFINE U == [T EXCEPT !.pc = "hash", !.rev = r, !.tok = TokenOf[T.snap.key] \notin revoked]
<1>2. U.pc = "hash" /\ U.ctx = T.ctx /\ U.rev = r
  BY <1>0 DEF Task
<1>3. tasks'[t] = U /\ Alone(t)
  BY <1>1, TypeParts DEF Alone
<1> HIDE DEF U
<1> QED
  BY <1>1, <1>2, <1>3 DEF ReleaseHeld, Writing

\* What is stored is what was hashed, and the token was alive.
LEMMA ApproveHolds ==
  ASSUME IInv, NEW t \in Tasks, ReleaseHeld(t), Approve(t)
  PROVE  Alone(t) /\ ReleaseHeld(t)'
<1> DEFINE T == tasks[t]
           U == [T EXCEPT !.pc = "mirror", !.ev = "approve"]
<1>0. T \in Task /\ TaskInv(t) /\ boots \in [Boots -> Row]
  BY TypeParts
<1>1. CASE Finish(t)
  BY <1>1, FinishPlain, PlainHolds DEF PlainStep
<1>2. CASE ~Finish(t)
  <2>1. /\ T.tok
        /\ boots' = [boots EXCEPT ![T.boot] =
             [@ EXCEPT !.status = Target("approve"), !.payload = T.ctx.pay,
                       !.frame = T.rev, !.digest = T.rev]]
        /\ tasks' = [tasks EXCEPT ![t] = U]
    BY <1>2 DEF Approve, SawLive
  <2>2. T.boot \in Boots /\ T.rev \in 1 .. rev /\ rev \in Nat
    BY <1>0, TypeParts, BootAssumption DEF Approve, TaskInv, Task
  <2>3. boots'[T.boot].digest = T.rev
    BY <1>0, <2>1, <2>2 DEF Row
  <2>4. T.ctx.rev = T.rev /\ T.rev # 0
    BY <2>2 DEF Approve, ReleaseHeld
  <2>5. U.pc = "mirror" /\ U.ev = "approve" /\ U.tok /\ U.ctx = T.ctx /\ U.boot = T.boot
    BY <1>0, <2>1 DEF Task
  <2>6. tasks'[t] = U /\ Alone(t)
    BY <2>1, TypeParts DEF Alone
  <2> HIDE DEF U
  <2> QED
    BY <2>3, <2>4, <2>5, <2>6 DEF ReleaseHeld, Expiring
<1> QED
  BY <1>1, <1>2

\* The writes to D1 leave the handler what it holds.
LEMMA WritesHold ==
  ASSUME IInv, NEW t \in Tasks, ReleaseHeld(t), Mirror(t) \/ Record(t)
  PROVE  Alone(t) /\ ReleaseHeld(t)'
<1> DEFINE T == tasks[t]
           U(pc) == [T EXCEPT !.pc = pc]
<1>0. T \in Task /\ tasks \in [Tasks -> Task] /\ boots' = boots
  BY TypeParts DEF Mirror, Record, storage
<1>1. \/ Finish(t)
      \/ \E pc \in {"record", "audit"} :
           /\ tasks' = [tasks EXCEPT ![t] = U(pc)]
           /\ T.pc \in {"mirror", "record"}
           /\ pc = "record" => T.ev = "approve"
  <2>1. Finish(t) \/ tasks' = [tasks EXCEPT ![t] = U("record")]
                  \/ tasks' = [tasks EXCEPT ![t] = U("audit")]
    BY DEF Mirror, Record
  <2> QED
    BY DEF Mirror, Record
<1>2. CASE Finish(t)
  BY <1>2, FinishPlain, PlainHolds DEF PlainStep
<1>3. ASSUME NEW pc \in {"record", "audit"}, tasks' = [tasks EXCEPT ![t] = U(pc)],
             T.pc \in {"mirror", "record"}, pc = "record" => T.ev = "approve"
      PROVE  Alone(t) /\ ReleaseHeld(t)'
  <2>1. /\ U(pc).pc = pc /\ U(pc).ev = T.ev /\ U(pc).tok = T.tok /\ U(pc).ctx = T.ctx
        /\ U(pc).boot = T.boot /\ U(pc).kind = T.kind
    BY <1>0 DEF Task
  <2>2. tasks'[t] = U(pc) /\ Alone(t)
    BY <1>0, <1>3 DEF Alone
  <2> HIDE DEF U
  <2> QED
    BY <1>0, <1>3, <2>1, <2>2 DEF ReleaseHeld, Writing
<1> QED
  BY <1>1, <1>2, <1>3

\* The handler of any step goes on to hold what it must.
LEMMA HandlerHolds ==
  ASSUME IInv, NEW t \in Tasks, ReleaseHeld(t), Start(t) \/ Continue(t) \/ Throw(t)
  PROVE  Alone(t) /\ ReleaseHeld(t)'
<1>1. CASE PlainStep(t)
  BY <1>1, PlainHolds DEF PlainStep
<1>2. CASE ~PlainStep(t)
  BY <1>2, StartPlain, ContinuePlain, FinishPlain, ChallengeVerifiedHolds, AfterExpireHolds,
     CompleteCheckHolds, ApproveHolds, WritesHold DEF Continue, Throw
<1> QED
  BY <1>1, <1>2

\* No boot is recorded at the start.
LEMMA InitReleaseInv == Init => ReleaseInv
BY DEF Init, ReleaseInv, RecordNamesPayload, ReleaseHeld, Idle, Writing

\* A record is written once, by the handler that approved.
LEMMA RecordStays ==
  ASSUME IInv, ReleaseInv, [Next]_vars
  PROVE  RecordNamesPayload'
<1> SUFFICES ASSUME NEW b \in Boots, records'[b] # 0
             PROVE  records'[b] = boots'[b].digest
  BY DEF RecordNamesPayload
<1>0. records \in [Boots -> Nat]
  BY TypeParts DEF IInv, TypeOK
<1>1. CASE records'[b] = records[b]
  BY <1>1, DigestStays DEF ReleaseInv, RecordNamesPayload
<1>2. CASE records'[b] # records[b]
  <2>1. PICK t \in Tasks : Record(t)
    <3>1. \A t \in Tasks : Start(t) \/ Throw(t) => records' = records
      <4> SUFFICES ASSUME NEW t \in Tasks, Start(t) \/ Throw(t) PROVE UNCHANGED d1
        BY DEF d1
      <4>1. ASSUME NEW c \in Conns, Hello(t, c) PROVE UNCHANGED d1
        BY <4>1 DEF Hello
      <4>2. ASSUME NEW c \in Conns, NEW x \in Boots, Resume(t, c, x) PROVE UNCHANGED d1
        BY <4>2 DEF Resume
      <4>3. ASSUME NEW c \in Conns, NEW x \in Boots, NEW good \in BOOLEAN,
                   ChallengeResponse(t, c, x, good)
            PROVE  UNCHANGED d1
        BY <4>3 DEF ChallengeResponse
      <4>4. ASSUME NEW c \in Conns, NEW x \in Boots, NEW good \in BOOLEAN,
                   Received(t, c, x, good)
            PROVE  UNCHANGED d1
        BY <4>4 DEF Received
      <4>5. ASSUME NEW x \in Boots, Prepare(t, x) \/ Decline(t, x) \/ CancelBoot(t, x)
            PROVE  UNCHANGED d1
        BY <4>5 DEF Prepare, ApprovalStart, Decline, CancelBoot
      <4>6. ASSUME NEW x \in contexts, Complete(t, x) PROVE UNCHANGED d1
        BY <4>6 DEF Complete, ApprovalStart
      <4>7. ASSUME NEW tks \in SUBSET Tokens, CancelAll(t, tks) PROVE UNCHANGED d1
        BY <4>7 DEF CancelAll
      <4>8. CASE AlarmFires(t)
        BY <4>8 DEF AlarmFires
      <4>9. CASE Throw(t)
        BY <4>9 DEF Throw
      <4> QED
        BY <4>1, <4>2, <4>3, <4>4, <4>5, <4>6, <4>7, <4>8, <4>9 DEF Start
    <3>2. \A t \in Tasks : Continue(t) => Record(t) \/ records' = records
      <4> SUFFICES ASSUME NEW t \in Tasks, Continue(t), ~Record(t) PROVE records' = records
        OBVIOUS
      <4>1. CASE HelloMake(t) \/ HelloInsert(t) \/ HelloIndex(t) \/ HelloOpened(t)
        BY <4>1 DEF HelloMake, HelloInsert, HelloIndex, HelloOpened, d1
      <4>2. CASE ChallengeVerified(t)
        BY <4>2 DEF ChallengeVerified, d1
      <4>3. CASE Attached(t) \/ AfterApprove(t) \/ AfterDelivery(t)
        BY Zenon, <4>3 DEF Attached, AfterApprove, AfterDelivery, d1
      <4>4. CASE \/ ApprovalRefused(t) \/ PrepareRequest(t) \/ PrepareStore(t)
                 \/ CompleteCheck(t) \/ Approve(t) \/ Mirror(t)
        BY Zenon, <4>4 DEF ApprovalRefused, PrepareRequest, PrepareStore, CompleteCheck, Approve,
           Mirror, d1
      <4>5. CASE AfterExpire(t)
        BY <4>5 DEF AfterExpire, d1
      <4>6. CASE AfterCancel(t) \/ AfterDecline(t) \/ AfterConsume(t)
        BY <4>6 DEF AfterCancel, AfterDecline, AfterConsume, d1
      <4> QED
        BY <4>1, <4>2, <4>3, <4>4, <4>5, <4>6 DEF Continue
    <3>3. World \/ UNCHANGED vars => records' = records
      BY DEF World, Tick, Connect, Disconnect, Revoke, ChangeVault, Restart, d1, vars
    <3> QED
      BY <1>2, <3>1, <3>2, <3>3 DEF Next
  <2> DEFINE T == tasks[t]
  <2>2. records' = [records EXCEPT ![T.boot] = T.ctx.rev] /\ boots' = boots
    BY <1>2, <2>1 DEF Record, storage
  <2>3. T.boot = b /\ records'[b] = T.ctx.rev
    BY <1>0, <1>2, <2>2
  <2>4. T.ctx.rev = boots[b].digest
    BY <2>1, <2>3 DEF ReleaseInv, ReleaseHeld, Record, Writing
  <2> QED
    BY <2>2, <2>3, <2>4
<1> QED
  BY <1>1, <1>2

\* ReleaseInv is inductive, given what IInv says of the handlers.
LEMMA NextReleaseInv == IInv /\ ReleaseInv /\ [Next]_vars => ReleaseInv'
<1> SUFFICES ASSUME IInv, ReleaseInv, [Next]_vars PROVE ReleaseInv'
  OBVIOUS
<1>1. ASSUME NEW s \in Tasks PROVE ReleaseHeld(s)'
  <2>1. CASE tasks'[s] = tasks[s]
    BY <2>1, OtherHolds DEF ReleaseInv
  <2>2. CASE Restart
    BY <2>2, IdlePlain, PlainHolds DEF Restart
  <2>3. ASSUME NEW t \in Tasks, Start(t) \/ Continue(t) \/ Throw(t)
        PROVE  ReleaseHeld(s)'
    <3>1. Alone(t) /\ ReleaseHeld(t)'
      BY <2>3, HandlerHolds DEF ReleaseInv
    <3> QED
      BY <2>1, <3>1 DEF Alone
  <2>4. CASE UNCHANGED vars \/ (World /\ ~Restart)
    <3>1. tasks' = tasks
      BY <2>4 DEF World, Tick, Connect, Disconnect, Revoke, ChangeVault, vars
    <3> QED
      BY <2>1, <3>1
  <2> QED
    BY <2>2, <2>3, <2>4 DEF Next
<1> QED
  BY <1>1, RecordStays DEF ReleaseInv

-----------------------------------------------------------------------------
(* The theorems *)

\* In every reachable state what a handler carries through an approval agrees with
\* what was prepared and with what is stored.
THEOREM ReleaseInvariant == Spec => []ReleaseInv
<1>1. IInv /\ ReleaseInv /\ [Next]_vars => ReleaseInv'
  BY NextReleaseInv
<1> QED
  BY <1>1, InitReleaseInv, BootInvariant, PTL DEF Spec

\* The row of boot_approvals names the vault contents whose payload was stored for
\* the boot, however the vault changed between the review and the release.
THEOREM RecordNames == Spec => []RecordNamesPayload
<1>1. ReleaseInv => RecordNamesPayload
  BY DEF ReleaseInv
<1> QED
  BY <1>1, ReleaseInvariant, PTL

\* A handler that approves or delivers a boot saw the boot's token alive.
LEMMA ReleasedSaw ==
  ASSUME IInv, ReleaseInv, NEW t \in Tasks, Released(t)
  PROVE  tasks[t].tok
<1> DEFINE T == tasks[t]
<1>1. CASE Approve(t) /\ ApprovedOne(T.boot)
  <2>1. CASE SawLive(T)
    BY <2>1 DEF SawLive
  <2>2. CASE UNCHANGED boots
    <3>1. T.boot \in Boots /\ boots \in [Boots -> Row]
      BY TypeParts DEF Released
    <3>2. boots[T.boot].status = "PENDING" /\ boots'[T.boot].status = "APPROVED"
      BY <1>1, <3>1 DEF ApprovedOne, Row
    <3> QED
      BY <2>2, <3>2
  <2> QED
    BY <1>1, <2>1, <2>2 DEF Approve
<1>2. CASE Attached(t)
  BY <1>2 DEF Attached, ReleaseInv, ReleaseHeld
<1>3. CASE AfterApprove(t)
  BY <1>3 DEF AfterApprove, ReleaseInv, ReleaseHeld, Writing
<1> QED
  BY <1>1, <1>2, <1>3 DEF Released

\* Once a token is revoked and the handlers that saw it alive are gone, no boot of
\* it is approved and no payload of it is sent: revoking cuts off, late handlers
\* included, with no help from the cancellation that follows it.
THEOREM KillSwitchHolds == Spec => KillSwitch
<1> DEFINE KillStep == \A b \in Boots : boots[b].status # NoStatus =>
             LET tk == TokenOf[boots[b].key]
             IN tk \in revoked /\ ~SawAlive(tk) =>
                  /\ boots'[b].status = "APPROVED" => boots[b].status = "APPROVED"
                  /\ sentTo'[b] = sentTo[b]
<1>1. IInv /\ ReleaseInv /\ [Next]_vars => [KillStep]_vars
  <2> SUFFICES ASSUME IInv, ReleaseInv, RowChange, NEW b \in Boots,
                      boots[b].status # NoStatus, ~SawAlive(TokenOf[boots[b].key])
               PROVE  /\ boots'[b].status = "APPROVED" => boots[b].status = "APPROVED"
                      /\ sentTo'[b] = sentTo[b]
    BY NextRows
  <2>0. boots \in [Boots -> Row] /\ sentTo \in [Boots -> SUBSET Clients]
    BY TypeParts DEF IInv, TypeOK
  <2>1. ASSUME NEW k, Opened(k)
        PROVE  /\ boots'[b].status = "APPROVED" => boots[b].status = "APPROVED"
               /\ sentTo'[b] = sentTo[b]
    BY <2>0, <2>1 DEF Opened
  <2>2. CASE ClosedOne
    <3>1. \A ev \in Closing : Target(ev) # "APPROVED"
      BY ClosingTerminal DEF Terminal
    <3> QED
      BY <2>0, <2>2, <3>1 DEF ClosedOne, Row
  <2>3. CASE RowsSame
    BY Zenon, <2>3 DEF RowsSame
  <2>4. ASSUME NEW t \in Tasks, Released(t)
        PROVE  boots'[b] = boots[b] /\ sentTo'[b] = sentTo[b]
    <3>1. tasks[t].boot # b
      BY <2>4, ReleasedSaw DEF SawAlive
    <3> QED
      BY Zenon, <2>0, <2>4, <3>1 DEF Released, ApprovedOne, DeliveredOne
  <2> QED
    BY <2>1, <2>2, <2>3, <2>4 DEF RowChange
<1> QED
  BY <1>1, BootInvariant, ReleaseInvariant, PTL DEF Spec, KillSwitch

=============================================================================
