------------------------- MODULE BootSessionProofs -------------------------
(***************************************************************************)
(* Proof that IInv is an invariant of BootSession for every number of      *)
(* boots, sockets, workloads and handlers, under every interleaving,       *)
(* failure and restart, and the safety properties that follow from it.     *)
(*                                                                         *)
(* A handler writes on what it read before an await, so nothing about one  *)
(* handler alone is inductive: IInv ties each suspended handler (TaskInv)  *)
(* to the rows (RowInv) and to its socket (ConnInv), in terms              *)
(* other handlers keep: a row never goes back to none, keeps its key, and  *)
(* keeps its digest once it has one (RowsKept); a socket in use keeps its  *)
(* workload (ClientsKept).                                                 *)
(***************************************************************************)
EXTENDS BootSessionProps, TLAPS

-----------------------------------------------------------------------------
(* A step of one handler, taken apart: what it does to the rows, to the      *)
(* sockets, to its own task, and to everything else. "Kept" is what the      *)
(* other handlers rely on.                                                   *)

RowsKept ==
  \A b \in Boots : boots[b].status # NoStatus =>
    /\ boots'[b].status # NoStatus
    /\ boots'[b].key = boots[b].key
    /\ boots[b].digest # 0 => boots'[b].digest = boots[b].digest

ClientsKept(t) ==
  \A s \in Tasks \ {t} : tasks[s].conn # NULL =>
    conns'[tasks[s].conn].client = conns[tasks[s].conn].client

RowsOK ==
  /\ boots' \in [Boots -> Row]
  /\ sentTo' \in [Boots -> SUBSET Clients]
  /\ RowsKept
  /\ \A b \in Boots : RowInv(b)'

ConnsOK(t) ==
  /\ conns' \in [Conns -> Conn]
  /\ ClientsKept(t)
  /\ \A c \in Conns : ConnInv(c)'

TasksOK(t) ==
  /\ tasks' \in [Tasks -> Task]
  /\ \A s \in Tasks \ {t} : tasks'[s] = tasks[s]
  /\ TaskInv(t)'

RestOK ==
  /\ now' \in Nat /\ now <= now'
  /\ challenges' \in [Boots -> Challenge]
  /\ contexts' \subseteq Stored
  /\ alarm' \in Nat
  /\ index' \in [Boots -> Status \cup {NoStatus}]
  /\ records' \in [Boots -> Nat]
  /\ revoked' \subseteq Tokens
  /\ rev' \in 1 .. MaxRev /\ rev <= rev'
  /\ faults' \in Nat

\* The parts of the invariant the steps below cite.
LEMMA TypeParts ==
  ASSUME IInv
  PROVE  /\ boots \in [Boots -> Row] /\ sentTo \in [Boots -> SUBSET Clients]
         /\ conns \in [Conns -> Conn] /\ tasks \in [Tasks -> Task]
         /\ now \in Nat /\ rev \in Nat /\ rev \in 1 .. MaxRev /\ alarm \in Nat
         /\ challenges \in [Boots -> Challenge] /\ contexts \subseteq Stored
         /\ index \in [Boots -> Status \cup {NoStatus}] /\ records \in [Boots -> Nat]
         /\ revoked \subseteq Tokens /\ faults \in Nat
         /\ \A b \in Boots : RowInv(b)
         /\ \A c \in Conns : ConnInv(c)
         /\ \A t \in Tasks : TaskInv(t)
BY BootAssumption DEF IInv, TypeOK

\* What is left of a handler is not disturbed by a step of another.
LEMMA OtherTasks ==
  ASSUME IInv, RowsKept, rev' \in Nat, rev <= rev', now' \in Nat, now <= now',
         NEW s \in Tasks, tasks'[s] = tasks[s],
         tasks[s].conn # NULL => conns'[tasks[s].conn].client = conns[tasks[s].conn].client
  PROVE  TaskInv(s)'
<1> DEFINE T == tasks[s]
<1>1. TaskInv(s) /\ T \in Task /\ rev \in Nat
  BY TypeParts
<1>2. T.boot \in Boots \cup {NULL} /\ \A q \in T.queue : q.boot \in Boots
  BY <1>1 DEF Task
<1>3. T.snap.frame # 0 => boots[T.boot].digest # 0
  BY <1>1 DEF TaskInv
<1>4. Fresh(T.snap, T.who) => Fresh(T.snap, T.who)'
  BY <1>1, TypeParts DEF Fresh, Task, Row
<1> QED
  BY <1>1, <1>2, <1>3, <1>4 DEF TaskInv, RowsKept, Task

\* A step of handler t keeps the invariant if each of its four parts does.
LEMMA Combine ==
  ASSUME IInv, NEW t \in Tasks, RowsOK, ConnsOK(t), TasksOK(t), RestOK
  PROVE  IInv'
<1>1. TypeOK'
  BY DEF TypeOK, RowsOK, ConnsOK, TasksOK, RestOK
<1>2. \A s \in Tasks : TaskInv(s)'
  <2> SUFFICES ASSUME NEW s \in Tasks PROVE TaskInv(s)'
    OBVIOUS
  <2>1. CASE s = t
    BY <2>1 DEF TasksOK
  <2>2. CASE s # t
    <3>1. /\ rev' \in Nat /\ rev <= rev' /\ now' \in Nat /\ now <= now'
          /\ RowsKept /\ ClientsKept(t) /\ tasks'[s] = tasks[s]
      BY <2>2, BootAssumption DEF RestOK, RowsOK, ConnsOK, TasksOK
    <3> QED
      BY <3>1, <2>2, OtherTasks DEF ClientsKept
  <2> QED
    BY <2>1, <2>2
<1> QED
  BY <1>1, <1>2 DEF IInv, RowsOK, ConnsOK, RestOK

\* The same for a step of the world, which is no handler's.
LEMMA CombineWorld ==
  ASSUME IInv, RowsOK, RestOK, tasks' = tasks, conns' \in [Conns -> Conn],
         \A c \in Conns : ConnInv(c)',
         \A c \in Conns : Busy(c) => conns'[c].client = conns[c].client
  PROVE  IInv'
<1>1. TypeOK'
  BY TypeParts DEF TypeOK, RowsOK, RestOK
<1>2. \A s \in Tasks : TaskInv(s)'
  <2> SUFFICES ASSUME NEW s \in Tasks PROVE TaskInv(s)'
    OBVIOUS
  <2>1. rev' \in Nat /\ rev <= rev' /\ now' \in Nat /\ now <= now' /\ RowsKept
    BY BootAssumption DEF RestOK, RowsOK
  <2>2. tasks[s].conn # NULL => tasks[s].conn \in Conns /\ Busy(tasks[s].conn)
    BY TypeParts DEF Task, Busy
  <2> QED
    BY <2>1, <2>2, OtherTasks
<1> QED
  BY <1>1, <1>2 DEF IInv, RowsOK, RestOK

-----------------------------------------------------------------------------
(* Rows *)

\* Rows that a step leaves alone stay as good, while time passes.
LEMMA RowsUnchanged ==
  ASSUME IInv, boots' = boots, sentTo' = sentTo, now' \in Nat, now <= now'
  PROVE  RowsOK
<1>1. \A b \in Boots : RowInv(b) /\ boots[b].created \in Nat
  BY TypeParts DEF Row
<1>2. \A b \in Boots : RowInv(b)'
  BY <1>1, TypeParts DEF RowInv
<1> QED
  BY <1>2, TypeParts DEF RowsOK, RowsKept

Closing == {"expirePending", "expirePayload", "cancel", "decline", "consume"}

\* Every event leads to a status.
LEMMA TargetType == \A ev \in Events : Target(ev) \in Status
BY SMT DEF Target, Events, Status, Live, Terminal

\* The events that end a boot lead to a terminal status.
LEMMA ClosingTerminal == \A ev \in Closing : ev \in Events /\ Target(ev) \in Terminal
BY DEF Closing, Events, Target, Terminal

\* A boot may be closed whatever status its row holds by then: the payload goes
\* with it, its key and digest stay.
LEMMA RowsClosed ==
  ASSUME IInv, NEW b \in Boots, NEW ev \in Closing, boots[b].status # NoStatus,
         boots' = [boots EXCEPT ![b].status = Target(ev), ![b].frame = 0],
         sentTo' = sentTo, now' = now
  PROVE  RowsOK
<1>1. boots \in [Boots -> Row] /\ RowInv(b)
  BY TypeParts
<1>2. Target(ev) \in Terminal
  BY ClosingTerminal
<1>3. boots'[b] = [boots[b] EXCEPT !.status = Target(ev), !.frame = 0]
  BY <1>1
<1>4. boots' \in [Boots -> Row]
  BY ZenonT(60), <1>1, <1>2 DEF Row, Status
<1>5. RowInv(b)'
  BY <1>1, <1>2, <1>3 DEF RowInv, Row, Terminal, NoStatus
<1>6. \A x \in Boots \ {b} : RowInv(x)'
  BY <1>1, TypeParts DEF RowInv
<1>7. RowsKept
  BY <1>1, <1>2, <1>3 DEF RowsKept, Row, Terminal, NoStatus
<1> QED
  BY <1>4, <1>5, <1>6, <1>7, TypeParts DEF RowsOK

-----------------------------------------------------------------------------
(* Sockets *)

\* Each socket is as it was, or less: shut, or dropped where no other handler is.
SocketsLess(t) ==
  \A c \in Conns :
    \/ /\ conns'[c] = NoConn
       /\ \A s \in Tasks \ {t} : tasks[s].conn # c
    \/ /\ conns'[c].client = conns[c].client
       /\ conns'[c].att = conns[c].att
       /\ conns'[c].st = "open" => conns[c].st = "open"

\* Sockets that lost something still fit the rows.
LEMMA ConnsLess ==
  ASSUME IInv, NEW t \in Tasks, RowsKept, conns' \in [Conns -> Conn], SocketsLess(t)
  PROVE  ConnsOK(t)
<1>1. \A c \in Conns : ConnInv(c)'
  BY TypeParts DEF ConnInv, SocketsLess, RowsKept, NoConn, Conn
<1>2. ClientsKept(t)
  <2>1. \A s \in Tasks : tasks[s].conn # NULL => tasks[s].conn \in Conns
    BY TypeParts DEF Task
  <2> QED
    BY <2>1 DEF ClientsKept, SocketsLess
<1> QED
  BY <1>1, <1>2 DEF ConnsOK

\* cs is the table a stretch of code has made so far out of conns.
Less(cs) ==
  /\ cs \in [Conns -> Conn]
  /\ \A c \in Conns :
       \/ cs[c] = NoConn /\ ~Busy(c)
       \/ /\ cs[c].client = conns[c].client
          /\ cs[c].att = conns[c].att
          /\ cs[c].st = "open" => conns[c].st = "open"

\* A table nothing was done to.
LEMMA LessSame == ASSUME IInv PROVE Less(conns)
BY TypeParts DEF Less

\* The table after every socket of a boot was told its end.
LEMMA LessShutAll == ASSUME IInv, NEW b \in Boots PROVE Less(ShutAll(conns, b))
<1>1. NoConn \in Conn
  BY DEF NoConn, Conn
<1>2. \A c \in Conns : [conns[c] EXCEPT !.st = "shut"] \in Conn
  BY TypeParts DEF Conn
<1>3. ShutAll(conns, b) \in [Conns -> Conn]
  BY <1>1, <1>2, TypeParts DEF ShutAll
<1> QED
  BY <1>3, TypeParts DEF Less, ShutAll, Conn

\* A stretch that only shuts sockets keeps them consistent.
LEMMA ConnsAs ==
  ASSUME IInv, NEW t \in Tasks, RowsKept, NEW cs, Less(cs), conns' = cs
  PROVE  ConnsOK(t)
<1>1. SocketsLess(t)
  BY DEF Less, SocketsLess, Busy
<1> QED
  BY <1>1, ConnsLess DEF Less

\* So does one whose own socket gets an error and is closed, whoever else is on it.
LEMMA ConnsShut ==
  ASSUME IInv, NEW t \in Tasks, RowsKept, NEW cs, Less(cs), NEW c \in Conns,
         conns' = Shut(t, cs, c)
  PROVE  ConnsOK(t)
<1>1. NoConn \in Conn /\ [cs[c] EXCEPT !.st = "shut"] \in Conn
  BY DEF NoConn, Conn, Less
<1>2. Shared(t, c) => Busy(c)
  BY DEF Shared, Busy
<1>3. conns' \in [Conns -> Conn]
  BY <1>1 DEF Less, Shut
<1>4. SocketsLess(t)
  <2>1. ASSUME NEW x \in Conns, x # c PROVE conns'[x] = cs[x]
    BY <2>1 DEF Shut, Less
  <2>2. CASE Shared(t, c)
    <3>1. conns'[c] = [cs[c] EXCEPT !.st = "shut"]
      BY <2>2 DEF Shut, Less
    <3>2. /\ conns'[c].client = conns[c].client /\ conns'[c].att = conns[c].att
          /\ conns'[c].st = "shut"
      BY <1>2, <2>2, <3>1 DEF Less, Conn
    <3> QED
      BY <2>1, <3>2 DEF SocketsLess, Less, Busy
  <2>3. CASE ~Shared(t, c)
    <3>1. conns'[c] = NoConn /\ \A s \in Tasks \ {t} : tasks[s].conn # c
      BY <2>3 DEF Shut, Less, Shared
    <3> QED
      BY <2>1, <3>1 DEF SocketsLess, Less, Busy
  <2> QED
    BY <2>2, <2>3
<1> QED
  BY <1>3, <1>4, ConnsLess

\* The one way a socket gains a boot: the workload it was opened for holds the key.
LEMMA ConnsAttached ==
  ASSUME IInv, NEW t \in Tasks, RowsOK, NEW cs, Less(cs), NEW c \in Conns, NEW b \in Boots,
         Busy(c), boots[b].status # NoStatus, conns[c].client = boots[b].key,
         conns' = [cs EXCEPT ![c].att = b]
  PROVE  ConnsOK(t)
<1>1. [cs[c] EXCEPT !.att = b] \in Conn
  BY DEF Less, Conn
<1>2. conns' \in [Conns -> Conn]
  BY <1>1 DEF Less
<1>3. ClientsKept(t)
  <2>1. \A s \in Tasks : tasks[s].conn # NULL => tasks[s].conn \in Conns
    BY TypeParts DEF Task
  <2>2. \A x \in Conns : Busy(x) => conns'[x].client = conns[x].client
    BY <1>1, <1>2 DEF Less, Conn
  <2> QED
    BY <2>1, <2>2 DEF ClientsKept, Busy
<1>4. ConnInv(c)'
  BY TypeParts, <1>1, <1>2 DEF ConnInv, Less, RowsOK, RowsKept, Conn
<1>5. ASSUME NEW x \in Conns \ {c} PROVE ConnInv(x)'
  <2>1. conns'[x] = cs[x] /\ ConnInv(x) /\ conns[x] \in Conn
    BY TypeParts DEF Less
  <2> QED
    BY <2>1 DEF ConnInv, Less, RowsOK, RowsKept, Conn, NoConn
<1> QED
  BY <1>2, <1>3, <1>4, <1>5 DEF ConnsOK

-----------------------------------------------------------------------------
(* Tasks *)

\* The null records are of their types.
LEMMA IdleType == Idle \in Task /\ NoRow \in Row /\ NoConn \in Conn /\ NoChallenge \in Challenge
<1>1. NoRow \in Row /\ NoChallenge \in Challenge /\ NoConn \in Conn
  BY DEF NoRow, Row, NoChallenge, Challenge, NoConn, Conn
<1> QED
  BY <1>1 DEF Idle, Task, NoContext, Context, PCs, Kinds

\* A handler that ends leaves nothing to check.
LEMMA Finished ==
  ASSUME IInv, NEW t \in Tasks, Finish(t)
  PROVE  TasksOK(t)
<1>1. tasks' \in [Tasks -> Task] /\ tasks'[t] = Idle
  BY IdleType, TypeParts DEF Finish
<1>2. TaskInv(t)'
  BY <1>1 DEF TaskInv, Idle, NoRow
<1> QED
  BY <1>1, <1>2, TypeParts DEF TasksOK, Finish, Idle

\* A handler that ended at its first guard never was one.
LEMMA StillIdle ==
  ASSUME IInv, NEW t \in Tasks, tasks[t] = Idle, tasks' = tasks
  PROVE  TasksOK(t)
<1>1. TaskInv(t)'
  BY DEF TaskInv, Idle, NoRow
<1> QED
  BY <1>1, TypeParts DEF TasksOK, Idle

\* What a handler that is suspended for boot b must hold.
Held(t, T, b) ==
  /\ T \in Task
  /\ \A q \in T.queue : boots[q.boot].status # NoStatus
  /\ T.kind \in {"hello", "resume", "challenge", "received"} => T.conn # NULL
  /\ T.conn # NULL =>
       /\ T.who \in Clients
       /\ conns[T.conn].client = T.who
       /\ conns'[T.conn].client = T.who
  /\ T.kind = "challenge" => T.queue = {} /\ T.proof /\ boots[b].key = T.who
  /\ T.snap.frame # 0 => T.kind = "challenge" /\ boots[b].digest = T.snap.frame

\* A handler suspended at the D1 write after a transition.
LEMMA TasksSuspended ==
  ASSUME IInv, RowsKept, NEW t \in Tasks, NEW T, NEW b \in Boots, Held(t, T, b),
         NEW pc \in {"mirror", "audit"}, NEW ev \in Events, boots[b].status # NoStatus,
         tasks' = [tasks EXCEPT ![t] = [T EXCEPT !.pc = pc, !.ev = ev, !.boot = b]]
  PROVE  TasksOK(t)
<1> DEFINE U == [T EXCEPT !.pc = pc, !.ev = ev, !.boot = b]
<1>1. T \in Task /\ \A q \in T.queue : q.boot \in Boots
  BY DEF Held, Task
<1>2. U \in Task
  BY <1>1 DEF Task, PCs
<1>3. tasks' \in [Tasks -> Task] /\ tasks'[t] = U
  BY <1>2, TypeParts
<1>4. /\ U.pc = pc /\ U.ev = ev /\ U.boot = b /\ U.kind = T.kind /\ U.conn = T.conn
      /\ U.who = T.who /\ U.queue = T.queue /\ U.proof = T.proof /\ U.snap = T.snap
  BY <1>1 DEF Task
<1>5. b # NULL
  BY BootAssumption
<1>6. TaskInv(t)'
  BY <1>1, <1>3, <1>4, <1>5 DEF TaskInv, Held, RowsKept
<1> QED
  BY <1>3, <1>4, <1>6, TypeParts DEF TasksOK, Held

\* #apply and its row update, by a handler that holds no more than Held says.
LEMMA Closed ==
  ASSUME IInv, NEW t \in Tasks, NEW T, NEW b \in Boots, NEW snap, NEW ev \in Closing,
         Close(t, T, b, snap, ev), Held(t, T, b), boots[b].status # NoStatus,
         sentTo' = sentTo, now' = now
  PROVE  RowsOK /\ TasksOK(t)
<1>1. RowsOK
  BY RowsClosed DEF Close
<1>2. FirstWrite(ev) \in {"mirror", "audit"} /\ ev \in Events
  BY ClosingTerminal DEF FirstWrite
<1>3. TasksOK(t)
  BY <1>1, <1>2, TasksSuspended DEF Close, RowsOK
<1> QED
  BY <1>1, <1>3

\* Both expiry events end a boot.
LEMMA ExpireCloses == \A row : ExpireEvent(row) \in Closing
BY DEF ExpireEvent, Closing

\* The table has no row for a terminal status, or for none.
LEMMA AllowedLive == \A from, ev : Allowed(from, ev) => from \in Live
BY DEF Allowed, Transitions, Live

\* A handler that works through a list holds no snapshot.
LEMMA ClosedQueue ==
  ASSUME IInv, NEW t \in Tasks, NEW T \in Task, NextInQueue(t, T),
         \A b \in Boots : Held(t, T, b), T.kind # "challenge",
         sentTo' = sentTo, now' = now
  PROVE  RowsOK /\ TasksOK(t)
<1>1. PICK q \in T.queue :
        Close(t, [T EXCEPT !.queue = @ \ {q}], q.boot, q.row,
              IF T.kind = "cancelAll" THEN "cancel" ELSE ExpireEvent(q.row))
  BY DEF NextInQueue
<1> DEFINE U == [T EXCEPT !.queue = @ \ {q}]
           ev == IF T.kind = "cancelAll" THEN "cancel" ELSE ExpireEvent(q.row)
<1>2. q.boot \in Boots
  BY DEF Task
<1>3. ev \in Closing
  BY ExpireCloses DEF Closing
<1>4. Held(t, T, q.boot)
  BY <1>2
<1>5. boots[q.boot].status # NoStatus
  BY <1>4 DEF Held
<1>6. /\ U \in Task /\ U.queue \subseteq T.queue /\ U.kind = T.kind /\ U.conn = T.conn
      /\ U.who = T.who /\ U.proof = T.proof /\ U.snap = T.snap
  BY DEF Task
<1>7. Held(t, U, q.boot)
  BY <1>4, <1>6 DEF Held
<1> HIDE DEF U, ev
<1>8. Close(t, U, q.boot, q.row, ev)
  BY <1>1 DEF U, ev
<1> QED
  BY <1>2, <1>3, <1>5, <1>7, <1>8, Closed

-----------------------------------------------------------------------------
(* Everything else *)

\* The variables a handler keeps, or changes within their type.
LEMMA RestKept ==
  ASSUME IInv, UNCHANGED outside,
         challenges' \in [Boots -> Challenge], contexts' \subseteq Stored, alarm' \in Nat,
         index' \in [Boots -> Status \cup {NoStatus}], records' \in [Boots -> Nat]
  PROVE  RestOK /\ now' = now
BY TypeParts DEF outside, RestOK

\* The alarm is set to a deadline of some boot.
LEMMA RearmType ==
  ASSUME IInv, NEW set \in Nat, Rearm(set)
  PROVE  alarm' \in Nat
<1>1. \A b \in Boots : Deadline(boots[b]) \in Nat
  BY TypeParts DEF Deadline, Row
<1> QED
  BY <1>1 DEF Rearm, LiveBoots

\* The alarm a lost handler leaves is a time.
LEMMA RetryType ==
  ASSUME IInv, NEW lost, RetryAlarm(lost)
  PROVE  alarm' \in Nat
BY TypeParts DEF RetryAlarm

\* A suspended handler knows whose socket it is on.
LEMMA OwnConn ==
  ASSUME IInv, NEW t \in Tasks, tasks[t].conn # NULL
  PROVE  /\ tasks[t].conn \in Conns
         /\ Busy(tasks[t].conn)
         /\ tasks[t].who \in Clients
         /\ conns[tasks[t].conn].client = tasks[t].who
BY TypeParts DEF TaskInv, Task, Busy

-----------------------------------------------------------------------------
(* The world's steps *)

\* Time passes.
LEMMA TickStep == IInv /\ Tick => IInv'
<1> SUFFICES ASSUME IInv, Tick PROVE IInv'
  OBVIOUS
<1>1. now' \in Nat /\ now <= now'
  BY TypeParts DEF Tick
<1>2. RowsOK
  BY <1>1, RowsUnchanged DEF Tick, storage
<1>3. RestOK
  BY <1>1, TypeParts DEF Tick, storage, d1, RestOK
<1>4. \A c \in Conns : ConnInv(c)'
  BY TypeParts DEF ConnInv, Tick, storage
<1> QED
  BY <1>2, <1>3, <1>4, TypeParts, CombineWorld DEF Tick

\* A socket is accepted: its slot was free, and bound to no boot.
LEMMA ConnectStep ==
  ASSUME IInv, NEW c \in Conns, NEW k \in Clients, Connect(c, k)
  PROVE  IInv'
<1> USE DEF Connect, storage, d1
<1>1. RowsOK /\ RestOK
  BY TypeParts, RowsUnchanged, RestKept DEF outside
<1> DEFINE new == [NoConn EXCEPT !.st = "open", !.client = k]
<1>2. new \in Conn /\ new.client = k /\ new.att = NULL
  BY DEF NoConn, Conn
<1>3. conns' \in [Conns -> Conn] /\ conns' = [conns EXCEPT ![c] = new]
  BY <1>2, TypeParts
<1> HIDE DEF new
<1>4. \A x \in Conns : ConnInv(x)'
  BY <1>2, <1>3, TypeParts DEF ConnInv
<1>5. \A x \in Conns : Busy(x) => conns'[x].client = conns[x].client
  BY <1>3, TypeParts
<1> QED
  BY <1>1, <1>3, <1>4, <1>5, CombineWorld

\* A peer goes; a suspended handler still knows whose socket it was.
LEMMA DisconnectStep ==
  ASSUME IInv, NEW c \in Conns, Disconnect(c)
  PROVE  IInv'
<1> USE DEF Disconnect, storage, d1
<1>1. RowsOK /\ RestOK
  BY TypeParts, RowsUnchanged, RestKept DEF outside
<1> DEFINE new == IF Busy(c) THEN [conns[c] EXCEPT !.st = "closed"] ELSE NoConn
<1>2. /\ new \in Conn /\ new.st # "open"
      /\ new.att # NULL => new.att = conns[c].att /\ new.client = conns[c].client
      /\ Busy(c) => new.client = conns[c].client
  BY TypeParts DEF NoConn, Conn
<1>3. conns' \in [Conns -> Conn] /\ conns' = [conns EXCEPT ![c] = new]
  BY <1>2, TypeParts
<1> HIDE DEF new
<1>4. \A x \in Conns : ConnInv(x)'
  BY <1>2, <1>3, TypeParts DEF ConnInv
<1>5. \A x \in Conns : Busy(x) => conns'[x].client = conns[x].client
  BY <1>2, <1>3, TypeParts
<1> QED
  BY <1>1, <1>3, <1>4, <1>5, CombineWorld

\* A token is revoked.
LEMMA RevokeStep ==
  ASSUME IInv, NEW tk \in Tokens, Revoke(tk)
  PROVE  IInv'
<1> USE DEF Revoke, storage, d1
<1>1. RowsOK /\ RestOK
  BY TypeParts, RowsUnchanged DEF RestOK
<1>2. \A x \in Conns : ConnInv(x)'
  BY TypeParts DEF ConnInv
<1> QED
  BY <1>1, <1>2, TypeParts, CombineWorld

\* The vault contents change: a revision read earlier is still one of the past.
LEMMA ChangeVaultStep == IInv /\ ChangeVault => IInv'
<1> SUFFICES ASSUME IInv, ChangeVault PROVE IInv'
  OBVIOUS
<1> USE DEF ChangeVault, storage, d1
<1>1. RowsOK /\ RestOK
  BY TypeParts, BootAssumption, RowsUnchanged DEF RestOK
<1>2. \A x \in Conns : ConnInv(x)'
  BY TypeParts DEF ConnInv
<1> QED
  BY <1>1, <1>2, TypeParts, CombineWorld

\* The object restarts: rows stay, handlers and sockets go.
LEMMA RestartStep == IInv /\ Restart => IInv'
<1> SUFFICES ASSUME IInv, Restart PROVE IInv'
  OBVIOUS
<1> USE DEF Restart, storage, d1
<1>1. RowsOK
  BY TypeParts, RowsUnchanged
<1>2. alarm' \in Nat /\ faults' \in Nat
  BY TypeParts, RetryType
<1>3. TypeOK'
  BY <1>1, <1>2, IdleType, TypeParts DEF TypeOK, RowsOK
<1>4. \A c \in Conns : ConnInv(c)'
  BY DEF ConnInv, NoConn
<1>5. \A t \in Tasks : TaskInv(t)'
  BY DEF TaskInv, Idle, NoRow
<1> QED
  BY <1>1, <1>3, <1>4, <1>5, TypeParts DEF IInv, RowsOK

-----------------------------------------------------------------------------
(* A handler starts *)

\* A frame is handled for a known workload.
LEMMA Framed ==
  ASSUME IInv, NEW t \in Tasks, NEW c \in Conns, FrameOn(c, t)
  PROVE  /\ tasks[t] = Idle /\ c # NULL
         /\ conns[c].client \in Clients
BY TypeParts, BootAssumption DEF FrameOn, ConnInv

\* A hello on its way to the insert, or refused.
LEMMA Admitted ==
  ASSUME IInv, RowsOK, NEW t \in Tasks, NEW T \in Task, NEW cs, Less(cs), HelloAdmit(t, T, cs),
         T.kind = "hello", T.snap.frame = 0, T.queue = {},
         T.conn \in Conns, T.who \in Clients, cs[T.conn].client = T.who
  PROVE  ConnsOK(t) /\ TasksOK(t)
<1>1. CASE Admissible(T.who)
  <2> DEFINE U == [T EXCEPT !.pc = "env", !.ev = "none", !.boot = NULL]
  <2>1. conns' = cs /\ tasks' = [tasks EXCEPT ![t] = U]
    BY <1>1 DEF HelloAdmit
  <2>2. /\ U \in Task /\ U.pc = "env" /\ U.boot = NULL /\ U.kind = T.kind /\ U.conn = T.conn
        /\ U.who = T.who /\ U.queue = T.queue /\ U.snap = T.snap
    BY DEF Task, PCs
  <2> HIDE DEF U
  <2>3. tasks' \in [Tasks -> Task] /\ tasks'[t] = U
    BY <2>1, <2>2, TypeParts
  <2>4. TaskInv(t)'
    BY <2>1, <2>2, <2>3, BootAssumption DEF TaskInv
  <2>5. ConnsOK(t)
    BY <2>1, ConnsAs DEF RowsOK
  <2> QED
    BY <2>1, <2>2, <2>3, <2>4, <2>5, TypeParts DEF TasksOK
<1>2. CASE ~Admissible(T.who)
  BY <1>2, ConnsShut, Finished DEF HelloAdmit, RowsOK
<1> QED
  BY <1>1, <1>2

\* boot.hello, up to its first await.
LEMMA HelloStep ==
  ASSUME IInv, NEW t \in Tasks, NEW c \in Conns, Hello(t, c)
  PROVE  IInv'
<1> DEFINE T == [Idle EXCEPT !.kind = "hello", !.conn = c, !.who = conns[c].client,
                             !.queue = OverdueQueue]
<1>1. FrameOn(c, t) /\ UNCHANGED <<outside, challenges, contexts, alarm, d1, sentTo>>
  BY DEF Hello
<1>2. /\ tasks[t] = Idle /\ c # NULL /\ conns[c].client \in Clients
  BY <1>1, Framed
<1>3. RestOK /\ now' = now /\ sentTo' = sentTo
  BY <1>1, RestKept, TypeParts DEF d1
<1>4. /\ OverdueQueue \subseteq [boot : Boots, row : Row]
      /\ \A q \in OverdueQueue : boots[q.boot].status # NoStatus
  BY TypeParts DEF OverdueQueue, Overdue, Live, NoStatus
<1>5. /\ T \in Task /\ T.kind = "hello" /\ T.conn = c /\ T.who = conns[c].client
      /\ T.queue = OverdueQueue /\ T.snap.frame = 0
  BY <1>2, <1>4, IdleType DEF Idle, Task, Kinds, NoRow
<1> HIDE DEF T
<1>6. CASE conns[c].att # NULL
  <2>1. conns' = Shut(t, conns, c) /\ UNCHANGED <<boots, tasks>>
    BY <1>6 DEF Hello
  <2>2. RowsOK
    BY <2>1, <1>3, RowsUnchanged, TypeParts
  <2> QED
    BY <2>1, <2>2, <1>2, <1>3, ConnsShut, LessSame, StillIdle, Combine DEF RowsOK
<1>7. CASE conns[c].att = NULL /\ OverdueQueue # {}
  <2>1. NextInQueue(t, T) /\ UNCHANGED conns
    BY <1>7 DEF Hello, T
  <2>2. \A b \in Boots : Held(t, T, b)
    BY <2>1, <1>2, <1>4, <1>5 DEF Held
  <2>3. RowsOK /\ TasksOK(t)
    BY <2>1, <2>2, <1>3, <1>5, ClosedQueue
  <2> QED
    BY <2>1, <2>3, <1>3, ConnsAs, LessSame, Combine DEF RowsOK
<1>8. CASE conns[c].att = NULL /\ OverdueQueue = {}
  <2>1. HelloAdmit(t, T, conns) /\ UNCHANGED boots
    BY <1>8 DEF Hello, T
  <2>2. RowsOK
    BY <2>1, <1>3, RowsUnchanged, TypeParts
  <2> QED
    BY <2>1, <2>2, <1>2, <1>3, <1>5, <1>8, LessSame, Admitted, Combine
<1> QED
  BY <1>6, <1>7, <1>8

\* A D1 call rejects: the handler is gone, what it wrote stays.
LEMMA ThrowStep ==
  ASSUME IInv, NEW t \in Tasks, Throw(t)
  PROVE  IInv'
<1> USE DEF Throw, d1
<1>1. RowsOK
  BY TypeParts, RowsUnchanged
<1>2. alarm' \in Nat /\ faults' \in Nat
  BY TypeParts, RetryType
<1>3. RestOK
  BY <1>2, TypeParts DEF RestOK
<1> QED
  BY <1>1, <1>3, Finished, ConnsAs, LessSame, Combine DEF RowsOK

\* A resume ends with a terminal frame or with a challenge.
LEMMA ResumeDecided ==
  ASSUME IInv, RowsOK, NEW t \in Tasks, NEW c \in Conns, NEW b \in Boots, NEW cs, Less(cs),
         ResumeDecide(t, c, b, cs)
  PROVE  ConnsOK(t) /\ TasksOK(t) /\ challenges' \in [Boots -> Challenge]
<1>1. TasksOK(t)
  BY Finished DEF ResumeDecide
<1>2. challenges' \in [Boots -> Challenge]
  <2>1. now + ChallengeTtl \in Nat /\ cs[c].client \in Clients \cup {NULL}
    BY TypeParts, BootAssumption DEF Less, Conn
  <2>2. [to |-> IF cs[c].st = "open" THEN cs[c].client ELSE NULL,
         exp |-> now + ChallengeTtl] \in Challenge
    BY <2>1 DEF Challenge
  <2> QED
    BY <2>2, TypeParts DEF ResumeDecide
<1>3. CASE boots[b].status \in Terminal
  <2>1. conns' = IF cs[c].att = b THEN cs ELSE Shut(t, cs, c)
    BY <1>3 DEF ResumeDecide
  <2>2. RowsKept
    BY DEF RowsOK
  <2> QED
    BY <1>1, <1>2, <2>1, <2>2, ConnsAs, ConnsShut
<1>4. CASE boots[b].status \notin Terminal
  <2>1. conns' = cs
    BY <1>4 DEF ResumeDecide
  <2>2. RowsKept
    BY DEF RowsOK
  <2> QED
    BY <1>1, <1>2, <2>1, <2>2, ConnsAs
<1> QED
  BY <1>1, <1>2, <1>3, <1>4

\* A handler that begins to close boot b without a snapshot to redeliver.
LEMMA HeldIdle ==
  ASSUME IInv, NEW t \in Tasks, NEW b, NEW kind \in Kinds,
         kind \notin {"hello", "resume", "challenge", "received"}
  PROVE  Held(t, [Idle EXCEPT !.kind = kind], b)
BY IdleType DEF Held, Idle, Task, NoRow

\* A frame handler that begins to close boot b.
LEMMA HeldFrame ==
  ASSUME IInv, NEW t \in Tasks, NEW b, NEW c \in Conns, FrameOn(c, t), conns' = conns,
         NEW kind \in {"resume", "received"}
  PROVE  /\ Held(t, [Idle EXCEPT !.kind = kind, !.conn = c, !.who = conns[c].client], b)
         /\ [Idle EXCEPT !.kind = kind, !.conn = c, !.who = conns[c].client] \in Task
BY ZenonT(60), IdleType, Framed DEF Held, Idle, Task, NoRow, Kinds

\* boot.resume, up to its first await.
LEMMA ResumeStep ==
  ASSUME IInv, NEW t \in Tasks, NEW c \in Conns, NEW b \in Boots, Resume(t, c, b)
  PROVE  IInv'
<1>1. FrameOn(c, t) /\ UNCHANGED <<outside, contexts, alarm, d1, sentTo>>
  BY DEF Resume
<1>2. tasks[t] = Idle
  BY <1>1, Framed
<1>3. sentTo' = sentTo /\ now' = now
  BY <1>1 DEF outside
<1>4. challenges' \in [Boots -> Challenge] => RestOK
  BY <1>1, RestKept, TypeParts DEF d1
<1>5. CASE boots[b].status = NoStatus \/ TokenOf[conns[c].client] # TokenOf[boots[b].key]
  <2>1. conns' = Shut(t, conns, c) /\ UNCHANGED <<boots, challenges, tasks>>
    BY <1>5 DEF Resume
  <2>2. RowsOK
    BY <2>1, <1>3, RowsUnchanged, TypeParts
  <2> QED
    BY <2>1, <2>2, <1>2, <1>4, TypeParts, ConnsShut, LessSame, StillIdle, Combine DEF RowsOK
<1>6. CASE boots[b].status # NoStatus /\ Overdue(boots[b])
           /\ TokenOf[conns[c].client] = TokenOf[boots[b].key]
  <2> DEFINE T == [Idle EXCEPT !.kind = "resume", !.conn = c, !.who = conns[c].client]
  <2>1. Close(t, T, b, boots[b], ExpireEvent(boots[b])) /\ UNCHANGED <<conns, challenges>>
    BY <1>6 DEF Resume
  <2>2. Held(t, T, b) /\ T \in Task
    BY <2>1, <1>1, HeldFrame
  <2> HIDE DEF T
  <2>3. RowsOK /\ TasksOK(t)
    BY <2>1, <2>2, <1>3, <1>6, ExpireCloses, Closed
  <2> QED
    BY <2>1, <2>3, <1>4, TypeParts, ConnsAs, LessSame, Combine DEF RowsOK
<1>7. CASE boots[b].status # NoStatus /\ ~Overdue(boots[b])
           /\ TokenOf[conns[c].client] = TokenOf[boots[b].key]
  <2>1. ResumeDecide(t, c, b, conns) /\ UNCHANGED boots
    BY <1>7 DEF Resume
  <2>2. RowsOK
    BY <2>1, <1>3, RowsUnchanged, TypeParts
  <2> QED
    BY <2>1, <2>2, <1>2, <1>4, LessSame, ResumeDecided, Combine
<1> QED
  BY <1>5, <1>6, <1>7

\* boot.challenge_response, up to the signature check: the snapshot it takes
\* along is the row of a boot whose key its proof will have to match.
LEMMA ChallengeResponseStep ==
  ASSUME IInv, NEW t \in Tasks, NEW c \in Conns, NEW b \in Boots, NEW good \in BOOLEAN,
         ChallengeResponse(t, c, b, good)
  PROVE  IInv'
<1>1. FrameOn(c, t) /\ UNCHANGED <<outside, boots, contexts, alarm, d1, sentTo>>
  BY DEF ChallengeResponse
<1>2. /\ tasks[t] = Idle /\ c # NULL /\ conns[c].client \in Clients
  BY <1>1, Framed
<1>3. RowsOK
  BY <1>1, RowsUnchanged, TypeParts DEF outside
<1>4. challenges' \in [Boots -> Challenge]
  BY IdleType, TypeParts DEF ChallengeResponse
<1>5. RestOK
  BY <1>1, <1>4, RestKept, TypeParts DEF d1
<1> DEFINE refused == \/ boots[b].status = NoStatus
                      \/ challenges[b] = NoChallenge \/ challenges[b].exp <= now
<1>6. CASE refused
  <2>1. conns' = Shut(t, conns, c) /\ UNCHANGED tasks
    BY <1>6 DEF ChallengeResponse
  <2> QED
    BY <2>1, <1>2, <1>3, <1>5, ConnsShut, LessSame, StillIdle, Combine DEF RowsOK
<1>7. CASE ~refused
  <2> DEFINE T == [Idle EXCEPT !.pc = "proof", !.kind = "challenge", !.boot = b,
                        !.snap = boots[b], !.conn = c, !.who = conns[c].client,
                        !.proof = good,
                        !.tok = TokenOf[boots[b].key] \notin revoked]
  <2>1. tasks' = [tasks EXCEPT ![t] = T] /\ UNCHANGED conns
    BY <1>7 DEF ChallengeResponse
  <2>2. (TokenOf[boots[b].key] \notin revoked) \in BOOLEAN
    OBVIOUS
  <2>3. boots[b] \in Row /\ RowInv(b) /\ boots[b].status # NoStatus /\ b # NULL
    BY <1>7, TypeParts, BootAssumption
  <2>4. T \in Task
    BY ZenonT(60), <2>2, <2>3, <1>2, IdleType DEF Idle, Task, PCs, Kinds
  <2>5. /\ T.pc = "proof" /\ T.kind = "challenge" /\ T.boot = b /\ T.snap = boots[b]
        /\ T.conn = c /\ T.who = conns[c].client /\ T.queue = {}
        /\ T.proof => conns[c].client = boots[b].key
    BY DEF Idle, ProofHolds, ChallengeResponse
  <2> HIDE DEF T
  <2>6. tasks' \in [Tasks -> Task] /\ tasks'[t] = T
    BY <2>1, <2>4, TypeParts
  <2>7. T.snap.frame # 0 => boots[b].digest = T.snap.frame
    BY <2>3, <2>5 DEF RowInv
  <2>8. TaskInv(t)'
    BY <1>1, <1>2, <2>1, <2>3, <2>5, <2>6, <2>7 DEF TaskInv
  <2>9. TasksOK(t)
    BY <1>2, <2>1, <2>5, <2>6, <2>8, TypeParts DEF TasksOK
  <2> QED
    BY <2>1, <2>9, <1>3, <1>5, ConnsAs, LessSame, Combine DEF RowsOK
<1> QED
  BY <1>6, <1>7

\* boot.received, up to its first await.
LEMMA ReceivedStep ==
  ASSUME IInv, NEW t \in Tasks, NEW c \in Conns, NEW b \in Boots, NEW good \in BOOLEAN,
         Received(t, c, b, good)
  PROVE  IInv'
<1> DEFINE T == [Idle EXCEPT !.kind = "received", !.conn = c, !.who = conns[c].client]
<1>1. FrameOn(c, t) /\ UNCHANGED <<outside, challenges, contexts, alarm, d1, sentTo>>
  BY DEF Received
<1>2. tasks[t] = Idle
  BY <1>1, Framed
<1>3. RestOK /\ now' = now /\ sentTo' = sentTo
  BY <1>1, RestKept, TypeParts DEF d1
<1> DEFINE refused == \/ conns[c].att # b
                      \/ ~good \/ boots[b].digest = 0
                      \/ ~Allowed(boots[b].status, "consume")
<1>4. CASE refused
  <2>1. conns' = Shut(t, conns, c) /\ UNCHANGED <<boots, tasks>>
    BY <1>4 DEF Received
  <2>2. RowsOK
    BY <2>1, <1>3, RowsUnchanged, TypeParts
  <2> QED
    BY <2>1, <2>2, <1>2, <1>3, ConnsShut, LessSame, StillIdle, Combine DEF RowsOK
<1>5. CASE ~refused
  <2>1. Close(t, T, b, boots[b], "consume") /\ UNCHANGED conns
    BY <1>5 DEF Received
  <2>2. Held(t, T, b) /\ boots[b].status # NoStatus
    BY <1>1, <1>5, <2>1, HeldFrame, TypeParts, BootAssumption DEF ConnInv
  <2> HIDE DEF T
  <2>3. RowsOK /\ TasksOK(t)
    BY <2>1, <2>2, <1>3, Closed DEF Closing
  <2> QED
    BY <2>1, <2>3, <1>3, ConnsAs, LessSame, Combine DEF RowsOK
<1> QED
  BY <1>4, <1>5

\* #approvalState: a pending row has no payload yet, so its snapshot has none.
LEMMA ApprovalStartStep ==
  ASSUME IInv, NEW t \in Tasks, NEW b \in Boots, NEW kind \in {"prepare", "complete"},
         NEW ctx \in Context, ApprovalStart(t, b, kind, ctx)
  PROVE  IInv'
<1>1. /\ UNCHANGED <<outside, challenges, contexts, alarm, conns, d1, sentTo>>
      /\ boots[b].status = "PENDING" /\ tasks[t] = Idle
  BY DEF ApprovalStart
<1>2. RestOK /\ now' = now /\ sentTo' = sentTo /\ rev' = rev
  BY <1>1, RestKept, TypeParts DEF d1, outside
<1>3. boots[b].status # NoStatus /\ b # NULL /\ boots[b] \in Row /\ RowInv(b)
  BY <1>1, TypeParts, BootAssumption DEF NoStatus
<1>4. CASE Overdue(boots[b])
  <2> DEFINE T == [Idle EXCEPT !.kind = kind]
  <2>1. Close(t, T, b, boots[b], "expirePending")
    BY <1>4 DEF ApprovalStart
  <2>2. Held(t, T, b)
    BY HeldIdle DEF Kinds
  <2> HIDE DEF T
  <2>3. RowsOK /\ TasksOK(t)
    BY <2>1, <2>2, <1>2, <1>3, Closed DEF Closing
  <2> QED
    BY <2>3, <1>1, <1>2, ConnsAs, LessSame, Combine DEF RowsOK
<1>5. CASE ~Overdue(boots[b])
  <2> DEFINE T == [Idle EXCEPT !.pc = "state", !.kind = kind, !.boot = b, !.snap = boots[b],
                        !.tok = TokenLive(TokenOf[boots[b].key]), !.rev = rev, !.ctx = ctx]
  <2>1. tasks' = [tasks EXCEPT ![t] = T] /\ UNCHANGED boots
    BY <1>5 DEF ApprovalStart
  <2>2. TokenLive(TokenOf[boots[b].key]) \in BOOLEAN
    BY DEF TokenLive
  <2>3. T \in Task
    BY ZenonT(60), <2>2, <1>3, IdleType, TypeParts DEF Idle, Task, PCs, Kinds
  <2>4. /\ T.pc = "state" /\ T.kind = kind /\ T.boot = b /\ T.snap = boots[b]
        /\ T.conn = NULL /\ T.queue = {} /\ T.rev = rev
    BY DEF Idle
  <2> HIDE DEF T
  <2>5. tasks' \in [Tasks -> Task] /\ tasks'[t] = T
    BY <2>1, <2>3, TypeParts
  <2>6. T.snap.frame = 0
    BY <1>1, <1>3, <2>4 DEF RowInv
  <2>7. TaskInv(t)'
    BY <1>2, <1>3, <2>1, <2>4, <2>5, <2>6, TypeParts DEF TaskInv
  <2>8. TasksOK(t) /\ RowsOK
    BY <1>2, <2>1, <2>4, <2>5, <2>7, TypeParts, RowsUnchanged DEF TasksOK
  <2> QED
    BY <2>8, <1>1, <1>2, ConnsAs, LessSame, Combine DEF RowsOK
<1> QED
  BY <1>4, <1>5

\* prepareApproval, up to its first await.
LEMMA PrepareStep ==
  ASSUME IInv, NEW t \in Tasks, NEW b \in Boots, Prepare(t, b)
  PROVE  IInv'
<1>1. NoContext \in Context
  BY DEF NoContext, Context
<1> QED
  BY <1>1, ApprovalStartStep DEF Prepare

\* The second half of an approval names the boot its prepared context names.
LEMMA CompleteStep ==
  ASSUME IInv, NEW t \in Tasks, NEW x \in contexts, Complete(t, x)
  PROVE  IInv'
<1>1. x \in Context /\ x.boot # NULL
  BY TypeParts DEF Stored
<1>2. x.boot \in Boots
  BY <1>1 DEF Context
<1> QED
  BY <1>1, <1>2, ApprovalStartStep DEF Complete

\* decline and cancelBoot, up to the first await.
LEMMA RefusalStep ==
  ASSUME IInv, NEW t \in Tasks, NEW b \in Boots, Decline(t, b) \/ CancelBoot(t, b)
  PROVE  IInv'
<1>1. UNCHANGED <<outside, challenges, contexts, conns, d1, sentTo>> /\ tasks[t] = Idle
  BY DEF Decline, CancelBoot
<1>2. (alarm' \in Nat => RestOK) /\ now' = now /\ sentTo' = sentTo
  BY <1>1, RestKept, TypeParts DEF d1, outside
<1>3. ASSUME NEW kind \in {"decline", "cancelBoot"}, NEW ev \in {"decline", "cancel"},
             Close(t, [Idle EXCEPT !.kind = kind], b, boots[b], ev), UNCHANGED alarm
      PROVE  IInv'
  <2> DEFINE T == [Idle EXCEPT !.kind = kind]
  <2>1. Held(t, T, b) /\ boots[b].status # NoStatus
    BY <1>3, HeldIdle, AllowedLive DEF Kinds, Close, Live, NoStatus
  <2> HIDE DEF T
  <2>2. Close(t, T, b, boots[b], ev) /\ ev \in Closing
    BY <1>3 DEF T, Closing
  <2>3. RowsOK /\ TasksOK(t)
    BY <1>2, <2>1, <2>2, Closed
  <2> QED
    BY <1>1, <1>2, <1>3, <2>3, TypeParts, ConnsAs, LessSame, Combine DEF RowsOK
<1>4. CASE Rearm(alarm) /\ UNCHANGED <<boots, tasks>>
  <2>1. RowsOK /\ TasksOK(t)
    BY <1>1, <1>2, <1>4, RowsUnchanged, StillIdle, TypeParts
  <2> QED
    BY <1>1, <1>2, <1>4, <2>1, TypeParts, RearmType, ConnsAs, LessSame, Combine DEF RowsOK
<1> QED
  BY <1>3, <1>4 DEF Decline, CancelBoot

\* cancel and cancelForToken, up to the first await.
LEMMA CancelAllStep ==
  ASSUME IInv, NEW t \in Tasks, NEW tks, CancelAll(t, tks)
  PROVE  IInv'
<1> DEFINE Q == {[boot |-> b, row |-> boots[b]] : b \in
                  {x \in LiveBoots : /\ TokenOf[boots[x].key] \in tks
                                     /\ Allowed(boots[x].status, "cancel")}}
           T == [Idle EXCEPT !.kind = "cancelAll", !.queue = Q]
<1>1. UNCHANGED <<outside, challenges, contexts, conns, d1, sentTo>> /\ tasks[t] = Idle
  BY DEF CancelAll
<1>2. alarm' \in Nat => RestOK
  BY <1>1, RestKept, TypeParts DEF d1
<1>3. now' = now /\ sentTo' = sentTo
  BY <1>1 DEF outside
<1>4. /\ Q \subseteq [boot : Boots, row : Row]
      /\ \A q \in Q : boots[q.boot].status # NoStatus
  BY TypeParts DEF LiveBoots, Live, NoStatus
<1>5. CASE Q # {}
  <2>1. NextInQueue(t, T) /\ UNCHANGED alarm
    BY <1>5 DEF CancelAll, Idle
  <2> HIDE DEF Q
  <2>2. T \in Task /\ T.queue = Q /\ T.kind = "cancelAll" /\ T.conn = NULL /\ T.snap = NoRow
    BY <1>4, IdleType DEF Idle, Task, Kinds
  <2> HIDE DEF T
  <2>3. \A b \in Boots : Held(t, T, b)
    BY <1>4, <2>2 DEF Held, NoRow
  <2>4. RowsOK /\ TasksOK(t)
    BY <1>3, <2>1, <2>2, <2>3, ClosedQueue
  <2> QED
    BY <1>1, <1>2, <2>1, <2>4, TypeParts, ConnsAs, LessSame, Combine DEF RowsOK
<1>6. CASE Q = {}
  <2>1. Rearm(alarm) /\ UNCHANGED <<boots, tasks>>
    BY <1>6 DEF CancelAll, Idle
  <2>2. RowsOK /\ TasksOK(t)
    BY <1>1, <1>3, <2>1, RowsUnchanged, StillIdle, TypeParts
  <2> QED
    BY <1>1, <1>2, <2>1, <2>2, TypeParts, RearmType, ConnsAs, LessSame, Combine DEF RowsOK
<1> QED
  BY <1>5, <1>6

\* alarm, up to its first await.
LEMMA AlarmStep ==
  ASSUME IInv, NEW t \in Tasks, AlarmFires(t)
  PROVE  IInv'
<1> DEFINE T == [Idle EXCEPT !.kind = "alarm", !.queue = OverdueQueue]
<1>1. UNCHANGED <<outside, challenges, contexts, conns, d1, sentTo>> /\ tasks[t] = Idle
  BY DEF AlarmFires
<1>2. alarm' \in Nat => RestOK
  BY <1>1, RestKept, TypeParts DEF d1
<1>3. now' = now /\ sentTo' = sentTo
  BY <1>1 DEF outside
<1>4. /\ OverdueQueue \subseteq [boot : Boots, row : Row]
      /\ \A q \in OverdueQueue : boots[q.boot].status # NoStatus
  BY TypeParts DEF OverdueQueue, Overdue, Live, NoStatus
<1>5. CASE OverdueQueue # {}
  <2>1. NextInQueue(t, T) /\ alarm' = 0
    BY <1>5 DEF AlarmFires, Idle
  <2>2. /\ T \in Task /\ T.queue = OverdueQueue /\ T.kind = "alarm" /\ T.conn = NULL
        /\ T.snap = NoRow
    BY <1>4, IdleType DEF Idle, Task, Kinds
  <2> HIDE DEF T
  <2>3. \A b \in Boots : Held(t, T, b)
    BY <1>4, <2>2 DEF Held, NoRow
  <2>4. RowsOK /\ TasksOK(t)
    BY <1>3, <2>1, <2>2, <2>3, ClosedQueue
  <2> QED
    BY <1>1, <1>2, <2>1, <2>4, ConnsAs, LessSame, Combine DEF RowsOK
<1>6. CASE OverdueQueue = {}
  <2>1. Rearm(0) /\ UNCHANGED <<boots, tasks>>
    BY <1>6 DEF AlarmFires, Idle
  <2>2. RowsOK /\ TasksOK(t)
    BY <1>1, <1>3, <2>1, RowsUnchanged, StillIdle, TypeParts
  <2> QED
    BY <1>1, <1>2, <2>1, <2>2, RearmType, ConnsAs, LessSame, Combine DEF RowsOK
<1> QED
  BY <1>5, <1>6

-----------------------------------------------------------------------------
(* A handler goes on *)

\* A handler that moves on with the boot, the socket and the snapshot it had.
LEMMA Moved ==
  ASSUME IInv, NEW t \in Tasks, NEW U \in Task, RowsKept, rev' = rev,
         tasks' = [tasks EXCEPT ![t] = U],
         U.kind = tasks[t].kind, U.boot = tasks[t].boot, U.snap = tasks[t].snap,
         U.conn = tasks[t].conn, U.who = tasks[t].who, U.queue = tasks[t].queue,
         U.proof = tasks[t].proof,
         U.conn # NULL => conns'[U.conn].client = conns[U.conn].client,
         tasks[t].pc # "proof",
         U.pc \in {"opened", "hash", "mirror", "record", "audit"},
         U.pc = "opened" => tasks[t].pc = "insert",
         U.pc = "hash" => /\ tasks[t].pc = "state" /\ U.rev \in 1 .. rev
                          /\ U.kind = "prepare" => U.ctx.boot = U.boot,
         U.pc \in {"mirror", "record", "audit"} => U.boot # NULL /\ U.ev \in Events
  PROVE  TasksOK(t)
<1>1. tasks' \in [Tasks -> Task] /\ tasks'[t] = U
  BY TypeParts
<1>2. TaskInv(t) /\ U.boot \in Boots \cup {NULL} /\ \A q \in U.queue : q.boot \in Boots
  BY TypeParts DEF Task
<1>3. U.snap.frame # 0 => boots[U.boot].digest # 0 /\ U.boot # NULL
  BY <1>2 DEF TaskInv
<1>4. TaskInv(t)'
  BY <1>1, <1>2, <1>3 DEF TaskInv, RowsKept
<1> QED
  BY <1>1, <1>4, TypeParts DEF TasksOK

\* A suspended handler holds what it needs to close a boot.
LEMMA HeldTask ==
  ASSUME IInv, NEW t \in Tasks, NEW cs, Less(cs), conns' = cs,
         tasks[t].kind = "challenge" => tasks[t].proof
  PROVE  /\ tasks[t].boot # NULL => Held(t, tasks[t], tasks[t].boot)
         /\ tasks[t].kind # "challenge" => \A b \in Boots : Held(t, tasks[t], b)
<1>1. tasks[t] \in Task /\ TaskInv(t)
  BY TypeParts
<1>2. tasks[t].conn # NULL =>
        /\ tasks[t].who \in Clients
        /\ conns[tasks[t].conn].client = tasks[t].who
        /\ conns'[tasks[t].conn].client = tasks[t].who
  BY OwnConn DEF Less
<1> QED
  BY <1>1, <1>2 DEF Held, TaskInv

\* The row a hello makes is one that nothing has happened to.
LEMMA Opens ==
  ASSUME IInv, NEW k \in Clients
  PROVE  Opening(k) \in Row /\ Fresh(Opening(k), k)
<1>1. now \in Nat /\ now + PendingTtl \in Nat
  BY TypeParts, BootAssumption
<1> DEFINE row == Opening(k)
<1>2. /\ row.status = "PENDING" /\ row.key = k /\ row.created = now
      /\ row.frame = 0 /\ row.digest = 0
  BY DEF Opening, NoRow
<1>3. row \in Row
  BY <1>1 DEF Opening, NoRow, Row, Status, Live
<1> HIDE DEF row
<1> QED
  BY <1>1, <1>2, <1>3 DEF Fresh, row

\* The row is made, or the environment is gone.
LEMMA HelloMakeStep ==
  ASSUME IInv, NEW t \in Tasks, HelloMake(t)
  PROVE  IInv'
<1> DEFINE T == tasks[t]
           U == [T EXCEPT !.pc = "keyed", !.snap = Opening(T.who)]
<1>1. UNCHANGED <<outside, storage, d1, sentTo>> /\ T.pc = "env"
  BY DEF HelloMake
<1>2. RestOK /\ now' = now
  BY <1>1, RestKept, TypeParts DEF outside, storage, d1
<1>3. RowsOK
  BY <1>1, <1>2, RowsUnchanged, TypeParts DEF storage
<1>4. /\ T \in Task /\ TaskInv(t) /\ T.kind = "hello" /\ T.conn # NULL
      /\ T.conn \in Conns /\ T.who \in Clients
  BY <1>1, OwnConn, TypeParts DEF TaskInv
<1>5. CASE conns' = Shut(t, conns, T.conn) /\ Finish(t)
  BY <1>2, <1>3, <1>4, <1>5, LessSame, ConnsShut, Finished, Combine DEF RowsOK
<1>6. CASE tasks' = [tasks EXCEPT ![t] = U] /\ UNCHANGED conns
  <2>1. Opening(T.who) \in Row /\ Fresh(Opening(T.who), T.who)
    BY <1>4, Opens
  <2>2. /\ U \in Task /\ U.pc = "keyed" /\ U.snap = Opening(T.who) /\ U.kind = T.kind
        /\ U.boot = T.boot /\ U.conn = T.conn /\ U.who = T.who /\ U.queue = T.queue
    BY <1>4, <2>1 DEF Task, PCs
  <2> HIDE DEF U
  <2>3. tasks' \in [Tasks -> Task] /\ tasks'[t] = U
    BY <1>6, <2>2, TypeParts
  <2>4. Fresh(tasks[t].snap, tasks[t].who)'
    <3>1. tasks'[t].snap = Opening(T.who) /\ tasks'[t].who = T.who
      BY <2>2, <2>3
    <3> HIDE DEF T
    <3> QED
      BY <1>2, <2>1, <3>1 DEF Fresh
  <2>5. T.boot = NULL /\ T.queue = {}
    BY <1>1, <1>4 DEF TaskInv
  <2>6. TaskInv(t)'
    BY <1>1, <1>4, <1>6, <2>1, <2>2, <2>3, <2>5 DEF TaskInv, storage, Fresh, outside
  <2>7. TasksOK(t)
    BY <1>6, <2>2, <2>3, <2>6, TypeParts DEF TasksOK
  <2> QED
    BY <1>2, <1>3, <1>6, <2>7, LessSame, ConnsAs, Combine DEF RowsOK
<1> QED
  BY <1>5, <1>6 DEF HelloMake

\* The row is inserted under a fresh id, for the workload of the socket.
LEMMA HelloInsertStep ==
  ASSUME IInv, NEW t \in Tasks, HelloInsert(t)
  PROVE  IInv'
<1> DEFINE T == tasks[t]
<1>1. /\ UNCHANGED <<outside, challenges, contexts, alarm, conns, d1, sentTo>>
      /\ T.pc = "keyed"
  BY DEF HelloInsert
<1>2. RestOK /\ now' = now /\ sentTo' = sentTo
  BY <1>1, RestKept, TypeParts DEF outside, d1
<1>3. /\ T \in Task /\ TaskInv(t) /\ T.kind = "hello" /\ T.conn # NULL /\ T.who \in Clients
      /\ T.snap \in Row /\ Fresh(T.snap, T.who) /\ T.queue = {}
  BY <1>1, TypeParts DEF TaskInv, Task
<1>4. PICK b \in Boots :
        /\ boots[b].status = NoStatus
        /\ boots' = [boots EXCEPT ![b] = T.snap]
        /\ tasks' = [tasks EXCEPT ![t] = [T EXCEPT !.pc = "insert", !.boot = b, !.snap = NoRow]]
  BY DEF HelloInsert
<1>5. boots' \in [Boots -> Row] /\ boots'[b] = T.snap
  BY <1>3, <1>4, TypeParts
<1>6. sentTo[b] = {}
  BY <1>4, TypeParts DEF RowInv
<1>7. RowInv(b)'
  BY <1>2, <1>3, <1>5, <1>6, BootAssumption DEF RowInv, NoStatus, Fresh
<1>8. \A x \in Boots \ {b} : RowInv(x)'
  BY <1>2, <1>4, TypeParts DEF RowInv
<1>9. RowsKept
  BY <1>4, TypeParts DEF RowsKept
<1>10. RowsOK
  BY <1>2, <1>5, <1>7, <1>8, <1>9, TypeParts DEF RowsOK
<1> DEFINE U == [T EXCEPT !.pc = "insert", !.boot = b, !.snap = NoRow]
<1>11. /\ U \in Task /\ U.pc = "insert" /\ U.boot = b /\ U.kind = "hello" /\ U.conn = T.conn
       /\ U.who = T.who /\ U.queue = {} /\ U.snap = NoRow
  BY <1>3, IdleType DEF Task, PCs
<1>12. tasks' = [tasks EXCEPT ![t] = U]
  BY <1>4
<1> HIDE DEF U
<1>13. tasks' \in [Tasks -> Task] /\ tasks'[t] = U
  BY <1>11, <1>12, TypeParts
<1>14. boots'[b].status = "PENDING" /\ boots'[b].key = U.who
  BY <1>3, <1>5, <1>11 DEF Fresh
<1>15. conns'[U.conn].client = U.who /\ U.who \in Clients /\ U.conn # NULL /\ U.snap.frame = 0
  BY <1>1, <1>3, <1>11 DEF TaskInv, NoRow
<1>16. TaskInv(t)'
  BY <1>11, <1>13, <1>14, <1>15, BootAssumption DEF TaskInv, NoStatus
<1>17. TasksOK(t)
  BY <1>11, <1>12, <1>13, <1>16, TypeParts DEF TasksOK
<1> QED
  BY <1>1, <1>2, <1>9, <1>10, <1>17, LessSame, ConnsAs, Combine

\* The index row is written.
LEMMA HelloIndexStep ==
  ASSUME IInv, NEW t \in Tasks, HelloIndex(t)
  PROVE  IInv'
<1> DEFINE T == tasks[t]
           U == [T EXCEPT !.pc = "opened"]
<1>1. /\ UNCHANGED <<outside, storage, conns, records, sentTo>> /\ T.pc = "insert"
      /\ tasks' = [tasks EXCEPT ![t] = U] /\ index' = [index EXCEPT ![T.boot] = "PENDING"]
  BY DEF HelloIndex
<1>2. index' \in [Boots -> Status \cup {NoStatus}]
  BY <1>1, TypeParts DEF Status, Live
<1>3. RestOK /\ now' = now /\ rev' = rev
  BY <1>1, <1>2, RestKept, TypeParts DEF outside, storage
<1>4. RowsOK
  BY <1>1, <1>3, RowsUnchanged, TypeParts DEF storage
<1>5. /\ U \in Task /\ U.pc = "opened" /\ U.kind = T.kind /\ U.boot = T.boot /\ U.snap = T.snap
      /\ U.conn = T.conn /\ U.who = T.who /\ U.queue = T.queue /\ U.proof = T.proof
  BY TypeParts DEF Task, PCs
<1> HIDE DEF U
<1>6. TasksOK(t)
  BY <1>1, <1>3, <1>4, <1>5, Moved DEF RowsOK
<1> QED
  BY <1>1, <1>3, <1>4, <1>6, ConnsAs, LessSame, Combine DEF RowsOK

\* The socket is bound to the boot it opened.
LEMMA HelloOpenedStep ==
  ASSUME IInv, NEW t \in Tasks, HelloOpened(t)
  PROVE  IInv'
<1> DEFINE T == tasks[t]
<1>1. /\ UNCHANGED <<outside, boots, challenges, contexts, d1, sentTo>> /\ T.pc = "opened"
      /\ Rearm(alarm) \/ UNCHANGED alarm
      /\ Finish(t) /\ conns' = [conns EXCEPT ![T.conn].att = T.boot]
  BY DEF HelloOpened
<1>2. RestOK /\ now' = now
  BY <1>1, RestKept, RearmType, TypeParts DEF d1
<1>3. RowsOK
  BY <1>1, <1>2, RowsUnchanged, TypeParts
<1>4. /\ T.conn # NULL /\ T.boot \in Boots /\ boots[T.boot].status # NoStatus
      /\ boots[T.boot].key = T.who
  BY <1>1, TypeParts DEF TaskInv, Task
<1>5. ConnsOK(t)
  BY <1>1, <1>3, <1>4, OwnConn, LessSame, ConnsAttached DEF RowsOK
<1> QED
  BY <1>1, <1>2, <1>3, <1>5, Finished, Combine

\* The proof was good: the socket is bound, unless the boot is over.
LEMMA ChallengeDecided ==
  ASSUME IInv, RowsOK, NEW t \in Tasks, NEW b \in Boots, NEW row \in Row, NEW cs, Less(cs),
         ChallengeDecide(t, tasks[t], b, row, cs),
         tasks[t].kind = "challenge", tasks[t].proof, tasks[t].boot = b,
         row.frame # 0 => boots[b].digest = row.frame
  PROVE  ConnsOK(t) /\ TasksOK(t)
<1> DEFINE T == tasks[t]
<1>1. T \in Task /\ TaskInv(t) /\ RowsKept /\ b # NULL
  BY TypeParts, BootAssumption DEF RowsOK
<1>2. T.conn # NULL /\ T.queue = {} /\ boots[b].status # NoStatus /\ boots[b].key = T.who
  BY <1>1 DEF TaskInv
<1>3. /\ T.conn \in Conns /\ Busy(T.conn) /\ T.who \in Clients
      /\ conns[T.conn].client = T.who
  BY <1>2, OwnConn
<1>4. CASE row.status \in Terminal
  <2>1. conns' = (IF cs[T.conn].att = b THEN cs ELSE Shut(t, cs, T.conn)) /\ Finish(t)
    BY <1>4 DEF ChallengeDecide
  <2> QED
    BY <1>1, <1>3, <2>1, ConnsAs, ConnsShut, Finished
<1>5. CASE row.status \notin Terminal
  <2> DEFINE U == [T EXCEPT !.pc = "attached", !.ev = "none", !.boot = b, !.snap = row]
  <2>1. conns' = [cs EXCEPT ![T.conn].att = b] /\ tasks' = [tasks EXCEPT ![t] = U]
    BY <1>5 DEF ChallengeDecide
  <2>2. /\ U \in Task /\ U.pc = "attached" /\ U.boot = b /\ U.snap = row /\ U.kind = T.kind
        /\ U.conn = T.conn /\ U.who = T.who /\ U.queue = T.queue /\ U.proof = T.proof
    BY <1>1 DEF Task, PCs
  <2> HIDE DEF U
  <2>3. tasks' \in [Tasks -> Task] /\ tasks'[t] = U
    BY <2>1, <2>2, TypeParts
  <2>4. ConnsOK(t)
    BY <1>2, <1>3, <2>1, ConnsAttached
  <2>5. conns'[T.conn].client = T.who
    <3>1. cs[T.conn].client = T.who /\ cs \in [Conns -> Conn]
      BY <1>3 DEF Less
    <3> QED
      BY <1>3, <2>1, <3>1 DEF Conn
  <2>6. boots'[b].status # NoStatus /\ boots'[b].key = T.who
        /\ (row.frame # 0 => boots'[b].digest = row.frame)
    BY <1>1, <1>2 DEF RowsKept
  <2>7. TaskInv(t)'
    BY <1>1, <1>2, <1>3, <2>2, <2>3, <2>5, <2>6 DEF TaskInv
  <2> QED
    BY <1>3, <2>1, <2>2, <2>3, <2>4, <2>7, TypeParts DEF TasksOK
<1> QED
  BY <1>4, <1>5

\* The proof is judged: refused, closed with the boot, or bound to it.
LEMMA ChallengeVerifiedStep ==
  ASSUME IInv, NEW t \in Tasks, ChallengeVerified(t)
  PROVE  IInv'
<1> DEFINE T == tasks[t]
           tk == TokenOf[T.snap.key]
<1>1. UNCHANGED <<outside, challenges, contexts, d1, sentTo>> /\ T.pc = "proof"
  BY DEF ChallengeVerified
<1>2. alarm' \in Nat => RestOK
  BY <1>1, RestKept, TypeParts DEF d1
<1>3. now' = now /\ sentTo' = sentTo
  BY <1>1 DEF outside
<1>4. T \in Task /\ TaskInv(t) /\ T.kind = "challenge" /\ T.conn # NULL /\ T.boot # NULL
  BY <1>1, TypeParts DEF TaskInv
<1>5. /\ T.boot \in Boots /\ T.snap \in Row /\ boots[T.boot].status # NoStatus
      /\ T.snap.frame # 0 => boots[T.boot].digest = T.snap.frame
  BY <1>4 DEF TaskInv, Task
<1>6. T.conn \in Conns
  BY <1>4, OwnConn
<1>7. T.proof /\ conns' = conns => Held(t, T, T.boot)
  BY <1>4, HeldTask, LessSame
<1>8. CASE conns' = Shut(t, conns, T.conn) /\ Finish(t) /\ UNCHANGED boots /\ alarm' \in Nat
  <2>1. RowsOK
    BY <1>3, <1>8, RowsUnchanged, TypeParts
  <2> QED
    BY <1>2, <1>6, <1>8, <2>1, LessSame, ConnsShut, Finished, Combine DEF RowsOK
<1>9. ASSUME T.proof, NEW ev \in Closing, Close(t, T, T.boot, T.snap, ev),
             UNCHANGED <<conns, alarm>>
      PROVE  IInv'
  <2>1. RowsOK /\ TasksOK(t)
    BY <1>3, <1>5, <1>7, <1>9, Closed
  <2> QED
    BY <1>2, <1>9, <2>1, TypeParts, ConnsAs, LessSame, Combine DEF RowsOK
<1>10. CASE T.proof /\ ChallengeDecide(t, T, T.boot, T.snap, conns) /\ UNCHANGED <<boots, alarm>>
  <2>1. RowsOK
    BY <1>3, <1>10, RowsUnchanged, TypeParts
  <2> QED
    BY <1>2, <1>4, <1>5, <1>10, <2>1, TypeParts, LessSame, ChallengeDecided, Combine
<1>11. Rearm(alarm) => alarm' \in Nat
  BY RearmType, TypeParts
<1>12. ExpireEvent(T.snap) \in Closing /\ "cancel" \in Closing
  BY ExpireCloses DEF Closing
<1>13. \/ conns' = Shut(t, conns, T.conn) /\ Finish(t) /\ UNCHANGED boots
          /\ (UNCHANGED alarm \/ Rearm(alarm))
       \/ /\ T.proof
          /\ \/ Close(t, T, T.boot, T.snap, "cancel")
             \/ Close(t, T, T.boot, T.snap, ExpireEvent(T.snap))
          /\ UNCHANGED <<conns, alarm>>
       \/ T.proof /\ ChallengeDecide(t, T, T.boot, T.snap, conns) /\ UNCHANGED <<boots, alarm>>
  BY DEF ChallengeVerified
<1> QED
  BY <1>8, <1>9, <1>10, <1>11, <1>12, <1>13, TypeParts

\* A payload leaves the object: only for sockets of the boot's own workload.
LEMMA Delivered ==
  ASSUME IInv, NEW t \in Tasks, NEW row \in Row, NEW targets \in SUBSET Conns,
         Deliver(t, tasks[t], row, targets),
         tasks[t].boot # NULL, tasks[t].pc # "proof",
         \A c \in targets : conns[c].st = "open" =>
           conns[c].client \in Clients /\ conns[c].client = boots[tasks[t].boot].key,
         now' = now, conns' = conns
  PROVE  RowsOK /\ TasksOK(t) /\ alarm' \in Nat
<1> DEFINE T == tasks[t]
           ev == IF row.status = "APPROVED" THEN "deliver" ELSE "redeliver"
           sends == ~(row.frame = 0 \/ targets = {} \/ ~Allowed(row.status, ev))
<1>0. PICK b \in Boots : b = tasks[t].boot
  BY TypeParts DEF Task
<1>1. T \in Task /\ TaskInv(t) /\ T.boot = b /\ boots[b].status # NoStatus
  BY <1>0, TypeParts DEF TaskInv
<1>2. CASE ~sends
  <2>1. AfterDeliver(t, T)
    BY <1>2 DEF Deliver
  <2>2. Finish(t) /\ (Rearm(alarm) \/ UNCHANGED alarm) /\ UNCHANGED <<boots, sentTo>>
    BY <2>1 DEF AfterDeliver
  <2> QED
    BY <2>2, Finished, RearmType, RowsUnchanged, TypeParts
<1>3. CASE sends
  <2> DEFINE got == {conns[c].client : c \in {x \in targets : conns[x].st = "open"}}
             U == [T EXCEPT !.snap = NoRow]
  <2>1. /\ boots' = [boots EXCEPT ![b].status = Target(ev)]
        /\ sentTo' = [sentTo EXCEPT ![b] = @ \cup got]
        /\ tasks' = [tasks EXCEPT ![t] =
                       [T EXCEPT !.pc = FirstWrite(ev), !.ev = ev, !.snap = NoRow]]
        /\ UNCHANGED alarm
    BY <1>0, <1>3 DEF Deliver
  <2>2. Target(ev) = "DELIVERED" /\ ev \in Events /\ FirstWrite(ev) \in {"mirror", "audit"}
    BY DEF Target, Events, FirstWrite
  <2>3. got \subseteq Clients /\ got \subseteq {boots[b].key}
    BY <1>0
  <2> HIDE DEF got, ev
  <2>4. /\ boots' \in [Boots -> Row]
        /\ boots'[b] = [boots[b] EXCEPT !.status = "DELIVERED"]
    BY ZenonT(60), <1>1, <2>1, <2>2, TypeParts DEF Row, Status, Live
  <2>5. sentTo' \in [Boots -> SUBSET Clients] /\ sentTo'[b] = sentTo[b] \cup got
    BY <1>1, <2>1, <2>3, TypeParts
  <2>6. RowInv(b)'
    BY <1>1, <2>3, <2>4, <2>5, TypeParts DEF RowInv, Row, NoStatus
  <2>7. \A x \in Boots \ {b} : RowInv(x)'
    BY <2>1, TypeParts DEF RowInv
  <2>8. RowsKept
    BY <1>1, <2>1, <2>4, TypeParts DEF RowsKept, Row, NoStatus
  <2>9. RowsOK
    BY <2>4, <2>5, <2>6, <2>7, <2>8 DEF RowsOK
  <2>10. Held(t, T, b)
    <3>1. T.kind = "challenge" => T.proof
      BY <1>1 DEF TaskInv
    <3> QED
      BY <1>0, <3>1, LessSame, HeldTask, BootAssumption
  <2>11. /\ U \in Task /\ U.queue = T.queue /\ U.kind = T.kind /\ U.conn = T.conn
         /\ U.who = T.who /\ U.proof = T.proof /\ U.snap.frame = 0
    BY <1>1, IdleType DEF Task, NoRow
  <2>12. Held(t, U, b)
    BY <2>10, <2>11 DEF Held
  <2>13. [T EXCEPT !.pc = FirstWrite(ev), !.ev = ev, !.snap = NoRow]
           = [U EXCEPT !.pc = FirstWrite(ev), !.ev = ev, !.boot = b]
    BY <1>1 DEF Task
  <2>14. tasks' = [tasks EXCEPT ![t] = [U EXCEPT !.pc = FirstWrite(ev), !.ev = ev, !.boot = b]]
    BY <2>1, <2>13
  <2> HIDE DEF U
  <2>15. TasksOK(t)
    <3> DEFINE pc == FirstWrite(ev)
    <3>1. /\ pc \in {"mirror", "audit"} /\ ev \in Events
          /\ tasks' = [tasks EXCEPT ![t] = [U EXCEPT !.pc = pc, !.ev = ev, !.boot = b]]
      BY <2>2, <2>14
    <3> HIDE DEF pc
    <3>2. boots[b].status # NoStatus /\ Held(t, U, b) /\ RowsKept
      BY <1>1, <2>8, <2>12
    <3> QED
      BY <3>1, <3>2, TasksSuspended
  <2> QED
    BY <2>1, <2>9, <2>15, TypeParts
<1> QED
  BY <1>2, <1>3

\* A resumed boot is redelivered from the snapshot.
LEMMA AttachedStep ==
  ASSUME IInv, NEW t \in Tasks, Attached(t)
  PROVE  IInv'
<1> DEFINE T == tasks[t]
<1>1. UNCHANGED <<outside, challenges, contexts, conns, d1>> /\ T.pc = "attached"
  BY DEF Attached
<1>2. (alarm' \in Nat => RestOK) /\ now' = now
  BY <1>1, RestKept, TypeParts DEF d1, outside
<1>3. T.kind = "challenge" /\ T.boot # NULL /\ T.conn # NULL /\ T.snap \in Row
      /\ boots[T.boot].key = T.who
  BY <1>1, TypeParts DEF TaskInv, Task
<1>4. RowsOK /\ TasksOK(t) /\ alarm' \in Nat
  <2>1. CASE Finish(t) /\ UNCHANGED <<boots, sentTo, alarm>>
    BY <1>2, <2>1, Finished, RowsUnchanged, TypeParts
  <2>2. CASE Deliver(t, T, T.snap, {T.conn})
    <3>1. T.conn \in Conns /\ T.who \in Clients /\ conns[T.conn].client = T.who
      BY <1>3, OwnConn
    <3> QED
      BY <1>1, <1>2, <1>3, <2>2, <3>1, Delivered
  <2> QED
    BY <2>1, <2>2 DEF Attached
<1> QED
  BY <1>1, <1>2, <1>4, ConnsAs, LessSame, Combine DEF RowsOK

\* An approved boot is delivered to the sockets bound to it.
LEMMA AfterApproveStep ==
  ASSUME IInv, NEW t \in Tasks, AfterApprove(t)
  PROVE  IInv'
<1> DEFINE T == tasks[t]
<1>1. /\ UNCHANGED <<outside, challenges, contexts, conns, d1>> /\ T.pc = "audit"
      /\ Deliver(t, T, boots[T.boot], SocketsOf(conns, T.boot))
  BY DEF AfterApprove
<1>2. (alarm' \in Nat => RestOK) /\ now' = now
  BY <1>1, RestKept, TypeParts DEF d1, outside
<1>3. T.boot # NULL /\ T.boot \in Boots /\ boots[T.boot] \in Row
  BY <1>1, TypeParts DEF TaskInv, Task
<1>4. \A c \in SocketsOf(conns, T.boot) :
        conns[c].client \in Clients /\ conns[c].client = boots[T.boot].key
  BY <1>3, TypeParts DEF SocketsOf, ConnInv
<1>5. SocketsOf(conns, T.boot) \in SUBSET Conns
  BY DEF SocketsOf
<1>6. RowsOK /\ TasksOK(t) /\ alarm' \in Nat
  BY <1>1, <1>2, <1>3, <1>4, <1>5, Delivered
<1> QED
  BY <1>1, <1>2, <1>6, ConnsAs, LessSame, Combine DEF RowsOK

\* A delivery was mirrored.
LEMMA AfterDeliveryStep ==
  ASSUME IInv, NEW t \in Tasks, AfterDelivery(t)
  PROVE  IInv'
<1>1. /\ UNCHANGED <<outside, challenges, contexts, conns, d1>>
      /\ Finish(t) /\ (Rearm(alarm) \/ UNCHANGED alarm) /\ UNCHANGED <<boots, sentTo>>
  BY DEF AfterDelivery, AfterDeliver
<1>2. RestOK /\ now' = now
  BY <1>1, RestKept, RearmType, TypeParts DEF d1, outside
<1>3. RowsOK
  BY <1>1, <1>2, RowsUnchanged, TypeParts
<1> QED
  BY <1>1, <1>2, <1>3, Finished, ConnsAs, LessSame, Combine DEF RowsOK

\* An approval is refused.
LEMMA ApprovalRefusedStep ==
  ASSUME IInv, NEW t \in Tasks, ApprovalRefused(t)
  PROVE  IInv'
<1>1. UNCHANGED <<outside, storage, conns, d1, sentTo>> /\ Finish(t)
  BY DEF ApprovalRefused
<1>2. RestOK /\ now' = now
  BY <1>1, RestKept, TypeParts DEF d1, outside, storage
<1>3. RowsOK
  BY <1>1, <1>2, RowsUnchanged, TypeParts DEF storage
<1> QED
  BY <1>1, <1>2, <1>3, Finished, ConnsAs, LessSame, Combine DEF RowsOK

\* The prepared context names the boot of its handler.
LEMMA PrepareRequestStep ==
  ASSUME IInv, NEW t \in Tasks, PrepareRequest(t)
  PROVE  IInv'
<1> DEFINE T == tasks[t]
           exp == IF now + ContextTtl < T.snap.pending THEN now + ContextTtl
                                                       ELSE T.snap.pending
<1>1. UNCHANGED <<outside, storage, conns, d1, sentTo>> /\ T.pc = "state" /\ T.kind = "prepare"
  BY DEF PrepareRequest
<1>2. RestOK /\ now' = now /\ rev' = rev
  BY <1>1, RestKept, TypeParts DEF d1, outside, storage
<1>3. RowsOK
  BY <1>1, <1>2, RowsUnchanged, TypeParts DEF storage
<1>4. PICK r \in T.rev .. rev :
        tasks' = [tasks EXCEPT ![t] = [T EXCEPT !.pc = "hash", !.ctx =
          [boot |-> T.boot, rev |-> r, exp |-> exp, pay |-> PayloadDeadline]]]
  BY DEF PrepareRequest
<1> DEFINE x == [boot |-> T.boot, rev |-> r, exp |-> exp, pay |-> PayloadDeadline]
           U == [T EXCEPT !.pc = "hash", !.ctx = x]
<1>5. T \in Task /\ TaskInv(t)
  BY TypeParts
<1>6. T.boot \in Boots \cup {NULL} /\ T.snap.pending \in Nat /\ T.rev \in 1 .. rev
  BY <1>1, <1>5 DEF Task, Row, TaskInv
<1>7. exp \in Nat /\ PayloadDeadline \in Nat /\ r \in Nat
  BY <1>6, TypeParts, BootAssumption DEF PayloadDeadline
<1> HIDE DEF exp
<1>8. x \in Context /\ x.boot = T.boot
  BY <1>6, <1>7 DEF Context
<1> HIDE DEF x
<1>9. /\ U \in Task /\ U.pc = "hash" /\ U.ctx = x /\ U.rev = T.rev
      /\ U.kind = T.kind /\ U.boot = T.boot /\ U.snap = T.snap
      /\ U.conn = T.conn /\ U.who = T.who /\ U.queue = T.queue /\ U.proof = T.proof
  BY <1>5, <1>8 DEF Task, PCs
<1>10. tasks' = [tasks EXCEPT ![t] = U]
  BY <1>4 DEF x, exp
<1> HIDE DEF U
<1>11. TasksOK(t)
  BY <1>1, <1>2, <1>3, <1>6, <1>8, <1>9, <1>10, Moved DEF RowsOK
<1> QED
  BY <1>1, <1>2, <1>3, <1>11, ConnsAs, LessSame, Combine DEF RowsOK

\* The prepared context is stored.
LEMMA PrepareStoreStep ==
  ASSUME IInv, NEW t \in Tasks, PrepareStore(t)
  PROVE  IInv'
<1> DEFINE T == tasks[t]
<1>1. /\ UNCHANGED <<outside, boots, challenges, alarm, conns, d1, sentTo>>
      /\ T.pc = "hash" /\ T.kind = "prepare" /\ Finish(t)
  BY DEF PrepareStore
<1>2. T.ctx \in Stored
  BY <1>1, TypeParts DEF TaskInv, Task, Stored
<1>3. contexts' \subseteq Stored
  BY <1>2, TypeParts DEF PrepareStore
<1>4. RestOK /\ now' = now
  BY <1>1, <1>3, RestKept, TypeParts DEF d1, outside
<1>5. RowsOK
  BY <1>1, <1>4, RowsUnchanged, TypeParts
<1> QED
  BY <1>1, <1>4, <1>5, Finished, ConnsAs, LessSame, Combine DEF RowsOK

\* The revision about to be released was read between the start of the handler
\* and now.
LEMMA CompleteCheckStep ==
  ASSUME IInv, NEW t \in Tasks, CompleteCheck(t)
  PROVE  IInv'
<1> DEFINE T == tasks[t]
           alive == TokenOf[T.snap.key] \notin revoked
<1>1. UNCHANGED <<outside, storage, conns, d1, sentTo>> /\ T.pc = "state" /\ T.kind = "complete"
  BY DEF CompleteCheck
<1>2. RestOK /\ now' = now /\ rev' = rev
  BY <1>1, RestKept, TypeParts DEF d1, outside, storage
<1>3. RowsOK
  BY <1>1, <1>2, RowsUnchanged, TypeParts DEF storage
<1>4. PICK r \in T.rev .. rev :
        tasks' = [tasks EXCEPT ![t] = [T EXCEPT !.pc = "hash", !.rev = r, !.tok = alive]]
  BY DEF CompleteCheck
<1> DEFINE U == [T EXCEPT !.pc = "hash", !.rev = r, !.tok = alive]
<1>5. T \in Task /\ T.rev \in 1 .. rev /\ rev \in Nat
  BY <1>1, TypeParts DEF TaskInv
<1>6. r \in 1 .. rev /\ r \in Nat
  BY <1>5
<1>7. /\ U \in Task /\ U.pc = "hash" /\ U.rev = r
      /\ U.kind = T.kind /\ U.boot = T.boot /\ U.snap = T.snap
      /\ U.conn = T.conn /\ U.who = T.who /\ U.queue = T.queue /\ U.proof = T.proof
  BY ZenonT(60), <1>5, <1>6 DEF Task, PCs
<1>8. tasks' = [tasks EXCEPT ![t] = U]
  BY <1>4
<1> HIDE DEF U
<1>9. TasksOK(t)
  BY <1>1, <1>2, <1>3, <1>6, <1>7, <1>8, Moved DEF RowsOK
<1> QED
  BY <1>1, <1>2, <1>3, <1>9, ConnsAs, LessSame, Combine DEF RowsOK

\* The approval is written: the row is pending as it is now, so it had no digest,
\* and the payload outlives the clock it was checked against.
LEMMA ApproveStep ==
  ASSUME IInv, NEW t \in Tasks, Approve(t)
  PROVE  IInv'
<1> DEFINE T == tasks[t]
<1>1. /\ UNCHANGED <<outside, challenges, alarm, conns, d1, sentTo>>
      /\ T.pc = "hash" /\ T.kind = "complete"
  BY DEF Approve
<1>2. now' = now /\ rev' = rev /\ sentTo' = sentTo
  BY <1>1 DEF outside
<1>3. contexts' \subseteq contexts => RestOK
  BY <1>1, RestKept, TypeParts DEF d1
<1>4. CASE Finish(t) /\ UNCHANGED <<boots, contexts>>
  <2>1. RowsOK
    BY <1>2, <1>4, RowsUnchanged, TypeParts
  <2> QED
    BY <1>1, <1>3, <1>4, <2>1, Finished, ConnsAs, LessSame, Combine DEF RowsOK
<1>5. ASSUME StillApprovable(T),
             boots' = [boots EXCEPT ![T.boot] =
                [@ EXCEPT !.status = Target("approve"), !.payload = T.ctx.pay,
                          !.frame = T.rev, !.digest = T.rev]],
             contexts' = {x \in contexts : x.boot # T.boot},
             tasks' = [tasks EXCEPT ![t] = [T EXCEPT !.pc = "mirror", !.ev = "approve"]]
      PROVE  IInv'
  <2>0. PICK b \in Boots : b = T.boot
    BY <1>1, TypeParts DEF TaskInv, Task
  <2>1. T \in Task /\ TaskInv(t) /\ RowInv(b) /\ boots[b] \in Row /\ boots[b].status = "PENDING"
    BY <1>5, <2>0, TypeParts DEF StillApprovable
  <2>2. /\ T.rev \in 1 .. MaxRev /\ T.rev \in Nat
        /\ T.ctx.pay \in Nat /\ now < T.ctx.pay /\ boots[b].created \in Nat
    <3>1. T.rev \in 1 .. rev /\ rev \in 1 .. MaxRev /\ MaxRev \in Nat
      BY <1>1, <2>1, TypeParts, BootAssumption DEF TaskInv
    <3>2. T.ctx.pay \in Nat /\ boots[b].created \in Nat /\ now \in Nat
      BY <2>1, TypeParts DEF Task, Context, Row
    <3> QED
      BY <1>5, <3>1, <3>2 DEF StillApprovable
  <2>3. boots[b].key \in Clients /\ boots[b].created <= now /\ boots[b].digest = 0
    BY <2>1 DEF RowInv, NoStatus
  <2> DEFINE new == [boots[b] EXCEPT !.status = "APPROVED", !.payload = T.ctx.pay,
                                     !.frame = T.rev, !.digest = T.rev]
  <2>4. /\ new \in Row /\ new.status = "APPROVED" /\ new.payload = T.ctx.pay
        /\ new.frame = T.rev /\ new.digest = T.rev
        /\ new.key = boots[b].key /\ new.created = boots[b].created
    BY <2>1, <2>2 DEF Row, Status, Live
  <2>5. boots' = [boots EXCEPT ![b] = new]
    BY <1>5, <2>0 DEF Target
  <2> HIDE DEF new
  <2>6. boots' \in [Boots -> Row] /\ boots'[b] = new
    BY <2>4, <2>5, TypeParts
  <2>7. RowInv(b)'
    <3>1. new.payload > new.created /\ new.frame # 0 /\ new.digest \in 0 .. MaxRev
      BY <2>2, <2>3, <2>4, TypeParts
    <3>2. sentTo'[b] \subseteq {new.key}
      BY <1>2, <2>1, <2>4 DEF RowInv
    <3> QED
      BY <1>2, <2>3, <2>4, <2>6, <3>1, <3>2 DEF RowInv, NoStatus
  <2>8. \A x \in Boots \ {b} : RowInv(x)'
    BY <1>2, <2>5, TypeParts DEF RowInv
  <2>9. RowsKept
    BY <2>3, <2>4, <2>5, <2>6, TypeParts DEF RowsKept, NoStatus
  <2>10. RowsOK
    BY <1>2, <2>6, <2>7, <2>8, <2>9, TypeParts DEF RowsOK
  <2> DEFINE U == [T EXCEPT !.pc = "mirror", !.ev = "approve"]
  <2>11. /\ U \in Task /\ U.pc = "mirror" /\ U.ev \in Events
         /\ U.kind = T.kind /\ U.boot = T.boot /\ U.snap = T.snap
         /\ U.conn = T.conn /\ U.who = T.who /\ U.queue = T.queue /\ U.proof = T.proof
    BY <2>1 DEF Task, PCs, Events
  <2>12. tasks' = [tasks EXCEPT ![t] = U]
    BY <1>5
  <2> HIDE DEF U
  <2>13. TasksOK(t)
    BY <1>1, <1>2, <2>0, <2>9, <2>11, <2>12, Moved, BootAssumption
  <2>14. RestOK
    BY <1>3, <1>5
  <2> QED
    BY <1>1, <2>9, <2>10, <2>13, <2>14, ConnsAs, LessSame, Combine
<1> QED
  BY <1>4, <1>5 DEF Approve

-----------------------------------------------------------------------------
(* What follows a transition *)

\* The index follows, or the handler ends for want of an index row.
LEMMA MirrorStep ==
  ASSUME IInv, NEW t \in Tasks, Mirror(t)
  PROVE  IInv'
<1> DEFINE T == tasks[t]
<1>1. UNCHANGED <<outside, boots, challenges, contexts, conns, records, sentTo>> /\ T.pc = "mirror"
  BY DEF Mirror
<1>2. /\ index' \in [Boots -> Status \cup {NoStatus}] /\ alarm' \in Nat => RestOK
      /\ now' = now /\ rev' = rev
  BY <1>1, RestKept, TypeParts DEF outside
<1>3. RowsOK
  BY <1>1, <1>2, RowsUnchanged, TypeParts
<1>4. CASE Finish(t) /\ RetryAlarm({t}) /\ UNCHANGED index
  BY <1>1, <1>2, <1>3, <1>4, RetryType, TypeParts, Finished, ConnsAs, LessSame, Combine DEF RowsOK
<1>5. ASSUME NEW pc \in {"record", "audit"},
             index' = [index EXCEPT ![T.boot] = Target(T.ev)],
             tasks' = [tasks EXCEPT ![t].pc = pc], UNCHANGED alarm
      PROVE  IInv'
  <2> DEFINE U == [T EXCEPT !.pc = pc]
  <2>1. T \in Task /\ T.boot # NULL /\ T.ev \in Events
    BY <1>1, TypeParts DEF TaskInv
  <2>2. /\ U \in Task /\ U.pc = pc /\ U.ev = T.ev
        /\ U.kind = T.kind /\ U.boot = T.boot /\ U.snap = T.snap
        /\ U.conn = T.conn /\ U.who = T.who /\ U.queue = T.queue /\ U.proof = T.proof
    BY <2>1 DEF Task, PCs
  <2>3. tasks' = [tasks EXCEPT ![t] = U]
    BY <1>5
  <2> HIDE DEF U
  <2>4. TasksOK(t)
    BY <1>1, <1>2, <1>3, <2>1, <2>2, <2>3, Moved DEF RowsOK
  <2>5. RestOK
    BY <1>2, <1>5, <2>1, TypeParts, TargetType
  <2> QED
    BY <1>1, <1>3, <2>4, <2>5, ConnsAs, LessSame, Combine DEF RowsOK
<1> QED
  BY <1>4, <1>5 DEF Mirror

\* The approval record is inserted, or refused as a second one.
LEMMA RecordStep ==
  ASSUME IInv, NEW t \in Tasks, Record(t)
  PROVE  IInv'
<1> DEFINE T == tasks[t]
<1>1. UNCHANGED <<outside, storage, conns, index, sentTo>> /\ T.pc = "record"
  BY DEF Record
<1>2. (records' \in [Boots -> Nat] => RestOK) /\ now' = now /\ rev' = rev
  BY <1>1, RestKept, TypeParts DEF outside, storage
<1>3. RowsOK
  BY <1>1, <1>2, RowsUnchanged, TypeParts DEF storage
<1>4. CASE Finish(t) /\ UNCHANGED records
  BY <1>1, <1>2, <1>3, <1>4, TypeParts, Finished, ConnsAs, LessSame, Combine DEF RowsOK
<1>5. ASSUME records' = [records EXCEPT ![T.boot] = T.ctx.rev],
             tasks' = [tasks EXCEPT ![t].pc = "audit"]
      PROVE  IInv'
  <2> DEFINE U == [T EXCEPT !.pc = "audit"]
  <2>1. T \in Task /\ T.boot # NULL /\ T.ev \in Events /\ T.ctx.rev \in Nat
    BY <1>1, TypeParts DEF TaskInv, Task, Context
  <2>2. /\ U \in Task /\ U.pc = "audit" /\ U.ev = T.ev
        /\ U.kind = T.kind /\ U.boot = T.boot /\ U.snap = T.snap
        /\ U.conn = T.conn /\ U.who = T.who /\ U.queue = T.queue /\ U.proof = T.proof
    BY <2>1 DEF Task, PCs
  <2>3. tasks' = [tasks EXCEPT ![t] = U]
    BY <1>5
  <2> HIDE DEF U
  <2>4. TasksOK(t)
    BY <1>1, <1>2, <1>3, <2>1, <2>2, <2>3, Moved DEF RowsOK
  <2>5. RestOK
    BY <1>2, <1>5, <2>1, TypeParts
  <2> QED
    BY <1>1, <1>3, <2>4, <2>5, ConnsAs, LessSame, Combine DEF RowsOK
<1> QED
  BY <1>4, <1>5 DEF Record

\* The table of sockets after #sendTerminal, seen by the handler that called it.
LEMMA AfterTerminal ==
  ASSUME IInv, NEW t \in Tasks, tasks[t].pc = "audit"
  PROVE  /\ tasks[t] \in Task /\ TaskInv(t)
         /\ tasks[t].boot \in Boots /\ tasks[t].boot # NULL
         /\ Less(ShutAll(conns, tasks[t].boot))
         /\ tasks[t].kind = "challenge" => tasks[t].proof /\ tasks[t].queue = {}
BY TypeParts, LessShutAll DEF TaskInv, Task

\* The list a handler works through goes on after a boot of it is closed.
LEMMA QueueGoesOn ==
  ASSUME IInv, NEW t \in Tasks, tasks[t].pc = "audit", tasks[t].queue # {},
         NextInQueue(t, tasks[t]), conns' = ShutAll(conns, tasks[t].boot),
         sentTo' = sentTo, now' = now, RestOK
  PROVE  IInv'
<1>1. tasks[t] \in Task /\ tasks[t].kind # "challenge" /\ Less(ShutAll(conns, tasks[t].boot))
  BY AfterTerminal
<1>2. \A b \in Boots : Held(t, tasks[t], b)
  BY <1>1, HeldTask
<1>3. RowsOK /\ TasksOK(t)
  BY <1>1, <1>2, ClosedQueue
<1> QED
  BY <1>1, <1>3, ConnsAs, Combine DEF RowsOK

\* The five places an expiry returns to.
LEMMA AfterExpireStep ==
  ASSUME IInv, NEW t \in Tasks, AfterExpire(t)
  PROVE  IInv'
<1> DEFINE T == tasks[t]
           cs == ShutAll(conns, T.boot)
<1>1. /\ UNCHANGED <<outside, contexts, d1, sentTo>>
      /\ T.pc = "audit" /\ T.ev \in {"expirePending", "expirePayload"}
  BY DEF AfterExpire
<1>2. now' = now /\ sentTo' = sentTo
  BY <1>1 DEF outside
<1>3. alarm' \in Nat /\ challenges' \in [Boots -> Challenge] => RestOK
  BY <1>1, RestKept, TypeParts DEF d1
<1>4. /\ T \in Task /\ TaskInv(t) /\ T.boot \in Boots /\ Less(cs)
      /\ T.kind = "challenge" => T.proof /\ T.queue = {}
  BY <1>1, AfterTerminal
<1>5. Rearm(alarm) => alarm' \in Nat
  BY RearmType, TypeParts
<1>6. UNCHANGED boots => RowsOK
  BY <1>2, RowsUnchanged, TypeParts
<1>7. CASE T.queue # {} /\ NextInQueue(t, T) /\ conns' = cs /\ UNCHANGED <<challenges, alarm>>
  BY <1>1, <1>2, <1>3, <1>7, TypeParts, QueueGoesOn
<1>8. CASE /\ T.kind = "hello" /\ T.queue = {} /\ HelloAdmit(t, T, cs)
           /\ UNCHANGED <<boots, challenges, alarm>>
  <2>1. RestOK /\ RowsOK
    BY <1>3, <1>6, <1>8, TypeParts
  <2>2. T.conn # NULL /\ T.snap.frame = 0
    BY <1>4, <1>8 DEF TaskInv
  <2>3. /\ T.conn \in Conns /\ T.who \in Clients /\ cs[T.conn].client = T.who
    BY <1>4, <2>2, OwnConn DEF Less
  <2> HIDE DEF cs
  <2>4. ConnsOK(t) /\ TasksOK(t)
    BY <1>4, <1>8, <2>1, <2>2, <2>3, Admitted
  <2> QED
    BY <2>1, <2>4, Combine
<1>9. CASE Rearm(alarm) /\ Finish(t) /\ conns' = cs /\ UNCHANGED <<boots, challenges>>
  BY <1>3, <1>4, <1>5, <1>6, <1>9, TypeParts, Finished, ConnsAs, Combine DEF RowsOK
<1>10. CASE T.kind = "resume" /\ Rearm(alarm) /\ ResumeDecide(t, T.conn, T.boot, cs)
            /\ UNCHANGED boots
  <2>1. T.conn # NULL
    BY <1>4, <1>10 DEF TaskInv
  <2>2. T.conn \in Conns
    BY <2>1, OwnConn
  <2> HIDE DEF cs
  <2>3. ConnsOK(t) /\ TasksOK(t) /\ challenges' \in [Boots -> Challenge]
    BY <1>4, <1>6, <1>10, <2>2, ResumeDecided
  <2> QED
    BY <1>3, <1>5, <1>6, <1>10, <2>3, Combine
<1>11. CASE T.kind = "challenge" /\ Rearm(alarm)
            /\ ChallengeDecide(t, T, T.boot, boots[T.boot], cs)
            /\ UNCHANGED <<boots, challenges>>
  <2>1. RestOK /\ RowsOK
    BY <1>3, <1>5, <1>6, <1>11, TypeParts
  <2>2. boots[T.boot] \in Row
        /\ (boots[T.boot].frame # 0 => boots[T.boot].digest = boots[T.boot].frame)
    BY <1>4, TypeParts DEF RowInv
  <2> HIDE DEF cs
  <2>3. ConnsOK(t) /\ TasksOK(t)
    BY <1>4, <1>11, <2>1, <2>2, ChallengeDecided
  <2> QED
    BY <2>1, <2>3, Combine
<1> QED
  BY <1>7, <1>8, <1>9, <1>10, <1>11 DEF AfterExpire

\* The places a cancel returns to.
LEMMA AfterCancelStep ==
  ASSUME IInv, NEW t \in Tasks, AfterCancel(t)
  PROVE  IInv'
<1> DEFINE T == tasks[t]
           cs == ShutAll(conns, T.boot)
<1>1. UNCHANGED <<outside, challenges, contexts, d1, sentTo>> /\ T.pc = "audit"
  BY DEF AfterCancel
<1>2. now' = now /\ sentTo' = sentTo
  BY <1>1 DEF outside
<1>3. alarm' \in Nat => RestOK
  BY <1>1, RestKept, TypeParts DEF d1
<1>4. T \in Task /\ TaskInv(t) /\ Less(cs)
  BY <1>1, AfterTerminal
<1>5. CASE T.queue # {}
  <2>1. NextInQueue(t, T) /\ conns' = cs /\ UNCHANGED alarm
    BY <1>5 DEF AfterCancel
  <2> QED
    BY <1>1, <1>2, <1>3, <1>5, <2>1, TypeParts, QueueGoesOn
<1>6. CASE T.queue = {}
  <2>1. /\ conns' = IF T.kind = "challenge" THEN Shut(t, cs, T.conn) ELSE cs
        /\ Rearm(alarm) /\ Finish(t) /\ UNCHANGED boots
    BY <1>6 DEF AfterCancel
  <2>2. RowsOK /\ RestOK /\ RowsKept
    BY <1>2, <1>3, <2>1, RowsUnchanged, RearmType, TypeParts DEF RowsOK
  <2> HIDE DEF cs
  <2>3. CASE T.kind = "challenge"
    <3>1. T.conn # NULL
      BY <1>4, <2>3 DEF TaskInv
    <3>2. ConnsOK(t)
      BY <1>4, <2>1, <2>2, <2>3, <3>1, OwnConn, ConnsShut
    <3> QED
      BY <2>1, <2>2, <3>2, Finished, Combine
  <2>4. CASE T.kind # "challenge"
    BY <1>4, <2>1, <2>2, <2>4, ConnsAs, Finished, Combine
  <2> QED
    BY <2>3, <2>4
<1> QED
  BY <1>5, <1>6

\* The end of decline.
LEMMA AfterDeclineStep ==
  ASSUME IInv, NEW t \in Tasks, AfterDecline(t)
  PROVE  IInv'
<1>1. /\ UNCHANGED <<outside, boots, challenges, contexts, d1, sentTo>>
      /\ conns' = ShutAll(conns, tasks[t].boot) /\ Rearm(alarm) /\ Finish(t)
      /\ tasks[t].pc = "audit"
  BY DEF AfterDecline
<1>2. RestOK /\ now' = now
  BY <1>1, RestKept, RearmType, TypeParts DEF d1
<1>3. RowsOK
  BY <1>1, <1>2, RowsUnchanged, TypeParts
<1> QED
  BY <1>1, <1>2, <1>3, AfterTerminal, Finished, ConnsAs, Combine DEF RowsOK

\* The end of boot.received.
LEMMA AfterConsumeStep ==
  ASSUME IInv, NEW t \in Tasks, AfterConsume(t)
  PROVE  IInv'
<1> DEFINE T == tasks[t]
<1>1. /\ UNCHANGED <<outside, boots, challenges, contexts, d1, sentTo>>
      /\ conns' = Shut(t, conns, T.conn) /\ Finish(t) /\ (Rearm(alarm) \/ UNCHANGED alarm)
  BY DEF AfterConsume
<1>2. RestOK /\ now' = now
  BY <1>1, RestKept, RearmType, TypeParts DEF d1
<1>3. RowsOK
  BY <1>1, <1>2, RowsUnchanged, TypeParts
<1>4. ConnsOK(t)
  <2>1. CASE T.conn = NULL
    <3>1. conns' = conns
      BY <1>1, <2>1, TypeParts, BootAssumption DEF Shut
    <3> QED
      BY <1>3, <3>1, LessSame, ConnsAs DEF RowsOK
  <2>2. CASE T.conn # NULL
    BY <1>1, <1>3, <2>2, OwnConn, LessSame, ConnsShut DEF RowsOK
  <2> QED
    BY <2>1, <2>2
<1> QED
  BY <1>1, <1>2, <1>3, <1>4, Finished, Combine

-----------------------------------------------------------------------------
\* The object begins empty.
LEMMA InitInv == Init => IInv
<1> SUFFICES ASSUME Init PROVE IInv
  OBVIOUS
<1> USE BootAssumption DEF Init
<1>1. NoRow \in Row /\ NoChallenge \in Challenge /\ NoConn \in Conn
  BY DEF NoRow, Row, NoChallenge, Challenge, NoConn, Conn
<1>2. Idle \in Task
  BY <1>1 DEF Idle, Task, NoContext, Context, PCs, Kinds
<1>3. TypeOK
  BY <1>1, <1>2 DEF TypeOK
<1>4. rev \in 1 .. MaxRev
  OBVIOUS
<1>5. \A b \in Boots : RowInv(b)
  BY DEF RowInv, NoRow, NoStatus
<1>6. \A c \in Conns : ConnInv(c)
  BY DEF ConnInv, NoConn
<1>7. \A t \in Tasks : TaskInv(t)
  BY DEF TaskInv, Idle, NoRow
<1> QED
  BY <1>3, <1>4, <1>5, <1>6, <1>7 DEF IInv

-----------------------------------------------------------------------------
(* Every step, and what follows *)

\* Every step keeps the invariant.
LEMMA NextInv == IInv /\ [Next]_vars => IInv'
<1> SUFFICES ASSUME IInv, [Next]_vars PROVE IInv'
  OBVIOUS
<1>1. CASE World
  BY <1>1, TickStep, ConnectStep, DisconnectStep, RevokeStep, ChangeVaultStep, RestartStep
  DEF World
<1>2. ASSUME NEW t \in Tasks, Start(t) PROVE IInv'
  BY <1>2, HelloStep, ResumeStep, ChallengeResponseStep, ReceivedStep, PrepareStep,
     CompleteStep, RefusalStep, CancelAllStep, AlarmStep DEF Start
<1>3. ASSUME NEW t \in Tasks, Continue(t) PROVE IInv'
  BY <1>3, HelloMakeStep, HelloInsertStep, HelloIndexStep, HelloOpenedStep, ChallengeVerifiedStep,
     AttachedStep, ApprovalRefusedStep, PrepareRequestStep, PrepareStoreStep,
     CompleteCheckStep, ApproveStep, MirrorStep, RecordStep, AfterExpireStep,
     AfterCancelStep, AfterDeclineStep, AfterConsumeStep, AfterApproveStep,
     AfterDeliveryStep DEF Continue
<1>4. ASSUME NEW t \in Tasks, Throw(t) PROVE IInv'
  BY <1>4, ThrowStep
<1>5. CASE UNCHANGED vars
  BY <1>5 DEF vars, IInv, TypeOK, RowInv, ConnInv, TaskInv, Fresh
<1> QED
  BY <1>1, <1>2, <1>3, <1>4, <1>5 DEF Next

\* In every state the object can reach, whatever interleaves, fails or restarts,
\* the rows, the sockets and the suspended handlers fit each other (IInv).
THEOREM BootInvariant == Spec => []IInv
<1> QED
  BY InitInv, NextInv, PTL DEF Spec

\* Every variable always holds a value of its kind.
THEOREM TypeCorrect == Spec => []TypeOK
<1>1. IInv => TypeOK
  BY DEF IInv
<1> QED
  BY <1>1, BootInvariant, PTL

\* A payload is stored exactly while it may be sent, also when a handler closes a
\* boot on a row it read before another handler moved it.
THEOREM PayloadHeld == Spec => []PayloadHeldWhileLive
<1>1. IInv => PayloadHeldWhileLive
  BY DEF IInv, PayloadHeldWhileLive, RowInv
<1> QED
  BY <1>1, BootInvariant, PTL

\* What is stored, and what a suspended resume is about to send, is the payload
\* the stored digest was computed from.
THEOREM SamePayload == Spec => []RedeliversSamePayload
<1>1. IInv => RedeliversSamePayload
  BY DEF IInv, RedeliversSamePayload, RowInv, TaskInv
<1> QED
  BY <1>1, BootInvariant, PTL

\* A socket is only ever bound to a boot of the workload it was opened for.
THEOREM AttachedOwner == Spec => []AttachedToOwner
<1>1. IInv => AttachedToOwner
  <2> SUFFICES ASSUME IInv, NEW c \in Conns, NEW b \in Boots, conns[c].att = b
               PROVE  conns[c].client = boots[b].key
    BY DEF AttachedToOwner
  <2> QED
    BY TypeParts, BootAssumption DEF ConnInv
<1> QED
  BY <1>1, BootInvariant, PTL

\* No payload is ever sent to a workload that does not hold the boot's key.
THEOREM PayloadOwner == Spec => []PayloadOnlyToOwner
<1>1. IInv => PayloadOnlyToOwner
  BY DEF IInv, PayloadOnlyToOwner, RowInv
<1> QED
  BY <1>1, BootInvariant, PTL

=============================================================================
