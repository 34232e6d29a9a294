----------------------------- MODULE BootIndex -----------------------------
(***************************************************************************)
(* The D1 index of boots as the dashboard keeps it (functions/boots.ts).   *)
(* The object of the environment moves a boot and mirrors each status into *)
(* its index row with a write of its own; the dashboard lists the rows     *)
(* that say PENDING, asks the object, and rewrites a row that disagrees.   *)
(* Between what a dashboard call read and what it writes, the object and   *)
(* other calls go on, so a repair can itself put back an older status.     *)
(* The object is abstract here: its status moves along the table.          *)
(***************************************************************************)
EXTENDS BootStatus, Naturals

CONSTANTS
  Boot,       \* boots of one environment
  Viewer,     \* dashboard calls that may be in flight
  MaxLost     \* bound: D1 writes and calls that fail

ASSUME BootIndexAssumption == MaxLost \in Nat

VARIABLES
  held,     \* the status the object holds
  row,      \* boot_requests.status, NoStatus where there is no row
  mirrors,  \* writes to the index the object has in flight
  viewer,   \* dashboard calls in flight
  lost      \* failures so far

indexVars == <<held, row, mirrors, viewer, lost>>

Gone == [pc |-> "idle"]

\* A listing: the rows still to be looked at, and what the object said of each.
Listing == [pc : {"indexed", "rows"}, todo : (SUBSET Boot) \ {{}},
            view : [Boot -> Status \cup {NoStatus}]]

\* getBootFn: the boot it opened, and what the object said of it.
Opening == [pc : {"view", "compare", "write"}, boot : Boot,
            view : Status \cup {NoStatus}]

NoViews == [b \in Boot |-> NoStatus]

\* hello has stored the boot in the object and has its index row in flight.
BootIndexInit ==
  /\ held = [b \in Boot |-> "PENDING"]
  /\ row = [b \in Boot |-> NoStatus]
  /\ mirrors = [b \in Boot |-> {"PENDING"}]
  /\ viewer = [v \in Viewer |-> Gone]
  /\ lost = 0

-----------------------------------------------------------------------------
(* The object *)

Move(b) ==
  \E event \in Events :
    /\ Allowed(held[b], event)
    /\ held' = [held EXCEPT ![b] = Target(event)]
    /\ mirrors' = [mirrors EXCEPT ![b] = @ \cup {Target(event)}]
    /\ UNCHANGED <<row, viewer, lost>>

\* The insert of the row, or the update to a later status; an update that finds
\* no row changes nothing.
Land(b, status) ==
  /\ status \in mirrors[b]
  /\ mirrors' = [mirrors EXCEPT ![b] = @ \ {status}]
  /\ row' = IF status = "PENDING" \/ row[b] # NoStatus
            THEN [row EXCEPT ![b] = status] ELSE row
  /\ UNCHANGED <<held, viewer, lost>>

Miss(b, status) ==
  /\ lost < MaxLost
  /\ status \in mirrors[b]
  /\ mirrors' = [mirrors EXCEPT ![b] = @ \ {status}]
  /\ lost' = lost + 1
  /\ UNCHANGED <<held, row, viewer>>

-----------------------------------------------------------------------------
(* The dashboard *)

Goto(v, state) ==
  viewer' = [viewer EXCEPT ![v] = state] /\ UNCHANGED <<held, mirrors, lost>>

ListIndexed(v) ==
  /\ viewer[v] = Gone
  /\ LET pending == {b \in Boot : row[b] = "PENDING"}
     IN  /\ pending # {}
         /\ Goto(v, [pc |-> "indexed", todo |-> pending, view |-> NoViews])
  /\ UNCHANGED row

ListLive(v) ==
  /\ viewer[v].pc = "indexed"
  /\ Goto(v, [viewer[v] EXCEPT !.pc = "rows",
               !.view = [b \in Boot |-> IF held[b] \in Live THEN held[b] ELSE NoStatus]])
  /\ UNCHANGED row

\* The listing is done with a row, and ends with the last one.
\* Mutant: it does not end.
PastForever(v, b) == [viewer[v] EXCEPT !.todo = @ \ {b}]

Past(v, b) ==
  LET left == viewer[v].todo \ {b}
  IN  IF left = {} THEN Gone ELSE [viewer[v] EXCEPT !.todo = left]

\* A row whose boot is not in the list of live boots: the object is asked for
\* that boot itself.
\* Mutant: such a row is passed over.
AskAgainSkipped(v, b) == Goto(v, Past(v, b))

AskAgain(v, b) == Goto(v, [viewer[v] EXCEPT !.view[b] = held[b]])

ListAsk(v, b) ==
  /\ viewer[v].pc = "rows" /\ b \in viewer[v].todo
  /\ viewer[v].view[b] = NoStatus
  /\ AskAgain(v, b)
  /\ UNCHANGED row

\* What the object said of the row stands as it was read, however late the write.
ListRefresh(v, b) ==
  /\ viewer[v].pc = "rows" /\ b \in viewer[v].todo
  /\ viewer[v].view[b] # NoStatus
  /\ row' = IF viewer[v].view[b] = "PENDING" THEN row
            ELSE [row EXCEPT ![b] = viewer[v].view[b]]
  /\ Goto(v, Past(v, b))

\* environmentOf: a boot is opened only through its row.
Open(v, b) ==
  /\ viewer[v] = Gone
  /\ row[b] # NoStatus
  /\ Goto(v, [pc |-> "view", boot |-> b, view |-> NoStatus])
  /\ UNCHANGED row

OpenView(v) ==
  /\ viewer[v].pc = "view"
  /\ Goto(v, [viewer[v] EXCEPT !.pc = "compare", !.view = held[viewer[v].boot]])
  /\ UNCHANGED row

OpenCompare(v) ==
  /\ viewer[v].pc = "compare"
  /\ Goto(v, IF row[viewer[v].boot] = viewer[v].view THEN Gone
             ELSE [viewer[v] EXCEPT !.pc = "write"])
  /\ UNCHANGED row

OpenRefresh(v) ==
  /\ viewer[v].pc = "write"
  /\ row' = [row EXCEPT ![viewer[v].boot] = viewer[v].view]
  /\ Goto(v, Gone)

ViewerDies(v) ==
  /\ lost < MaxLost
  /\ viewer[v] # Gone
  /\ viewer' = [viewer EXCEPT ![v] = Gone]
  /\ lost' = lost + 1
  /\ UNCHANGED <<held, row, mirrors>>

Continue(v) ==
  \/ ListLive(v)
  \/ \E b \in Boot : ListAsk(v, b) \/ ListRefresh(v, b)
  \/ OpenView(v)
  \/ OpenCompare(v)
  \/ OpenRefresh(v)

BootIndexNext ==
  \/ \E b \in Boot :
       \/ Move(b)
       \/ \E status \in Status : Land(b, status) \/ Miss(b, status)
  \/ \E v \in Viewer :
       \/ ListIndexed(v)
       \/ \E b \in Boot : Open(v, b)
       \/ Continue(v)
       \/ ViewerDies(v)

-----------------------------------------------------------------------------
(* Properties *)

BootIndexTypeOK ==
  /\ held \in [Boot -> Status]
  /\ row \in [Boot -> Status \cup {NoStatus}]
  /\ mirrors \in [Boot -> SUBSET Status]
  /\ viewer \in [Viewer -> {Gone} \cup Listing \cup Opening]
  /\ lost \in 0 .. MaxLost

\* boots.ts:6 says a row that says PENDING while the object moved on is refreshed,
\* so that no operator keeps seeing a boot they cannot approve. Whatever write
\* was lost or came late, as long as the list keeps being opened such a row is
\* repaired, also when another call puts an old PENDING back.
PendingRowRepaired ==
  []<><<\E v \in Viewer : ListIndexed(v)>>_indexVars =>
    \A b \in Boot :
      (row[b] = "PENDING" /\ held[b] # "PENDING") ~> row[b] # "PENDING"

=============================================================================
