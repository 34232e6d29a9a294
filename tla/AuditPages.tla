----------------------------- MODULE AuditPages -----------------------------
(***************************************************************************)
(* Reading the audit log page by page (vault/audit-log.ts over the         *)
(* repository of audit events): newest first, cursored by event id, of all *)
(* events or of one environment's.  Ids come from clocks of several        *)
(* workers without a counter between them, so an event may be appended     *)
(* below one that is there; and an environment that is deleted takes its   *)
(* name off its events (ON DELETE SET NULL) while the reader is between    *)
(* two pages.                                                              *)
(***************************************************************************)
EXTENDS Naturals, Sequences, FiniteSets

CONSTANTS
  EventId,    \* ids that occur, natural numbers in the order of the texts
  Scope,      \* environments, or projects, an event may be about
  NoScope,    \* stands for null: of no environment, and a reader of all events
  PageLimit,  \* events on a page (AUDIT_PAGE_SIZE, 50 in the code)
  NoEvent     \* stands for no cursor

ASSUME AuditAssumption ==
  /\ EventId \subseteq Nat /\ PageLimit \in Nat \ {0}
  /\ NoEvent \notin EventId /\ NoScope \notin Scope

VARIABLES
  events,     \* audit_events
  filter,     \* what the reader asked for
  before,     \* the cursor of the next page
  listed,     \* the events shown so far, in order
  paging,     \* there is a page to ask for
  present     \* history: events there at the first page and still matching

auditVars == <<events, filter, before, listed, paging, present>>

Event == [id : EventId, about : Scope \cup {NoScope}]

Matching(log) == {x \in log : filter = NoScope \/ x.about = filter}

\* id < before.
OlderThan(x, c) == c = NoEvent \/ x.id < c

\* ORDER BY id DESC LIMIT PageLimit.
Rows(c) ==
  LET older == {x \in Matching(events) : OlderThan(x, c)}
  IN  {x \in older : Cardinality({y \in older : y.id > x.id}) < PageLimit}

NewestFirst(s) ==
  CHOOSE q \in [1 .. Cardinality(s) -> s] :
    \A i, j \in DOMAIN q : i < j => q[i].id > q[j].id

\* Mutant: the cursor is the first event of the page that was shown.
NextBeforeFirst(shown) ==
  IF Len(shown) < PageLimit THEN NoEvent ELSE shown[1].id

\* listAuditEvents: a page that is not full is the last; a full one is followed
\* by another even if that turns out to be empty.
NextBefore(shown) ==
  IF Len(shown) < PageLimit THEN NoEvent ELSE shown[Len(shown)].id

AuditStart(log, asked) ==
  /\ events = log /\ filter = asked
  /\ before = NoEvent
  /\ listed = << >>
  /\ paging = TRUE
  /\ present = Matching(events)

AuditInit ==
  \E log \in SUBSET Event, asked \in Scope \cup {NoScope} :
    /\ IsFiniteSet(log) /\ \A x, y \in log : x.id = y.id => x = y
    /\ AuditStart(log, asked)

\* appendAuditEvent: the primary key refuses an id that is there.
AppendEvent ==
  /\ paging
  /\ \E x \in Event :
       /\ \A y \in events : y.id # x.id
       /\ events' = events \cup {x}
  /\ UNCHANGED <<filter, before, listed, paging, present>>

\* The row s of the events is deleted: they stay, and are about nothing.
Unnamed(x, s) == IF x.about = s THEN [x EXCEPT !.about = NoScope] ELSE x

Detach ==
  /\ paging
  /\ \E s \in Scope :
       /\ \E x \in events : x.about = s
       /\ events' = {Unnamed(x, s) : x \in events}
       /\ present' = {Unnamed(x, s) : x \in {y \in present : filter # s}}
  /\ UNCHANGED <<filter, before, listed, paging>>

ReadEvents ==
  /\ paging
  /\ LET shown == NewestFirst(Rows(before))
     IN  /\ listed' = listed \o shown
         /\ before' = NextBefore(shown)
         /\ paging' = (NextBefore(shown) # NoEvent)
  /\ UNCHANGED <<events, filter, present>>

AuditNext == AppendEvent \/ Detach \/ ReadEvents

-----------------------------------------------------------------------------
(* Properties *)

\* The reader of the log is shown every event that was there when it began and
\* still matches, none twice and newest first, and only events of what it asked
\* for, whatever is appended or detached between two pages.
EveryEventListed ==
  /\ \A i, j \in DOMAIN listed : i < j => listed[i].id > listed[j].id
  /\ \A i \in DOMAIN listed : filter # NoScope => listed[i].about = filter
  /\ \A x \in present :
       ~paging \/ (before # NoEvent /\ x.id >= before) =>
         \E i \in DOMAIN listed : listed[i].id = x.id

=============================================================================
