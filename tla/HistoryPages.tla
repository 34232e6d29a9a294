---------------------------- MODULE HistoryPages ----------------------------
(***************************************************************************)
(* Reading a history page by page while it changes: the boots of           *)
(* listBootHistory (vault-store, boot-requests.ts), newest first, cursored *)
(* by creation time and id.  A boot joins the history when it stops being  *)
(* pending, wherever its creation time puts it, and leaves it when its     *)
(* environment is deleted; the reader comes back for each page with the    *)
(* cursor the last one gave.                                               *)
(***************************************************************************)
EXTENDS Naturals, Sequences, FiniteSets

CONSTANTS
  Moment,     \* creation times that occur, natural numbers
  RowId,      \* ids that occur, natural numbers
  PageSize,   \* boots on a page (25 in the code)
  NoCursor    \* stands for null

ASSUME HistoryAssumption ==
  /\ Moment \subseteq Nat /\ RowId \subseteq Nat
  /\ PageSize \in Nat \ {0}
  /\ NoCursor \notin [at : Moment, id : RowId]

Entry == [at : Moment, id : RowId]

VARIABLES
  history,    \* the rows that are not PENDING
  cursor,     \* where the reader stands, NoCursor at the first page
  seen,       \* what the reader was shown so far, in order
  reading,    \* the reader has pages to fetch
  kept        \* history: rows that were there at the first page and still are

pagesVars == <<history, cursor, seen, reading, kept>>

\* ORDER BY created_at DESC, id DESC.
Before(x, y) == x.at > y.at \/ (x.at = y.at /\ x.id > y.id)

\* The rows a page may show.
\* Mutant: the cursor is only a time.
AfterTime(entry, c) == c = NoCursor \/ entry.at < c.at

After(entry, c) == c = NoCursor \/ Before(c, entry)

\* The rows of s among the first n.
First(s, n) == {x \in s : Cardinality({y \in s : Before(y, x)}) < n}

InOrder(s) ==
  CHOOSE q \in [1 .. Cardinality(s) -> s] :
    \A i, j \in DOMAIN q : i < j => Before(q[i], q[j])

\* One row more than the page is fetched, only to learn whether one follows;
\* the next cursor is the last row shown.
Page(c) ==
  LET fetched == First({x \in history : After(x, c)}, PageSize + 1)
      shown   == InOrder(First(fetched, PageSize))
  IN  [boots |-> shown,
       next  |-> IF Cardinality(fetched) > PageSize THEN shown[Len(shown)]
                                                    ELSE NoCursor]

PagesInit ==
  /\ history \in {h \in SUBSET Entry :
                   IsFiniteSet(h) /\ \A x, y \in h : x.id = y.id => x = y}
  /\ cursor = NoCursor
  /\ seen = << >>
  /\ reading = TRUE
  /\ kept = history

\* A row's primary key is its id.
Join ==
  /\ reading
  /\ \E x \in Entry :
       /\ \A y \in history : y.id # x.id
       /\ history' = history \cup {x}
  /\ UNCHANGED <<cursor, seen, reading, kept>>

Delete ==
  /\ reading
  /\ \E x \in history : history' = history \ {x} /\ kept' = kept \ {x}
  /\ UNCHANGED <<cursor, seen, reading>>

ReadPage ==
  /\ reading
  /\ LET page == Page(cursor)
     IN  /\ seen' = seen \o page.boots
         /\ cursor' = page.next
         /\ reading' = (page.next # NoCursor)
  /\ UNCHANGED <<history, kept>>

PagesNext == Join \/ Delete \/ ReadPage

-----------------------------------------------------------------------------
(* Properties *)

\* What the reader is shown is in order and shows no row twice; a row that was
\* in the history all along is not skipped, however rows join, leave or share a
\* creation time between two pages.
NothingSkipped ==
  /\ \A i, j \in DOMAIN seen : i < j => Before(seen[i], seen[j])
  /\ \A x \in kept :
       ~reading \/ (cursor # NoCursor /\ ~After(x, cursor)) =>
         \E i \in DOMAIN seen : seen[i] = x

=============================================================================
