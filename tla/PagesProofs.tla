----------------------------- MODULE PagesProofs -----------------------------
(***************************************************************************)
(* Proof that reading a list page by page shows every row that stayed, for *)
(* every set of rows, page size and course of events: NothingSkipped of    *)
(* the history of boots, EveryEventListed of the audit log.                *)
(*                                                                         *)
(* Both pages are the lowest rows of a finite set in a strict order, put   *)
(* in sequence.  The first part shows what that is worth for any set and   *)
(* order: the rank of a row, which is the number of rows before it, counts *)
(* the set from 0 without a gap, so the sequence exists and has them all,  *)
(* and a page is closed under what comes before its rows.                  *)
(***************************************************************************)
EXTENDS HistoryPages, AuditPages, FiniteSetTheorems, FunctionTheorems, TLAPS


-----------------------------------------------------------------------------
(* Finite sets in a strict total order *)

\* R, a set of pairs, orders the finite set S.
Ordered(S, R) ==
  /\ IsFiniteSet(S)
  /\ \A x \in S : <<x, x>> \notin R
  /\ \A x, y \in S : x = y \/ <<x, y>> \in R \/ <<y, x>> \in R
  /\ \A x, y, z \in S : <<x, y>> \in R /\ <<y, z>> \in R => <<x, z>> \in R

\* The elements of S that come before x.
Below(S, R, x) == {y \in S : <<y, x>> \in R}

\* How many they are.
Rank(S, R, x) == Cardinality(Below(S, R, x))

\* The first n elements of S: what ORDER BY ... LIMIT n returns.
Lowest(S, R, n) == {x \in S : Rank(S, R, x) < n}

\* A sequence in the order R.
Ascends(q, R) == \A i, j \in DOMAIN q : i < j => <<q[i], q[j]>> \in R

\* An element that comes after another has the greater rank.
LEMMA RankGrows ==
  ASSUME NEW S, NEW R, Ordered(S, R), NEW x \in S, NEW y \in S, <<x, y>> \in R
  PROVE  Rank(S, R, x) < Rank(S, R, y)
<1>1. IsFiniteSet(Below(S, R, y)) /\ IsFiniteSet(Below(S, R, x))
  BY FS_Subset DEF Ordered, Below
<1>2. Below(S, R, x) \subseteq Below(S, R, y)
  BY DEF Ordered, Below
<1>3. x \in Below(S, R, y) /\ x \notin Below(S, R, x)
  BY DEF Ordered, Below
<1>4. Rank(S, R, x) <= Rank(S, R, y) /\ Rank(S, R, x) # Rank(S, R, y)
  BY <1>1, <1>2, <1>3, FS_Subset DEF Rank
<1>5. Rank(S, R, x) \in Nat /\ Rank(S, R, y) \in Nat
  BY <1>1, FS_CardinalityType DEF Rank
<1> QED
  BY <1>4, <1>5

\* The ranks of a set of n elements lie in 0 .. n - 1.
LEMMA RankBelowCardinality ==
  ASSUME NEW S, NEW R, Ordered(S, R), NEW x \in S
  PROVE  Rank(S, R, x) \in 0 .. Cardinality(S) - 1
<1>1. Below(S, R, x) \subseteq S \ {x}
  BY DEF Ordered, Below
<1>2. IsFiniteSet(S) /\ IsFiniteSet(S \ {x}) /\ Cardinality(S \ {x}) = Cardinality(S) - 1
  BY FS_RemoveElement DEF Ordered
<1>3. Rank(S, R, x) <= Cardinality(S \ {x}) /\ Rank(S, R, x) \in Nat
  BY <1>1, <1>2, FS_Subset, FS_CardinalityType DEF Rank
<1>4. Cardinality(S) \in Nat
  BY <1>2, FS_CardinalityType
<1> QED
  BY <1>2, <1>3, <1>4

\* Each of those numbers is the rank of some element.
LEMMA RankIsOnto ==
  ASSUME NEW S, NEW R, Ordered(S, R), NEW k \in 0 .. Cardinality(S) - 1
  PROVE  \E x \in S : Rank(S, R, x) = k
<1> DEFINE T == 0 .. Cardinality(S) - 1
           f == [x \in S |-> Rank(S, R, x)]
<1>1. IsFiniteSet(S) /\ Cardinality(S) \in Nat
  BY FS_CardinalityType DEF Ordered
<1>2. f \in [S -> T]
  BY RankBelowCardinality
<1>3. \A x, y \in S : f[x] = f[y] => x = y
  <2> SUFFICES ASSUME NEW x \in S, NEW y \in S, x # y PROVE f[x] # f[y]
    OBVIOUS
  <2>1. <<x, y>> \in R \/ <<y, x>> \in R
    BY DEF Ordered
  <2>2. Rank(S, R, x) < Rank(S, R, y) \/ Rank(S, R, y) < Rank(S, R, x)
    BY <2>1, RankGrows
  <2>3. Rank(S, R, x) \in Int /\ Rank(S, R, y) \in Int
    BY RankBelowCardinality
  <2> QED
    BY <2>2, <2>3
<1>4. f \in Injection(S, T)
  BY <1>2, <1>3, Fun_IsInj
<1>5. IsFiniteSet(T) /\ Cardinality(T) = Cardinality(S)
  BY <1>1, FS_Interval
<1>6. f \in Surjection(S, T)
  BY <1>1, <1>4, <1>5, FS_Injection
<1>7. \A t \in T : \E x \in S : f[x] = t
  <2> HIDE DEF f, T
  <2> QED
    BY <1>6, Fun_SurjectionProperties
<1> QED
  BY <1>7

\* A finite ordered set can be listed in its order, so the CHOOSE of a page picks
\* a listing.
LEMMA EnumerationExists ==
  ASSUME NEW S, NEW R, Ordered(S, R)
  PROVE  \E q \in [1 .. Cardinality(S) -> S] : Ascends(q, R)
<1> DEFINE n == Cardinality(S)
           q == [i \in 1 .. n |-> CHOOSE x \in S : Rank(S, R, x) = i - 1]
<1>1. n \in Nat
  BY FS_CardinalityType DEF Ordered
<1>2. ASSUME NEW i \in 1 .. n PROVE q[i] \in S /\ Rank(S, R, q[i]) = i - 1
  <2>1. i - 1 \in 0 .. n - 1
    BY <1>1
  <2>2. \E x \in S : Rank(S, R, x) = i - 1
    BY <2>1, RankIsOnto
  <2> QED
    BY <2>2
<1>3. ASSUME NEW i \in 1 .. n, NEW j \in 1 .. n, i < j PROVE <<q[i], q[j]>> \in R
  <2> DEFINE x == q[i]
             y == q[j]
  <2>1. x \in S /\ y \in S /\ Rank(S, R, x) = i - 1 /\ Rank(S, R, y) = j - 1
    BY <1>2
  <2> HIDE DEF x, y
  <2>2. x # y /\ ~(Rank(S, R, y) < Rank(S, R, x))
    BY <1>3, <2>1
  <2>3. <<x, y>> \in R
    BY <2>1, <2>2, RankGrows DEF Ordered
  <2> QED
    BY <2>3 DEF x, y
<1>4. q \in [1 .. n -> S]
  BY <1>2
<1>5. Ascends(q, R)
  BY <1>3 DEF Ascends
<1> QED
  BY <1>4, <1>5

\* Such a listing shows every element.
LEMMA EnumerationIsOnto ==
  ASSUME NEW S, NEW R, Ordered(S, R), NEW q \in [1 .. Cardinality(S) -> S], Ascends(q, R)
  PROVE  \A x \in S : \E i \in DOMAIN q : q[i] = x
<1> DEFINE T == 1 .. Cardinality(S)
<1>1. IsFiniteSet(S) /\ Cardinality(S) \in Nat
  BY FS_CardinalityType DEF Ordered
<1>2. \A i, j \in T : q[i] = q[j] => i = j
  <2> SUFFICES ASSUME NEW i \in T, NEW j \in T, i # j PROVE q[i] # q[j]
    OBVIOUS
  <2>1. i < j \/ j < i
    OBVIOUS
  <2>2. <<q[i], q[j]>> \in R \/ <<q[j], q[i]>> \in R
    BY <2>1 DEF Ascends
  <2>3. q[i] \in S /\ q[j] \in S
    OBVIOUS
  <2> QED
    BY <2>2, <2>3 DEF Ordered
<1>3. q \in Injection(T, S)
  BY <1>2, Fun_IsInj
<1>4. Cardinality(T) = Cardinality(S)
  BY <1>1, FS_Interval
<1>5. q \in Surjection(T, S)
  BY <1>1, <1>3, <1>4, FS_Injection
<1>6. \A x \in S : \E i \in T : q[i] = x
  <2> HIDE DEF T
  <2> QED
    BY <1>5, Fun_SurjectionProperties
<1> QED
  BY <1>6

\* What comes before one of the first n elements is among them.
LEMMA LowestClosed ==
  ASSUME NEW S, NEW R, Ordered(S, R), NEW n \in Nat,
         NEW x \in Lowest(S, R, n), NEW y \in S, <<y, x>> \in R
  PROVE  y \in Lowest(S, R, n)
<1>1. Rank(S, R, y) < Rank(S, R, x)
  BY RankGrows DEF Lowest
<1>2. Rank(S, R, y) \in Int /\ Rank(S, R, x) \in Int
  BY RankBelowCardinality DEF Lowest
<1> QED
  BY <1>1, <1>2 DEF Lowest

\* The first n elements of a set that has no more are all of it.
LEMMA LowestAll ==
  ASSUME NEW S, NEW R, Ordered(S, R), NEW n \in Nat, Cardinality(S) <= n
  PROVE  Lowest(S, R, n) = S
<1>1. Cardinality(S) \in Nat
  BY FS_CardinalityType DEF Ordered
<1>2. \A x \in S : Rank(S, R, x) \in Int /\ Rank(S, R, x) <= Cardinality(S) - 1
  BY <1>1, RankBelowCardinality
<1> QED
  BY <1>1, <1>2 DEF Lowest

\* Of a larger set they are exactly n.
LEMMA LowestCount ==
  ASSUME NEW S, NEW R, Ordered(S, R), NEW n \in Nat, n <= Cardinality(S)
  PROVE  /\ IsFiniteSet(Lowest(S, R, n))
         /\ Cardinality(Lowest(S, R, n)) = n
<1> DEFINE L == Lowest(S, R, n)
           T == 0 .. n - 1
           f == [x \in L |-> Rank(S, R, x)]
<1>1. L \subseteq S /\ IsFiniteSet(S) /\ Cardinality(S) \in Nat
  BY FS_CardinalityType DEF Ordered, Lowest
<1>2. IsFiniteSet(L)
  BY <1>1, FS_Subset
<1>3. \A x \in L : Rank(S, R, x) \in T
  <2> TAKE x \in L
  <2>1. Rank(S, R, x) \in 0 .. Cardinality(S) - 1
    BY <1>1, RankBelowCardinality
  <2> QED
    BY <2>1 DEF Lowest
<1>4. f \in [L -> T]
  BY <1>3
<1>5. \A t \in T : \E x \in L : f[x] = t
  <2> TAKE t \in T
  <2>1. t \in 0 .. Cardinality(S) - 1
    BY <1>1
  <2>2. PICK x \in S : Rank(S, R, x) = t
    BY <2>1, RankIsOnto
  <2>3. x \in L
    BY <2>2 DEF Lowest
  <2> QED
    BY <2>2, <2>3
<1>6. \A x, y \in L : f[x] = f[y] => x = y
  <2> SUFFICES ASSUME NEW x \in L, NEW y \in L, x # y PROVE f[x] # f[y]
    OBVIOUS
  <2>1. <<x, y>> \in R \/ <<y, x>> \in R
    BY <1>1 DEF Ordered
  <2>2. Rank(S, R, x) < Rank(S, R, y) \/ Rank(S, R, y) < Rank(S, R, x)
    BY <1>1, <2>1, RankGrows
  <2>3. Rank(S, R, x) \in Int /\ Rank(S, R, y) \in Int
    BY <1>3
  <2> QED
    BY <2>2, <2>3
<1>7. f \in Bijection(L, T)
  BY <1>4, <1>5, <1>6, Fun_IsBij
<1>8. ExistsBijection(L, T)
  BY <1>7, Fun_ExistsBij
<1>9. Cardinality(T) = Cardinality(L)
  BY <1>2, <1>8, FS_Bijection
<1>10. Cardinality(T) = n
  BY FS_Interval
<1> QED
  BY <1>2, <1>9, <1>10

-----------------------------------------------------------------------------
(* The history of boots *)

\* The order of the history: newest first, then by id.
Precedes == {p \in Entry \X Entry : Before(p[1], p[2])}

\* A pair of entries is in Precedes where Before says so.
LEMMA PrecedesIsBefore ==
  ASSUME NEW x \in Entry, NEW y \in Entry
  PROVE  <<x, y>> \in Precedes <=> Before(x, y)
  BY DEF Precedes

\* Creation time and id together order the entries, whatever times they share.
LEMMA EntriesOrdered ==
  ASSUME NEW S, S \subseteq Entry, IsFiniteSet(S)
  PROVE  Ordered(S, Precedes)
<1>1. \A x \in Entry : x.at \in Nat /\ x.id \in Nat
  BY HistoryAssumption DEF Entry
<1>2. \A x \in S : <<x, x>> \notin Precedes
  BY <1>1, PrecedesIsBefore DEF Before
<1>3. \A x, y \in S : x = y \/ <<x, y>> \in Precedes \/ <<y, x>> \in Precedes
  <2> SUFFICES ASSUME NEW x \in S, NEW y \in S, ~Before(x, y), ~Before(y, x) PROVE x = y
    BY PrecedesIsBefore
  <2>1. x.at = y.at /\ x.id = y.id
    BY <1>1 DEF Before
  <2> QED
    BY <2>1 DEF Entry
<1>4. \A x, y, z \in S : <<x, y>> \in Precedes /\ <<y, z>> \in Precedes => <<x, z>> \in Precedes
  BY <1>1, PrecedesIsBefore DEF Before
<1> QED
  BY <1>2, <1>3, <1>4 DEF Ordered

\* First is the query ORDER BY created_at DESC, id DESC LIMIT n.
LEMMA FirstIsLowest ==
  ASSUME NEW S, S \subseteq Entry, NEW n
  PROVE  First(S, n) = Lowest(S, Precedes, n)
<1>1. \A x \in S : {y \in S : Before(y, x)} = Below(S, Precedes, x)
  BY PrecedesIsBefore DEF Below
<1> QED
  BY <1>1 DEF First, Lowest, Rank

\* InOrder lists its set in order and completely.
LEMMA InOrderLists ==
  ASSUME NEW S, S \subseteq Entry, IsFiniteSet(S)
  PROVE  /\ InOrder(S) \in [1 .. Cardinality(S) -> S]
         /\ \A i, j \in DOMAIN InOrder(S) : i < j => Before(InOrder(S)[i], InOrder(S)[j])
         /\ \A x \in S : \E i \in DOMAIN InOrder(S) : InOrder(S)[i] = x
<1> DEFINE Q == [1 .. Cardinality(S) -> S]
           Sorted(q) == \A i, j \in DOMAIN q : i < j => Before(q[i], q[j])
<1>1. Ordered(S, Precedes)
  BY EntriesOrdered
<1>2. \A q \in Q : Ascends(q, Precedes) <=> Sorted(q)
  BY PrecedesIsBefore DEF Ascends
<1>3. \E q \in Q : Sorted(q)
  BY <1>1, <1>2, EnumerationExists
<1>4. InOrder(S) = CHOOSE q \in Q : Sorted(q)
  BY DEF InOrder
<1> HIDE DEF Sorted
<1>5. InOrder(S) \in Q /\ Sorted(InOrder(S))
  BY <1>3, <1>4
<1>6. \A x \in S : \E i \in DOMAIN InOrder(S) : InOrder(S)[i] = x
  BY <1>1, <1>2, <1>5, EnumerationIsOnto
<1> QED
  BY <1>5, <1>6 DEF Sorted

\* The rows after the cursor.
Eligible(c) == {x \in history : After(x, c)}

\* Whether a sequence shows x.
Listed(q, x) == \E i \in DOMAIN q : q[i] = x

\* What listBootHistory returns for a cursor: rows after the cursor, in order; all
\* of them if there is no next cursor, and otherwise all those up to the next cursor,
\* which is the last row shown.
LEMMA PageShows ==
  ASSUME history \subseteq Entry, IsFiniteSet(history), NEW c \in Entry \cup {NoCursor}
  PROVE  /\ Page(c).boots \in Seq(Eligible(c))
         /\ \A i, j \in DOMAIN Page(c).boots :
              i < j => Before(Page(c).boots[i], Page(c).boots[j])
         /\ Page(c).next = NoCursor =>
              \A x \in Eligible(c) : Listed(Page(c).boots, x)
         /\ Page(c).next # NoCursor =>
              /\ Page(c).boots # << >>
              /\ Page(c).next = Page(c).boots[Len(Page(c).boots)]
              /\ \A x \in Eligible(c) : ~After(x, Page(c).next) => Listed(Page(c).boots, x)
<1> DEFINE S == Eligible(c)
           F == First(S, PageSize + 1)
           T == First(F, PageSize)
           q == InOrder(T)
<1>1. S \subseteq Entry /\ IsFiniteSet(S)
  BY FS_Subset DEF Eligible
<1>2. F \subseteq S /\ T \subseteq F
  BY DEF First
<1>3. IsFiniteSet(F) /\ IsFiniteSet(T)
  BY <1>1, <1>2, FS_Subset
<1>4. Page(c) = [boots |-> q,
                 next  |-> IF Cardinality(F) > PageSize THEN q[Len(q)] ELSE NoCursor]
  BY DEF Page, Eligible
<1>5. PageSize \in Nat /\ PageSize > 0 /\ PageSize + 1 \in Nat
  BY HistoryAssumption
<1>6. Ordered(S, Precedes) /\ Ordered(F, Precedes)
  BY <1>1, <1>2, <1>3, EntriesOrdered
<1>7. F = Lowest(S, Precedes, PageSize + 1) /\ T = Lowest(F, Precedes, PageSize)
  BY <1>1, <1>2, FirstIsLowest
<1>s. Cardinality(S) \in Nat /\ Cardinality(F) \in Nat /\ Cardinality(T) \in Nat
  BY <1>1, <1>3, FS_CardinalityType
<1> HIDE DEF S, F, T
<1>8. Cardinality(F) <= PageSize => T = S
  <2> SUFFICES ASSUME Cardinality(F) <= PageSize PROVE T = S
    OBVIOUS
  <2>1. T = F
    BY <1>5, <1>6, <1>7, LowestAll
  <2>2. ~(PageSize + 1 <= Cardinality(S))
    BY <1>5, <1>6, <1>7, LowestCount
  <2>3. Cardinality(S) <= PageSize + 1
    BY <1>5, <1>s, <2>2
  <2>4. F = S
    BY <1>5, <1>6, <1>7, <2>3, LowestAll
  <2> QED
    BY <2>1, <2>4
<1>9. Cardinality(F) > PageSize => Cardinality(T) = PageSize
  BY <1>5, <1>6, <1>7, <1>s, LowestCount
<1>10. ASSUME NEW x \in T, NEW y \in S, Before(y, x) PROVE y \in T
  <2>1. x \in F /\ x \in Entry /\ y \in Entry /\ <<y, x>> \in Precedes
    BY <1>1, <1>2, <1>10, PrecedesIsBefore
  <2>2. y \in F
    BY <1>5, <1>6, <1>7, <2>1, LowestClosed
  <2> QED
    BY <1>5, <1>6, <1>7, <2>1, <2>2, LowestClosed
<1>11. /\ q \in [1 .. Cardinality(T) -> T]
       /\ \A i, j \in DOMAIN q : i < j => Before(q[i], q[j])
       /\ \A x \in T : Listed(q, x)
  BY <1>1, <1>2, <1>3, InOrderLists DEF Listed
<1> HIDE DEF q
<1>12. q \in Seq(S) /\ Len(q) = Cardinality(T)
  BY <1>2, <1>11, <1>s
<1>13. CASE Cardinality(F) <= PageSize
  <2>1. Page(c).boots = q /\ Page(c).next = NoCursor
    BY <1>4, <1>5, <1>s, <1>13
  <2> QED
    BY <1>8, <1>11, <1>12, <1>13, <2>1 DEF S
<1>14. CASE Cardinality(F) > PageSize
  <2>1. Page(c).boots = q /\ Page(c).next = q[Len(q)]
    BY <1>4, <1>14
  <2>2. q # << >> /\ q[Len(q)] \in T
    BY <1>5, <1>9, <1>11, <1>12, <1>14
  <2>3. q[Len(q)] # NoCursor /\ q[Len(q)] \in Entry
    BY <1>1, <1>2, <2>2, HistoryAssumption DEF Entry
  <2>4. ASSUME NEW x \in S, ~After(x, q[Len(q)]) PROVE Listed(q, x)
    <3>1. x = q[Len(q)] \/ Before(x, q[Len(q)])
      <4>1. q[Len(q)] \in S
        BY <1>2, <2>2
      <4> QED
        BY <1>1, <1>6, <2>3, <2>4, <4>1, PrecedesIsBefore DEF After, Ordered
    <3>2. x \in T
      BY <1>10, <2>2, <3>1
    <3> QED
      BY <1>11, <3>2
  <2> QED
    BY <1>11, <1>12, <2>1, <2>2, <2>3, <2>4 DEF S
<1> QED
  BY <1>5, <1>s, <1>13, <1>14

\* The reader stands at the last row it was shown, and has seen nothing before its
\* first page.
ReaderInv ==
  /\ history \subseteq Entry /\ IsFiniteSet(history)
  /\ kept \subseteq history
  /\ cursor \in Entry \cup {NoCursor} /\ reading \in BOOLEAN
  /\ seen \in Seq(Entry)
  /\ cursor = NoCursor /\ reading => seen = << >>
  /\ cursor # NoCursor => seen # << >> /\ cursor = seen[Len(seen)]

\* Inductive: what the next page starts from and what was promised so far.
PagesInv == ReaderInv /\ NothingSkipped

\* It holds before the first page.
LEMMA PagesStart == PagesInit => PagesInv
<1> SUFFICES ASSUME PagesInit PROVE PagesInv
  OBVIOUS
<1>1. history \subseteq Entry /\ IsFiniteSet(history) /\ kept = history
  BY DEF PagesInit
<1>2. seen = << >> /\ cursor = NoCursor /\ reading = TRUE
  BY DEF PagesInit
<1>3. << >> \in Seq(Entry)
  OBVIOUS
<1> QED
  BY <1>1, <1>2, <1>3 DEF PagesInv, ReaderInv, NothingSkipped

\* Rows that join or leave between two pages (a boot decided, an environment
\* deleted) break nothing as long as the reader does not move.
LEMMA RowsChange ==
  ASSUME PagesInv, history' \subseteq Entry, IsFiniteSet(history'),
         kept' \subseteq kept \cap history', UNCHANGED <<cursor, seen, reading>>
  PROVE  PagesInv'
  BY DEF PagesInv, ReaderInv, NothingSkipped, After

\* A page appends rows after the cursor and moves it to the last of them.
LEMMA ReadPageKeeps ==
  ASSUME PagesInv, ReadPage
  PROVE  PagesInv'
<1> DEFINE q == Page(cursor).boots
           next == Page(cursor).next
           S == Eligible(cursor)
<1>1. /\ history \subseteq Entry /\ IsFiniteSet(history) /\ kept \subseteq history
      /\ cursor \in Entry \cup {NoCursor} /\ seen \in Seq(Entry)
      /\ reading
  BY DEF PagesInv, ReaderInv, ReadPage
<1>2. /\ seen' = seen \o q /\ cursor' = next /\ reading' = (next # NoCursor)
      /\ history' = history /\ kept' = kept
  BY DEF ReadPage
<1>3. S \subseteq Entry /\ \A x \in S : After(x, cursor)
  BY <1>1 DEF Eligible
<1>4. \A x \in history : x \notin S => cursor # NoCursor /\ ~After(x, cursor)
  BY DEF Eligible, After
<1>5. /\ q \in Seq(S)
      /\ \A i, j \in DOMAIN q : i < j => Before(q[i], q[j])
      /\ next = NoCursor => \A x \in S : Listed(q, x)
      /\ next # NoCursor =>
           /\ q # << >> /\ next = q[Len(q)]
           /\ \A x \in S : ~After(x, next) => Listed(q, x)
  BY <1>1, PageShows
<1> HIDE DEF S, q, next
<1>6. q \in Seq(Entry) /\ \A j \in DOMAIN q : q[j] \in S
  BY <1>3, <1>5
<1>7. /\ seen' \in Seq(Entry) /\ DOMAIN seen' = 1 .. Len(seen) + Len(q)
      /\ \A i \in 1 .. Len(seen) : seen'[i] = seen[i]
      /\ \A j \in 1 .. Len(q) : seen'[Len(seen) + j] = q[j]
  BY <1>1, <1>2, <1>6
<1>8. cursor = NoCursor => seen = << >>
  BY <1>1 DEF PagesInv, ReaderInv
<1>9. ASSUME NEW i \in 1 .. Len(seen), NEW j \in 1 .. Len(q) PROVE Before(seen[i], q[j])
  <2>1. cursor # NoCursor /\ cursor = seen[Len(seen)] /\ cursor \in Entry
    BY <1>1, <1>8, <1>9 DEF PagesInv, ReaderInv
  <2>2. q[j] \in Entry /\ seen[i] \in Entry /\ Before(cursor, q[j])
    BY <1>1, <1>3, <1>6, <2>1 DEF After
  <2>3. seen[i] = cursor \/ Before(seen[i], cursor)
    <3>1. i = Len(seen) \/ i < Len(seen)
      BY <1>1
    <3> QED
      BY <1>1, <2>1, <3>1 DEF PagesInv, NothingSkipped
  <2>4. \A x \in Entry : x.at \in Nat /\ x.id \in Nat
    BY HistoryAssumption DEF Entry
  <2> QED
    BY <2>1, <2>2, <2>3, <2>4 DEF Before
<1>10. \A i, j \in DOMAIN seen' : i < j => Before(seen'[i], seen'[j])
  <2> SUFFICES ASSUME NEW i \in DOMAIN seen', NEW j \in DOMAIN seen', i < j
               PROVE  Before(seen'[i], seen'[j])
    OBVIOUS
  <2>0. Len(seen) \in Nat /\ Len(q) \in Nat
    BY <1>1, <1>6
  <2>1. CASE j <= Len(seen)
    <3>1. i \in DOMAIN seen /\ j \in DOMAIN seen
      BY <1>1, <1>7, <2>0, <2>1
    <3> QED
      BY <1>1, <1>7, <3>1 DEF PagesInv, NothingSkipped
  <2>2. CASE i <= Len(seen) /\ j > Len(seen)
    <3>1. i \in 1 .. Len(seen) /\ j - Len(seen) \in 1 .. Len(q)
      BY <1>7, <2>0, <2>2
    <3>2. seen'[i] = seen[i] /\ seen'[Len(seen) + (j - Len(seen))] = q[j - Len(seen)]
      BY <1>7, <3>1
    <3>3. Len(seen) + (j - Len(seen)) = j
      BY <1>7, <2>0
    <3> QED
      BY <1>9, <3>1, <3>2, <3>3
  <2>3. CASE i > Len(seen)
    <3> DEFINE k == i - Len(seen)
               l == j - Len(seen)
    <3>1. k \in 1 .. Len(q) /\ l \in 1 .. Len(q) /\ k < l
      BY <1>7, <2>0, <2>3
    <3>2. Len(seen) + k = i /\ Len(seen) + l = j
      BY <1>7, <2>0
    <3> HIDE DEF k, l
    <3>3. seen'[i] = q[k] /\ seen'[j] = q[l]
      BY <1>7, <3>1, <3>2
    <3>4. DOMAIN q = 1 .. Len(q)
      BY <1>6
    <3> QED
      BY <1>5, <3>1, <3>3, <3>4
  <2> QED
    BY <1>7, <2>0, <2>1, <2>2, <2>3
<1>11. \A x : Listed(seen, x) \/ Listed(q, x) => Listed(seen', x)
  <2> TAKE x
  <2>0. Len(seen) \in Nat /\ Len(q) \in Nat /\ DOMAIN seen = 1 .. Len(seen) /\ DOMAIN q = 1 .. Len(q)
    BY <1>1, <1>6
  <2>1. ASSUME NEW i \in 1 .. Len(seen), seen[i] = x PROVE Listed(seen', x)
    <3>1. i \in DOMAIN seen' /\ seen'[i] = x
      BY <1>7, <2>0, <2>1
    <3> QED
      BY <3>1 DEF Listed
  <2>2. ASSUME NEW i \in 1 .. Len(q), q[i] = x PROVE Listed(seen', x)
    <3>1. Len(seen) + i \in DOMAIN seen' /\ seen'[Len(seen) + i] = x
      BY <1>7, <2>0, <2>2
    <3> QED
      BY <3>1 DEF Listed
  <2> QED
    BY <2>0, <2>1, <2>2 DEF Listed
<1>12. ASSUME NEW x \in kept', ~reading' \/ (cursor' # NoCursor /\ ~After(x, cursor'))
       PROVE  Listed(seen', x)
  <2>1. x \in kept /\ x \in history
    BY <1>1, <1>2
  <2>2. CASE x \notin S
    <3>1. cursor # NoCursor /\ ~After(x, cursor)
      BY <1>4, <2>1, <2>2
    <3>2. Listed(seen, x)
      BY <2>1, <3>1 DEF PagesInv, NothingSkipped, Listed
    <3> QED
      BY <1>11, <3>2
  <2>3. CASE x \in S
    <3>1. Listed(q, x)
      BY <1>2, <1>5, <1>12, <2>3
    <3> QED
      BY <1>11, <3>1
  <2> QED
    BY <2>2, <2>3
<1>13. NothingSkipped'
  BY <1>10, <1>12 DEF NothingSkipped, After, Listed
<1>14. cursor' # NoCursor => seen' # << >> /\ cursor' = seen'[Len(seen')] /\ cursor' \in Entry
  <2> SUFFICES ASSUME next # NoCursor
               PROVE  seen' # << >> /\ next = seen'[Len(seen')] /\ next \in Entry
    BY <1>2
  <2>1. Len(q) \in Nat /\ Len(q) > 0 /\ Len(seen) \in Nat /\ next = q[Len(q)] /\ next \in Entry
    BY <1>1, <1>5, <1>6
  <2>2. Len(seen') = Len(seen) + Len(q)
    BY <1>1, <1>2, <1>6
  <2> QED
    BY <1>7, <2>1, <2>2
<1> QED
  BY <1>1, <1>2, <1>7, <1>13, <1>14 DEF PagesInv, ReaderInv

\* Every step of the list and of its reader keeps the invariant.
LEMMA PagesStep == PagesInv /\ PagesNext => PagesInv'
<1> SUFFICES ASSUME PagesInv, PagesNext PROVE PagesInv'
  OBVIOUS
<1>1. CASE Join
  <2> PICK x \in Entry : history' = history \cup {x}
    BY <1>1 DEF Join
  <2>1. history' \subseteq Entry /\ IsFiniteSet(history')
    BY FS_AddElement DEF PagesInv, ReaderInv
  <2> QED
    BY <1>1, <2>1, RowsChange DEF Join, PagesInv, ReaderInv
<1>2. CASE Delete
  <2> PICK x \in history : history' = history \ {x} /\ kept' = kept \ {x}
    BY <1>2 DEF Delete
  <2>1. history' \subseteq Entry /\ IsFiniteSet(history')
    BY FS_RemoveElement DEF PagesInv, ReaderInv
  <2> QED
    BY <1>2, <2>1, RowsChange DEF Delete, PagesInv, ReaderInv
<1>3. CASE ReadPage
  BY <1>3, ReadPageKeeps
<1> QED
  BY <1>1, <1>2, <1>3 DEF PagesNext

-----------------------------------------------------------------------------
(* The audit log *)

\* The order of the log: greatest id first.
Newer == {p \in Event \X Event : p[1].id > p[2].id}

\* The primary key of audit_events.
UniqueIds(S) == \A x, y \in S : x.id = y.id => x = y

\* A pair of events is in Newer where the first has the greater id.
LEMMA NewerIsGreater ==
  ASSUME NEW x \in Event, NEW y \in Event
  PROVE  <<x, y>> \in Newer <=> x.id > y.id
  BY DEF Newer

\* Ids order the events because no two share one.
LEMMA EventsOrdered ==
  ASSUME NEW S, S \subseteq Event, IsFiniteSet(S), UniqueIds(S)
  PROVE  Ordered(S, Newer)
<1>1. \A x \in Event : x.id \in Nat
  BY AuditAssumption DEF Event
<1>2. \A x \in S : <<x, x>> \notin Newer
  BY <1>1, NewerIsGreater
<1>3. \A x, y \in S : x = y \/ <<x, y>> \in Newer \/ <<y, x>> \in Newer
  <2> SUFFICES ASSUME NEW x \in S, NEW y \in S, ~(x.id > y.id), ~(y.id > x.id) PROVE x = y
    BY NewerIsGreater
  <2>1. x.id = y.id
    BY <1>1
  <2> QED
    BY <2>1 DEF UniqueIds
<1>4. \A x, y, z \in S : <<x, y>> \in Newer /\ <<y, z>> \in Newer => <<x, z>> \in Newer
  BY <1>1, NewerIsGreater
<1> QED
  BY <1>2, <1>3, <1>4 DEF Ordered

\* NewestFirst lists its set in order and completely.
LEMMA NewestFirstLists ==
  ASSUME NEW S, S \subseteq Event, IsFiniteSet(S), UniqueIds(S)
  PROVE  /\ NewestFirst(S) \in [1 .. Cardinality(S) -> S]
         /\ \A i, j \in DOMAIN NewestFirst(S) :
              i < j => NewestFirst(S)[i].id > NewestFirst(S)[j].id
         /\ \A x \in S : Listed(NewestFirst(S), x)
<1> DEFINE Q == [1 .. Cardinality(S) -> S]
           Sorted(q) == \A i, j \in DOMAIN q : i < j => q[i].id > q[j].id
<1>1. Ordered(S, Newer)
  BY EventsOrdered
<1>2. \A q \in Q : Ascends(q, Newer) <=> Sorted(q)
  BY NewerIsGreater DEF Ascends
<1>3. \E q \in Q : Sorted(q)
  BY <1>1, <1>2, EnumerationExists
<1>4. NewestFirst(S) = CHOOSE q \in Q : Sorted(q)
  BY DEF NewestFirst
<1> HIDE DEF Sorted
<1>5. NewestFirst(S) \in Q /\ Sorted(NewestFirst(S))
  BY <1>3, <1>4
<1>6. \A x \in S : Listed(NewestFirst(S), x)
  BY <1>1, <1>2, <1>5, EnumerationIsOnto DEF Listed
<1> QED
  BY <1>5, <1>6 DEF Sorted

\* The matching events below the cursor.
OlderEvents(c) == {x \in Matching(events) : OlderThan(x, c)}

\* What listAuditEvents returns for a cursor: a page that is not full has all the
\* events below it, and after a full one the cursor is the id of its last event, with
\* every event down to it shown.
LEMMA EventsShown ==
  ASSUME events \subseteq Event, IsFiniteSet(events), UniqueIds(events),
         NEW c \in EventId \cup {NoEvent}
  PROVE  LET q == NewestFirst(Rows(c)) IN
         /\ q \in Seq(OlderEvents(c))
         /\ \A i, j \in DOMAIN q : i < j => q[i].id > q[j].id
         /\ NextBefore(q) = NoEvent => \A x \in OlderEvents(c) : Listed(q, x)
         /\ NextBefore(q) # NoEvent =>
              /\ q # << >>
              /\ NextBefore(q) = q[Len(q)].id
              /\ \A x \in OlderEvents(c) : x.id >= NextBefore(q) => Listed(q, x)
<1> DEFINE S == OlderEvents(c)
           T == Rows(c)
           q == NewestFirst(T)
<1>1. S \subseteq Event /\ IsFiniteSet(S) /\ UniqueIds(S)
  BY FS_Subset DEF OlderEvents, Matching, UniqueIds
<1>2. T \subseteq S /\ T = Lowest(S, Newer, PageLimit)
  <2>1. \A x \in S : {y \in S : y.id > x.id} = Below(S, Newer, x)
    BY <1>1, NewerIsGreater DEF Below
  <2> QED
    BY <2>1 DEF Rows, OlderEvents, Lowest, Rank
<1>3. IsFiniteSet(T) /\ UniqueIds(T)
  BY <1>1, <1>2, FS_Subset DEF UniqueIds
<1>4. PageLimit \in Nat /\ PageLimit > 0
  BY AuditAssumption
<1>5. Ordered(S, Newer)
  BY <1>1, EventsOrdered
<1>6. Cardinality(S) \in Nat /\ Cardinality(T) \in Nat
  BY <1>1, <1>3, FS_CardinalityType
<1> HIDE DEF S, T
<1>7. Cardinality(T) < PageLimit => T = S
  <2> SUFFICES ASSUME Cardinality(T) < PageLimit PROVE T = S
    OBVIOUS
  <2>1. ~(PageLimit <= Cardinality(S))
    BY <1>2, <1>4, <1>5, <1>6, LowestCount
  <2> QED
    BY <1>2, <1>4, <1>5, <1>6, <2>1, LowestAll
<1>8. ASSUME NEW x \in T, NEW y \in S, y.id > x.id PROVE y \in T
  <2>1. x \in Event /\ y \in Event /\ <<y, x>> \in Newer
    BY <1>1, <1>2, <1>8, NewerIsGreater
  <2> QED
    BY <1>2, <1>4, <1>5, <2>1, LowestClosed
<1>9. /\ q \in [1 .. Cardinality(T) -> T]
      /\ \A i, j \in DOMAIN q : i < j => q[i].id > q[j].id
      /\ \A x \in T : Listed(q, x)
  BY <1>1, <1>2, <1>3, NewestFirstLists
<1> HIDE DEF q
<1>10. q \in Seq(S) /\ Len(q) = Cardinality(T)
  BY <1>2, <1>6, <1>9
<1>11. CASE Cardinality(T) < PageLimit
  <2>1. NextBefore(q) = NoEvent
    BY <1>10, <1>11 DEF NextBefore
  <2> QED
    BY <1>7, <1>9, <1>10, <1>11, <2>1 DEF S, T, q
<1>12. CASE ~(Cardinality(T) < PageLimit)
  <2>1. NextBefore(q) = q[Len(q)].id
    BY <1>10, <1>12 DEF NextBefore
  <2>2. q # << >> /\ q[Len(q)] \in T
    BY <1>4, <1>6, <1>9, <1>10, <1>12
  <2>3. \A x \in Event : x.id \in Nat /\ x.id # NoEvent
    BY AuditAssumption DEF Event
  <2>4. ASSUME NEW x \in S, x.id >= q[Len(q)].id PROVE Listed(q, x)
    <3>1. x \in Event /\ q[Len(q)] \in S /\ q[Len(q)] \in Event
      BY <1>1, <1>2, <2>2
    <3>2. x = q[Len(q)] \/ x.id > q[Len(q)].id
      BY <1>1, <2>3, <2>4, <3>1 DEF UniqueIds
    <3>3. x \in T
      BY <1>8, <2>2, <3>2
    <3> QED
      BY <1>9, <3>3
  <2>5. q[Len(q)].id # NoEvent
    BY <1>1, <1>2, <2>2, <2>3
  <2> QED
    BY <1>9, <1>10, <2>1, <2>2, <2>4, <2>5 DEF S, T, q
<1> QED
  BY <1>11, <1>12

\* The reader stands at the last event it was shown; the events it was promised are
\* still there and still match.
LogInv ==
  /\ events \subseteq Event /\ IsFiniteSet(events) /\ UniqueIds(events)
  /\ filter \in Scope \cup {NoScope}
  /\ present \subseteq Matching(events)
  /\ before \in EventId \cup {NoEvent} /\ paging \in BOOLEAN
  /\ listed \in Seq(Event)
  /\ before = NoEvent /\ paging => listed = << >>
  /\ before # NoEvent => listed # << >> /\ before = listed[Len(listed)].id

\* Inductive, as PagesInv is.
AuditInv == LogInv /\ EveryEventListed

\* It holds when the reader begins, whatever the log and the filter.
LEMMA AuditStarts ==
  ASSUME NEW log \in SUBSET Event, IsFiniteSet(log), UniqueIds(log),
         NEW asked \in Scope \cup {NoScope}, AuditStart(log, asked)
  PROVE  AuditInv
<1>1. << >> \in Seq(Event)
  OBVIOUS
<1> QED
  BY <1>1 DEF AuditStart, AuditInv, LogInv, EveryEventListed

\* So it does for every initial state of the part.
LEMMA AuditInitHolds == AuditInit => AuditInv
  BY AuditStarts DEF AuditInit, UniqueIds

\* appendAuditEvent adds an event, above or below the cursor, under a new id.
LEMMA AppendEventKeeps ==
  ASSUME AuditInv, AppendEvent
  PROVE  AuditInv'
<1> PICK x \in Event : (\A y \in events : y.id # x.id) /\ events' = events \cup {x}
  BY DEF AppendEvent
<1>1. events' \subseteq Event /\ IsFiniteSet(events')
  BY FS_AddElement DEF AuditInv, LogInv
<1>2. UniqueIds(events')
  BY DEF AuditInv, LogInv, UniqueIds
<1>3. UNCHANGED <<filter, before, listed, paging, present>>
  BY DEF AppendEvent
<1>4. LogInv'
  BY <1>1, <1>2, <1>3 DEF AuditInv, LogInv, Matching, UniqueIds
<1> QED
  BY <1>3, <1>4 DEF AuditInv, EveryEventListed

\* Deleting an environment takes its name off its events, ids stay: a reader of that
\* environment is promised nothing more, any other reader loses nothing.
LEMMA DetachKeeps ==
  ASSUME AuditInv, Detach
  PROVE  AuditInv'
<1> PICK s \in Scope :
      /\ events' = {Unnamed(x, s) : x \in events}
      /\ present' = {Unnamed(x, s) : x \in {y \in present : filter # s}}
  BY DEF Detach
<1>1. UNCHANGED <<filter, before, listed, paging>>
  BY DEF Detach
<1>2. events \subseteq Event /\ IsFiniteSet(events) /\ UniqueIds(events) /\ present \subseteq Matching(events)
  BY DEF AuditInv, LogInv
<1>3. ASSUME NEW x \in Event
      PROVE  /\ Unnamed(x, s) \in Event /\ Unnamed(x, s).id = x.id
             /\ x.about # s => Unnamed(x, s) = x
  BY DEF Unnamed, Event
<1>4. events' \subseteq Event /\ UniqueIds(events')
  BY <1>2, <1>3 DEF UniqueIds
<1>5. IsFiniteSet(events')
  <2> DEFINE f == [x \in events |-> Unnamed(x, s)]
  <2>1. f \in [events -> events'] /\ \A y \in events' : \E x \in events : f[x] = y
    OBVIOUS
  <2>2. f \in Surjection(events, events')
    BY <2>1, Fun_IsSurj
  <2> HIDE DEF f
  <2> QED
    BY <1>2, <2>2, FS_Surjection
<1>6. present' \subseteq Matching(events)'
  <2> SUFFICES ASSUME NEW x \in present, filter # s PROVE Unnamed(x, s) \in Matching(events)'
    OBVIOUS
  <2>1. x \in events /\ x \in Event /\ (filter = NoScope \/ x.about = filter)
    BY <1>2 DEF Matching
  <2>2. Unnamed(x, s) \in events'
    BY <2>1
  <2>3. filter = NoScope \/ Unnamed(x, s).about = filter
    BY <1>3, <2>1
  <2> QED
    BY <1>1, <2>2, <2>3 DEF Matching
<1>7. LogInv'
  BY <1>1, <1>4, <1>5, <1>6 DEF AuditInv, LogInv, UniqueIds
<1>8. ASSUME NEW y \in present' PROVE \E x \in present : y.id = x.id
  <2>1. PICK x \in present : y = Unnamed(x, s)
    BY <1>8
  <2>2. x \in Event
    BY <1>2 DEF Matching
  <2> QED
    BY <1>3, <2>1, <2>2
<1>9. EveryEventListed'
  BY <1>1, <1>8 DEF AuditInv, EveryEventListed
<1> QED
  BY <1>7, <1>9 DEF AuditInv

\* A page appends the events below the cursor and moves it to the last of them.
LEMMA ReadEventsKeeps ==
  ASSUME AuditInv, ReadEvents
  PROVE  AuditInv'
<1> DEFINE q == NewestFirst(Rows(before))
           next == NextBefore(q)
           S == OlderEvents(before)
<1>1. /\ events \subseteq Event /\ IsFiniteSet(events) /\ UniqueIds(events)
      /\ present \subseteq Matching(events)
      /\ before \in EventId \cup {NoEvent} /\ listed \in Seq(Event)
      /\ filter \in Scope \cup {NoScope} /\ paging
  BY DEF AuditInv, LogInv, ReadEvents
<1>2. /\ listed' = listed \o q /\ before' = next /\ paging' = (next # NoEvent)
      /\ events' = events /\ filter' = filter /\ present' = present
  BY DEF ReadEvents
<1>3. /\ S \subseteq Event
      /\ \A x \in S : OlderThan(x, before) /\ (filter # NoScope => x.about = filter)
  BY <1>1 DEF OlderEvents, Matching
<1>4. \A x \in Matching(events) : x \notin S => before # NoEvent /\ ~(x.id < before)
  BY DEF OlderEvents, OlderThan
<1>5. /\ q \in Seq(S)
      /\ \A i, j \in DOMAIN q : i < j => q[i].id > q[j].id
      /\ next = NoEvent => \A x \in S : Listed(q, x)
      /\ next # NoEvent =>
           /\ q # << >> /\ next = q[Len(q)].id
           /\ \A x \in S : x.id >= next => Listed(q, x)
  BY <1>1, EventsShown
<1> HIDE DEF S, q, next
<1>e. \A x \in Event : x.id \in Nat /\ x.id \in EventId
  BY AuditAssumption DEF Event
<1>6. q \in Seq(Event) /\ \A j \in DOMAIN q : q[j] \in S
  BY <1>3, <1>5
<1>7. /\ listed' \in Seq(Event) /\ DOMAIN listed' = 1 .. Len(listed) + Len(q)
      /\ \A i \in 1 .. Len(listed) : listed'[i] = listed[i]
      /\ \A j \in 1 .. Len(q) : listed'[Len(listed) + j] = q[j]
  BY <1>1, <1>2, <1>6
<1>l. Len(listed) \in Nat /\ Len(q) \in Nat /\ DOMAIN listed = 1 .. Len(listed) /\ DOMAIN q = 1 .. Len(q)
  BY <1>1, <1>6
<1>s. ASSUME NEW i \in DOMAIN listed'
      PROVE  \/ i \in DOMAIN listed /\ listed'[i] = listed[i]
             \/ \E k \in DOMAIN q : i = Len(listed) + k /\ listed'[i] = q[k]
  <2>1. CASE i <= Len(listed)
    BY <1>7, <1>l, <2>1
  <2>2. CASE i > Len(listed)
    <3>1. i - Len(listed) \in DOMAIN q /\ i = Len(listed) + (i - Len(listed))
      BY <1>7, <1>l, <2>2
    <3> QED
      BY <1>7, <1>l, <3>1
  <2> QED
    BY <1>7, <1>l, <2>1, <2>2
<1>8. before = NoEvent => listed = << >>
  BY <1>1 DEF AuditInv, LogInv
<1>9. ASSUME NEW i \in DOMAIN listed, NEW j \in DOMAIN q PROVE listed[i].id > q[j].id
  <2>1. before # NoEvent /\ before = listed[Len(listed)].id /\ before \in Nat
    BY <1>1, <1>8, <1>9, <1>l, AuditAssumption DEF AuditInv, LogInv
  <2>2. q[j] \in Event /\ listed[i] \in Event /\ q[j].id < before
    BY <1>1, <1>3, <1>6, <2>1 DEF OlderThan
  <2>3. listed[i].id >= before
    <3>1. i = Len(listed) \/ i < Len(listed)
      BY <1>l
    <3>2. Len(listed) \in DOMAIN listed
      BY <1>l
    <3>3. i < Len(listed) => listed[i].id > before
      BY <2>1, <3>2 DEF AuditInv, EveryEventListed
    <3> QED
      BY <1>e, <2>1, <2>2, <3>1, <3>3
  <2> QED
    BY <1>e, <2>1, <2>2, <2>3
<1>10. \A i, j \in DOMAIN listed' : i < j => listed'[i].id > listed'[j].id
  <2> SUFFICES ASSUME NEW i \in DOMAIN listed', NEW j \in DOMAIN listed', i < j
               PROVE  listed'[i].id > listed'[j].id
    OBVIOUS
  <2>1. CASE i \in DOMAIN listed /\ listed'[i] = listed[i]
    <3>1. CASE j \in DOMAIN listed /\ listed'[j] = listed[j]
      BY <2>1, <3>1 DEF AuditInv, EveryEventListed
    <3>2. CASE \E k \in DOMAIN q : j = Len(listed) + k /\ listed'[j] = q[k]
      BY <1>9, <2>1, <3>2
    <3> QED
      BY <1>s, <3>1, <3>2
  <2>2. CASE \E k \in DOMAIN q : i = Len(listed) + k /\ listed'[i] = q[k]
    <3> PICK k \in DOMAIN q : i = Len(listed) + k /\ listed'[i] = q[k]
      BY <2>2
    <3>1. CASE j \in DOMAIN listed
      BY <1>7, <1>l, <3>1
    <3>2. CASE \E m \in DOMAIN q : j = Len(listed) + m /\ listed'[j] = q[m]
      <4> PICK m \in DOMAIN q : j = Len(listed) + m /\ listed'[j] = q[m]
        BY <3>2
      <4>1. k < m
        BY <1>l
      <4> QED
        BY <1>5, <4>1
    <3> QED
      BY <1>s, <3>1, <3>2
  <2> QED
    BY <1>s, <2>1, <2>2
<1>11. \A i \in DOMAIN listed' : filter' # NoScope => listed'[i].about = filter'
  <2> TAKE i \in DOMAIN listed'
  <2>1. CASE i \in DOMAIN listed /\ listed'[i] = listed[i]
    BY <1>2, <2>1 DEF AuditInv, EveryEventListed
  <2>2. CASE \E k \in DOMAIN q : i = Len(listed) + k /\ listed'[i] = q[k]
    BY <1>2, <1>3, <1>6, <2>2
  <2> QED
    BY <1>s, <2>1, <2>2
<1>12. ASSUME NEW x \in present', ~paging' \/ (before' # NoEvent /\ x.id >= before')
       PROVE  \E i \in DOMAIN listed' : listed'[i].id = x.id
  <2>1. x \in present /\ x \in Matching(events) /\ x \in Event
    BY <1>1, <1>2 DEF Matching
  <2>2. CASE x \notin S
    <3>1. before # NoEvent /\ x.id >= before
      BY <1>1, <1>4, <1>e, <2>1, <2>2, AuditAssumption
    <3>2. PICK i \in DOMAIN listed : listed[i].id = x.id
      BY <2>1, <3>1 DEF AuditInv, EveryEventListed
    <3>3. i \in DOMAIN listed' /\ listed'[i] = listed[i]
      BY <1>7, <1>l
    <3> QED
      BY <3>2, <3>3
  <2>3. CASE x \in S
    <3>1. Listed(q, x)
      BY <1>2, <1>5, <1>12, <2>3
    <3>2. PICK k \in DOMAIN q : q[k] = x
      BY <3>1 DEF Listed
    <3>3. Len(listed) + k \in DOMAIN listed' /\ listed'[Len(listed) + k] = x
      BY <1>7, <1>l, <3>2
    <3> QED
      BY <3>3
  <2> QED
    BY <2>2, <2>3
<1>13. EveryEventListed'
  BY <1>10, <1>11, <1>12 DEF EveryEventListed
<1>14. before' # NoEvent =>
         listed' # << >> /\ before' = listed'[Len(listed')].id /\ before' \in EventId
  <2> SUFFICES ASSUME next # NoEvent
               PROVE  listed' # << >> /\ next = listed'[Len(listed')].id /\ next \in EventId
    BY <1>2
  <2>1. Len(q) > 0 /\ next = q[Len(q)].id /\ q[Len(q)] \in Event
    BY <1>5, <1>6, <1>l
  <2>2. Len(listed') = Len(listed) + Len(q)
    BY <1>1, <1>2, <1>6
  <2>3. listed'[Len(listed')] = q[Len(q)]
    BY <1>7, <1>l, <2>1, <2>2
  <2>4. Len(listed') > 0
    BY <1>l, <2>1, <2>2
  <2> QED
    BY <1>e, <1>7, <2>1, <2>3, <2>4
<1>15. paging' \in BOOLEAN /\ (before' = NoEvent => ~paging') /\ present' \subseteq Matching(events)'
  BY <1>1, <1>2 DEF Matching
<1> QED
  BY <1>1, <1>2, <1>7, <1>13, <1>14, <1>15 DEF AuditInv, LogInv, UniqueIds

\* Every step of the log and of its reader keeps the invariant.
LEMMA AuditStep == AuditInv /\ AuditNext => AuditInv'
  BY AppendEventKeeps, DetachKeeps, ReadEventsKeeps DEF AuditNext

=============================================================================
