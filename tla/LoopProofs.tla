----------------------------- MODULE LoopProofs -----------------------------
(***************************************************************************)
(* What the loops of the operators' side compute, for every input: those   *)
(* of compareVersions (Releases) the order of SemVer 2.0.0, the match of   *)
(* an address with a range (TokenGate) membership in an interval of        *)
(* numbers, and BuildEnv (ChildEnv) an environment that has each name      *)
(* once, as SecretsWin says.                                               *)
(*                                                                         *)
(* The latter two are recursive functions, that is choices among the       *)
(* solutions of an equation.  So there is, for each, a lemma that a        *)
(* solution exists and one that says what holds of every stage of it.      *)
(* Both go up from 0 one by one, which Upwards justifies: a set of numbers *)
(* that is left somewhere is left at a least one.                          *)
(***************************************************************************)
EXTENDS TokenGate, ChildEnv, Releases, TLAPS, WellFoundedInduction

\* A set of natural numbers has a least element.
LEMMA LeastNat ==
  ASSUME NEW S \in SUBSET Nat, S # {}
  PROVE  \E x \in S : \A y \in S : x <= y
<1>1. \E x \in S : \A y \in S : ~(<<y, x>> \in OpToRel(<, Nat))
  <2> DEFINE R == OpToRel(<, Nat)
  <2>1. IsWellFoundedOn(R, Nat)
    BY NatLessThanWellFounded
  <2> HIDE DEF R
  <2>2. \E x \in S : \A y \in S : ~(<<y, x>> \in R)
    BY <2>1, WFMin, Zenon
  <2> QED
    BY <2>2 DEF R
<1>2. PICK x \in S : \A y \in S : ~(<<y, x>> \in OpToRel(<, Nat))
  BY <1>1
<1>3. \A y \in S : ~(y < x)
  BY <1>2 DEF OpToRel
<1> QED
  BY <1>3

\* Induction over the numbers up to n, told of the set that satisfies it.
LEMMA Upwards ==
  ASSUME NEW n \in Nat, NEW S, 0 \in S, \A m \in 1 .. n : m - 1 \in S => m \in S
  PROVE  0 .. n \subseteq S
<1> SUFFICES ASSUME (0 .. n) \ S # {} PROVE FALSE
  OBVIOUS
<1>1. (0 .. n) \ S \in SUBSET Nat
  OBVIOUS
<1>2. PICK m \in (0 .. n) \ S : \A y \in (0 .. n) \ S : m <= y
  BY <1>1, LeastNat
<1>3. m # 0 /\ m \in 1 .. n /\ m - 1 \in 0 .. n
  BY <1>2
<1>4. m - 1 \in S
  BY <1>2, <1>3
<1> QED
  BY <1>3, <1>4

-----------------------------------------------------------------------------
(* The order of versions *)

\* R, a set of pairs, is a strict total order of S.
StrictTotal(R, S) ==
  /\ \A x \in S : <<x, x>> \notin R
  /\ \A x, y \in S : x = y \/ <<x, y>> \in R \/ <<y, x>> \in R
  /\ \A x, y, z \in S : <<x, y>> \in R /\ <<y, z>> \in R => <<x, z>> \in R

\* x is a proper beginning of y.
Begins(x, y) == Len(x) < Len(y) /\ \A i \in DOMAIN x : x[i] = y[i]

\* x and y differ at i and not before.
DifferAt(x, y, i) ==
  /\ i \in DOMAIN x /\ i \in DOMAIN y /\ x[i] # y[i]
  /\ \A k \in 1 .. i - 1 : x[k] = y[k]

\* Two sequences are equal, or one begins the other, or they differ somewhere first.
LEMMA FirstDifference ==
  ASSUME NEW S, NEW x \in Seq(S), NEW y \in Seq(S), x # y
  PROVE  Begins(x, y) \/ Begins(y, x) \/ \E i \in Nat : DifferAt(x, y, i)
<1> DEFINE D == {i \in DOMAIN x : i \in DOMAIN y /\ x[i] # y[i]}
<1>1. DOMAIN x = 1 .. Len(x) /\ DOMAIN y = 1 .. Len(y) /\ Len(x) \in Nat /\ Len(y) \in Nat
  OBVIOUS
<1>2. CASE D # {}
  <2>1. D \in SUBSET Nat
    BY <1>1
  <2>2. PICK i \in D : \A k \in D : i <= k
    BY <1>2, <2>1, LeastNat
  <2>3. \A k \in 1 .. i - 1 : k \in DOMAIN x /\ k \in DOMAIN y /\ k \notin D
    BY <1>1, <2>1, <2>2
  <2>4. DifferAt(x, y, i)
    BY <2>2, <2>3 DEF DifferAt
  <2> QED
    BY <2>1, <2>2, <2>4
<1>3. CASE D = {}
  <2>1. \A i \in DOMAIN x : i \in DOMAIN y => x[i] = y[i]
    BY <1>3
  <2>2. CASE Len(x) = Len(y)
    BY <1>1, <2>1, <2>2
  <2>3. CASE Len(x) < Len(y)
    BY <1>1, <2>1, <2>3 DEF Begins
  <2>4. CASE Len(y) < Len(x)
    BY <1>1, <2>1, <2>4 DEF Begins
  <2>5. Len(x) = Len(y) \/ Len(x) < Len(y) \/ Len(y) < Len(x)
    <3>1. \A m, k \in Nat : m = k \/ m < k \/ k < m
      OBVIOUS
    <3> QED
      BY <1>1, <3>1, Zenon
  <2> QED
    BY <2>2, <2>3, <2>4, <2>5
<1> QED
  BY <1>2, <1>3

\* In Lexical the beginning comes first, otherwise the first difference decides.
LEMMA LexicalCases ==
  ASSUME NEW S, NEW R, StrictTotal(R, S), NEW x \in Seq(S), NEW y \in Seq(S)
  PROVE  Lexical(x, y, R) <=>
           Begins(x, y) \/ \E i \in Nat : DifferAt(x, y, i) /\ <<x[i], y[i]>> \in R
<1>1. DOMAIN x \subseteq Nat
  OBVIOUS
<1>2. \A i \in DOMAIN x \cap DOMAIN y : <<x[i], y[i]>> \in R => x[i] # y[i]
  BY DEF StrictTotal
<1>3. Lexical(x, y, R) => Begins(x, y) \/ \E i \in Nat : DifferAt(x, y, i) /\ <<x[i], y[i]>> \in R
  BY <1>1, <1>2 DEF Lexical, Begins, DifferAt
<1>4. ASSUME NEW i \in Nat, DifferAt(x, y, i), <<x[i], y[i]>> \in R PROVE Lexical(x, y, R)
  BY <1>4 DEF Lexical, DifferAt
<1>5. Begins(x, y) => Lexical(x, y, R)
  BY DEF Begins, Lexical
<1> QED
  BY <1>3, <1>4, <1>5

\* Lexical orders the sequences over an ordered set.
LEMMA LexicalIrreflexive ==
  ASSUME NEW S, NEW R, StrictTotal(R, S), NEW x \in Seq(S)
  PROVE  ~Lexical(x, x, R)
<1>1. ~Begins(x, x) /\ \A i \in Nat : ~DifferAt(x, x, i)
  BY DEF Begins, DifferAt
<1> QED
  BY <1>1, LexicalCases

\* Of two different lists one comes before the other, if it is so for their elements.
LEMMA LexicalTotal ==
  ASSUME NEW S, NEW R, StrictTotal(R, S), NEW x \in Seq(S), NEW y \in Seq(S), x # y
  PROVE  Lexical(x, y, R) \/ Lexical(y, x, R)
<1>1. ASSUME NEW i \in Nat, DifferAt(x, y, i) PROVE Lexical(x, y, R) \/ Lexical(y, x, R)
  <2>1. x[i] \in S /\ y[i] \in S /\ x[i] # y[i]
    BY <1>1 DEF DifferAt
  <2>2. <<x[i], y[i]>> \in R \/ <<y[i], x[i]>> \in R
    BY <2>1 DEF StrictTotal
  <2>3. DifferAt(y, x, i)
    BY <1>1 DEF DifferAt
  <2> QED
    BY <1>1, <2>2, <2>3, LexicalCases
<1> QED
  BY <1>1, FirstDifference, LexicalCases

\* Three sequences.
LEMMA LexicalTransitive ==
  ASSUME NEW S, NEW R, StrictTotal(R, S), NEW x \in Seq(S), NEW y \in Seq(S), NEW z \in Seq(S),
         Lexical(x, y, R), Lexical(y, z, R)
  PROVE  Lexical(x, z, R)
<1>1. /\ DOMAIN x = 1 .. Len(x) /\ DOMAIN y = 1 .. Len(y) /\ DOMAIN z = 1 .. Len(z)
      /\ Len(x) \in Nat /\ Len(y) \in Nat /\ Len(z) \in Nat
  OBVIOUS
<1>2. \/ Begins(x, y) \/ \E i \in Nat : DifferAt(x, y, i) /\ <<x[i], y[i]>> \in R
  BY LexicalCases
<1>3. \/ Begins(y, z) \/ \E i \in Nat : DifferAt(y, z, i) /\ <<y[i], z[i]>> \in R
  BY LexicalCases
<1>4. CASE Begins(x, y) /\ Begins(y, z)
  <2>1. Begins(x, z)
    BY <1>1, <1>4 DEF Begins
  <2> QED
    BY <2>1, LexicalCases
<1>5. ASSUME NEW j \in Nat, DifferAt(y, z, j), <<y[j], z[j]>> \in R, Begins(x, y)
      PROVE  Lexical(x, z, R)
  <2>1. CASE j \in DOMAIN x
    <3>1. \A k \in 1 .. j : k \in DOMAIN x /\ x[k] = y[k]
      BY <1>1, <1>5, <2>1 DEF Begins
    <3>2. DifferAt(x, z, j) /\ x[j] = y[j]
      <4>1. j \in 1 .. j /\ 1 .. j - 1 \subseteq 1 .. j
        BY <1>1, <2>1
      <4> QED
        BY <1>5, <2>1, <3>1, <4>1 DEF DifferAt
    <3> QED
      BY <1>5, <3>2, LexicalCases
  <2>2. CASE j \notin DOMAIN x
    <3>1. Len(x) < j /\ j <= Len(z)
      BY <1>1, <1>5, <2>2 DEF DifferAt
    <3>2. \A k \in DOMAIN x : x[k] = y[k] /\ k \in 1 .. j - 1
      BY <1>1, <1>5, <3>1 DEF Begins
    <3>3. Begins(x, z)
      BY <1>1, <1>5, <3>1, <3>2 DEF Begins, DifferAt
    <3> QED
      BY <3>3, LexicalCases
  <2> QED
    BY <2>1, <2>2
<1>6. ASSUME NEW i \in Nat, DifferAt(x, y, i), <<x[i], y[i]>> \in R, Begins(y, z)
      PROVE  Lexical(x, z, R)
  <2>1. \A k \in 1 .. i : k \in DOMAIN y /\ k \in DOMAIN z /\ z[k] = y[k]
    <3>1. i \in 1 .. Len(y)
      BY <1>1, <1>6 DEF DifferAt
    <3> QED
      BY <1>1, <1>6, <3>1 DEF Begins
  <2>2. i \in 1 .. i /\ 1 .. i - 1 \subseteq 1 .. i
    BY <1>1, <1>6 DEF DifferAt
  <2>3. DifferAt(x, z, i) /\ z[i] = y[i]
    BY <1>6, <2>1, <2>2 DEF DifferAt
  <2> QED
    BY <1>6, <2>3, LexicalCases
<1>7. ASSUME NEW i \in Nat, DifferAt(x, y, i), <<x[i], y[i]>> \in R,
             NEW j \in Nat, DifferAt(y, z, j), <<y[j], z[j]>> \in R
      PROVE  Lexical(x, z, R)
  <2>1. CASE i < j
    <3>1. DifferAt(x, z, i) /\ z[i] = y[i]
      BY <1>1, <1>7, <2>1 DEF DifferAt
    <3> QED
      BY <1>7, <3>1, LexicalCases
  <2>2. CASE j < i
    <3>1. DifferAt(x, z, j) /\ x[j] = y[j]
      BY <1>1, <1>7, <2>2 DEF DifferAt
    <3> QED
      BY <1>7, <3>1, LexicalCases
  <2>3. CASE i = j
    <3>1. x[i] \in S /\ y[i] \in S /\ z[i] \in S
      BY <1>7, <2>3 DEF DifferAt
    <3>2. <<x[i], z[i]>> \in R /\ x[i] # z[i]
      BY <1>7, <2>3, <3>1 DEF StrictTotal
    <3>3. DifferAt(x, z, i)
      BY <1>1, <1>7, <2>3, <3>2 DEF DifferAt
    <3> QED
      BY <3>2, <3>3, LexicalCases
  <2> QED
    BY <2>1, <2>2, <2>3
<1> QED
  BY <1>2, <1>3, <1>4, <1>5, <1>6, <1>7

-----------------------------------------------------------------------------
(* compareVersions *)

\* The loop returns at the first result that is not 0.
LEMMA FirstResultAt ==
  ASSUME NEW n \in Nat, NEW r, DOMAIN r = 1 .. n, NEW i \in 1 .. n, r[i] # 0,
         \A k \in 1 .. i - 1 : r[k] = 0
  PROVE  FirstResult(r) = r[i]
<1> DEFINE found == {k \in DOMAIN r : r[k] # 0}
<1>1. i \in found /\ \A k \in found : i <= k
  OBVIOUS
<1>2. \A j \in found : (\A k \in found : j <= k) => j = i
  BY <1>1
<1>3. (CHOOSE j \in found : \A k \in found : j <= k) = i
  <2> HIDE DEF found
  <2> QED
    BY <1>1, <1>2
<1> QED
  BY <1>1, <1>3 DEF FirstResult

\* It returns 0 if there is none.
LEMMA FirstResultNone ==
  ASSUME NEW n \in Nat, NEW r, DOMAIN r = 1 .. n, \A i \in 1 .. n : r[i] = 0
  PROVE  FirstResult(r) = 0
<1>1. {i \in DOMAIN r : r[i] # 0} = {}
  OBVIOUS
<1> QED
  BY <1>1 DEF FirstResult

\* c is the result of comparing x with y: x is before y where less says so.
Decides(c, x, y, less) ==
  /\ c \in {-1, 0, 1}
  /\ c = 0 <=> x = y
  /\ c = -1 <=> less

\* r has the result of every pass of a loop over the elements of x and y, ordered by R.
Compares(r, x, y, R) ==
  /\ DOMAIN r = 1 .. (IF Len(x) > Len(y) THEN Len(x) ELSE Len(y))
  /\ \A i \in DOMAIN r :
       /\ i \notin DOMAIN x => r[i] = -1
       /\ i \in DOMAIN x /\ i \notin DOMAIN y => r[i] = 1
       /\ i \in DOMAIN x /\ i \in DOMAIN y => Decides(r[i], x[i], y[i], <<x[i], y[i]>> \in R)

\* Such a loop compares the sequences in the order of Lexical.
LEMMA LoopCompares ==
  ASSUME NEW S, NEW R, StrictTotal(R, S), NEW x \in Seq(S), NEW y \in Seq(S),
         NEW r, Compares(r, x, y, R)
  PROVE  Decides(FirstResult(r), x, y, Lexical(x, y, R))
<1> DEFINE n == IF Len(x) > Len(y) THEN Len(x) ELSE Len(y)
<1>1. /\ DOMAIN x = 1 .. Len(x) /\ DOMAIN y = 1 .. Len(y)
      /\ Len(x) \in Nat /\ Len(y) \in Nat /\ n \in Nat /\ Len(x) <= n /\ Len(y) <= n
  OBVIOUS
<1>2. DOMAIN r = 1 .. n
  BY DEF Compares
<1>3. /\ \A i \in 1 .. n : i \notin DOMAIN x => r[i] = -1
      /\ \A i \in 1 .. n : i \in DOMAIN x /\ i \notin DOMAIN y => r[i] = 1
      /\ \A i \in DOMAIN x \cap DOMAIN y :
           Decides(r[i], x[i], y[i], <<x[i], y[i]>> \in R)
  BY <1>1, <1>2 DEF Compares
<1>4. ~(Lexical(x, y, R) /\ Lexical(y, x, R))
  BY LexicalTransitive, LexicalIrreflexive
<1> HIDE DEF n
<1>5. CASE x = y
  <2>1. \A i \in 1 .. n : r[i] = 0
    <3>1. \A i \in DOMAIN x : r[i] = 0
      BY <1>3, <1>5 DEF Decides
    <3>2. n = Len(x)
      BY <1>5 DEF n
    <3> QED
      BY <1>1, <3>1, <3>2
  <2>2. FirstResult(r) = 0
    BY <1>1, <1>2, <2>1, FirstResultNone
  <2>3. ~Lexical(x, y, R)
    BY <1>4, <1>5
  <2> QED
    BY <1>5, <2>2, <2>3 DEF Decides
<1>6. ASSUME NEW i \in Nat, DifferAt(x, y, i), x # y
      PROVE  Decides(FirstResult(r), x, y, Lexical(x, y, R))
  <2>1. i \in 1 .. n /\ i \in DOMAIN x /\ i \in DOMAIN y /\ x[i] # y[i]
    BY <1>1, <1>6 DEF DifferAt
  <2>2. \A k \in 1 .. i - 1 : k \in DOMAIN x /\ k \in DOMAIN y /\ x[k] = y[k]
    BY <1>1, <1>6, <2>1 DEF DifferAt
  <2>3. \A k \in 1 .. i - 1 : r[k] = 0
    BY <1>3, <2>2 DEF Decides
  <2>4. r[i] \in {-1, 1} /\ (r[i] = -1 <=> <<x[i], y[i]>> \in R)
    BY <1>3, <2>1 DEF Decides
  <2>5. FirstResult(r) = r[i]
    BY <1>1, <1>2, <2>1, <2>3, <2>4, FirstResultAt
  <2>6. <<x[i], y[i]>> \in R => Lexical(x, y, R)
    BY <1>6, LexicalCases
  <2>7. ~(<<x[i], y[i]>> \in R) => Lexical(y, x, R)
    <3>1. ~(<<x[i], y[i]>> \in R) => <<y[i], x[i]>> \in R
      <4>1. x[i] \in S /\ y[i] \in S
        BY <2>1
      <4> QED
        BY <2>1, <4>1 DEF StrictTotal
    <3>2. DifferAt(y, x, i)
      BY <1>6 DEF DifferAt
    <3> QED
      BY <3>1, <3>2, LexicalCases
  <2> QED
    BY <1>4, <1>6, <2>4, <2>5, <2>6, <2>7 DEF Decides
<1>7. CASE Begins(x, y) /\ x # y
  <2> DEFINE i == Len(x) + 1
  <2>1. i \in 1 .. n /\ i \notin DOMAIN x
    BY <1>1, <1>7 DEF Begins
  <2>2. \A k \in 1 .. i - 1 : k \in DOMAIN x /\ k \in DOMAIN y /\ x[k] = y[k]
    BY <1>1, <1>7 DEF Begins
  <2>3. \A k \in 1 .. i - 1 : r[k] = 0
    BY <1>3, <2>2 DEF Decides
  <2> HIDE DEF i
  <2>4. r[i] = -1
    BY <1>3, <2>1
  <2>5. FirstResult(r) = -1
    BY <1>1, <1>2, <2>1, <2>3, <2>4, FirstResultAt
  <2>6. Lexical(x, y, R)
    BY <1>7, LexicalCases
  <2> QED
    BY <1>7, <2>5, <2>6 DEF Decides
<1>8. CASE Begins(y, x) /\ x # y
  <2> DEFINE i == Len(y) + 1
  <2>1. i \in 1 .. n /\ i \notin DOMAIN y /\ i \in DOMAIN x
    BY <1>1, <1>8 DEF Begins
  <2>2. \A k \in 1 .. i - 1 : k \in DOMAIN x /\ k \in DOMAIN y /\ x[k] = y[k]
    BY <1>1, <1>8 DEF Begins
  <2>3. \A k \in 1 .. i - 1 : r[k] = 0
    BY <1>3, <2>2 DEF Decides
  <2> HIDE DEF i
  <2>4. r[i] = 1
    BY <1>3, <2>1
  <2>5. FirstResult(r) = 1
    BY <1>1, <1>2, <2>1, <2>3, <2>4, FirstResultAt
  <2>6. Lexical(y, x, R)
    BY <1>8, LexicalCases
  <2> QED
    BY <1>4, <1>8, <2>5, <2>6 DEF Decides
<1> QED
  BY <1>5, <1>6, <1>7, <1>8, FirstDifference

\* Numbers are ordered by value.
LEMMA NumbersOrdered ==
  /\ StrictTotal(NumberOrder, Nat)
  /\ \A m, n \in Nat : Decides(CompareNumbers(m, n), m, n, <<m, n>> \in NumberOrder)
<1>1. \A m, n \in Nat : <<m, n>> \in NumberOrder <=> m < n
  BY DEF NumberOrder
<1>2. StrictTotal(NumberOrder, Nat)
  <2>1. \A m \in Nat : <<m, m>> \notin NumberOrder
    BY <1>1
  <2>2. \A m, n \in Nat : m = n \/ <<m, n>> \in NumberOrder \/ <<n, m>> \in NumberOrder
    <3>1. \A m, n \in Nat : m = n \/ m < n \/ n < m
      OBVIOUS
    <3> QED
      BY <1>1, <3>1, Zenon
  <2>3. ASSUME NEW l \in Nat, NEW m \in Nat, NEW n \in Nat,
               <<l, m>> \in NumberOrder, <<m, n>> \in NumberOrder
        PROVE  <<l, n>> \in NumberOrder
    BY <1>1, <2>3
  <2> QED
    BY <2>1, <2>2, <2>3 DEF StrictTotal
<1>3. ASSUME NEW m \in Nat, NEW n \in Nat
      PROVE  Decides(CompareNumbers(m, n), m, n, <<m, n>> \in NumberOrder)
  BY <1>1 DEF Decides, CompareNumbers
<1> QED
  BY <1>2, <1>3

\* JavaScript compares strings as section 11 wants words compared.
LEMMA TextIsLexical ==
  ASSUME NEW x \in Seq(Nat), NEW y \in Seq(Nat), x # y
  PROVE  GreaterText(x, y) <=> Lexical(y, x, NumberOrder)
<1>1. /\ DOMAIN x = 1 .. Len(x) /\ DOMAIN y = 1 .. Len(y)
      /\ Len(x) \in Nat /\ Len(y) \in Nat
      /\ \A i \in DOMAIN x : x[i] \in Nat
      /\ \A i \in DOMAIN y : y[i] \in Nat
  OBVIOUS
<1>2. \A m, n \in Nat : <<m, n>> \in NumberOrder <=> n > m
  BY DEF NumberOrder
<1>3. ASSUME GreaterText(x, y) PROVE Lexical(y, x, NumberOrder)
  <2>1. PICK i \in DOMAIN x : /\ \A k \in 1 .. i - 1 : k \in DOMAIN y /\ x[k] = y[k]
                              /\ i \in DOMAIN y => x[i] > y[i]
    BY <1>3 DEF GreaterText
  <2>2. CASE i \in DOMAIN y
    <3>1. <<y[i], x[i]>> \in NumberOrder
      BY <1>1, <1>2, <2>1, <2>2
    <3> QED
      BY <2>1, <2>2, <3>1 DEF Lexical
  <2>3. CASE i \notin DOMAIN y
    <3>1. Len(y) < i /\ i <= Len(x) /\ i \in Nat
      BY <1>1, <2>3
    <3>2. DOMAIN y \subseteq 1 .. i - 1
      BY <1>1, <3>1
    <3>3. Len(y) < Len(x) /\ \A k \in DOMAIN y : y[k] = x[k]
      BY <1>1, <2>1, <3>1, <3>2
    <3> QED
      BY <3>3 DEF Lexical
  <2> QED
    BY <2>2, <2>3
<1>4. ASSUME NEW i \in DOMAIN y \cap DOMAIN x, <<y[i], x[i]>> \in NumberOrder,
             \A k \in 1 .. i - 1 : y[k] = x[k]
      PROVE  GreaterText(x, y)
  <2>1. x[i] > y[i]
    BY <1>1, <1>2, <1>4
  <2>2. \A k \in 1 .. i - 1 : k \in DOMAIN y
    BY <1>1
  <2> QED
    BY <1>4, <2>1, <2>2 DEF GreaterText
<1>5. ASSUME Len(y) < Len(x), \A k \in DOMAIN y : y[k] = x[k] PROVE GreaterText(x, y)
  <2> DEFINE i == Len(y) + 1
  <2>1. i \in DOMAIN x /\ i \notin DOMAIN y /\ 1 .. i - 1 = DOMAIN y
    BY <1>1, <1>5
  <2> HIDE DEF i
  <2> QED
    BY <1>5, <2>1 DEF GreaterText
<1> QED
  BY <1>3, <1>4, <1>5 DEF Lexical

\* What identifiers consist of.
LEMMA IdentifierShape ==
  ASSUME NEW x \in Identifier
  PROVE  /\ x.word \in BOOLEAN /\ x.val \in Seq(Nat)
         /\ x = [word |-> x.word, val |-> x.val]
         /\ ~x.word => x.val[1] \in Nat /\ x.val = <<x.val[1]>>
<1>1. x \in [word : BOOLEAN, val : Seq(Nat)] /\ (x.word \/ Len(x.val) = 1)
  BY DEF Identifier
<1>2. ASSUME Len(x.val) = 1 PROVE x.val[1] \in Nat /\ x.val = <<x.val[1]>>
  BY <1>1, <1>2
<1> QED
  BY <1>1, <1>2

\* When one identifier comes before another.
LEMMA IdentifierCases ==
  ASSUME NEW x \in Identifier, NEW y \in Identifier
  PROVE  <<x, y>> \in IdentifierOrder <=>
           \/ ~x.word /\ ~y.word /\ x.val[1] < y.val[1]
           \/ x.word /\ y.word /\ Lexical(x.val, y.val, NumberOrder)
           \/ ~x.word /\ y.word
  BY DEF IdentifierOrder

\* Identifiers are ordered, and compareVersions compares two of them so.
LEMMA IdentifiersOrdered ==
  /\ StrictTotal(IdentifierOrder, Identifier)
  /\ \A x, y \in Identifier :
       Decides(CompareIdentifiers(x, y), x, y, <<x, y>> \in IdentifierOrder)
<1>1. ASSUME NEW x \in Identifier PROVE <<x, x>> \notin IdentifierOrder
  <2>1. ~Lexical(x.val, x.val, NumberOrder)
    BY IdentifierShape, NumbersOrdered, LexicalIrreflexive
  <2>2. ~x.word => ~(x.val[1] < x.val[1])
    BY IdentifierShape
  <2> QED
    BY <2>1, <2>2, IdentifierCases
<1>2. ASSUME NEW x \in Identifier, NEW y \in Identifier, x # y
      PROVE  /\ <<x, y>> \in IdentifierOrder \/ <<y, x>> \in IdentifierOrder
             /\ Decides(CompareIdentifiers(x, y), x, y, <<x, y>> \in IdentifierOrder)
  <2>1. CASE ~x.word /\ ~y.word
    <3>1. x.val[1] \in Nat /\ y.val[1] \in Nat /\ x.val[1] # y.val[1]
      BY <1>2, <2>1, IdentifierShape
    <3>2. <<x, y>> \in IdentifierOrder <=> x.val[1] < y.val[1]
      BY <2>1, IdentifierCases
    <3>3. <<y, x>> \in IdentifierOrder <=> y.val[1] < x.val[1]
      BY <2>1, IdentifierCases
    <3>4. CompareIdentifiers(x, y) = CompareNumbers(x.val[1], y.val[1])
      BY <1>2, <2>1 DEF CompareIdentifiers
    <3>5. CompareNumbers(x.val[1], y.val[1]) = IF x.val[1] > y.val[1] THEN 1 ELSE -1
      BY <3>1 DEF CompareNumbers
    <3> QED
      BY <1>2, <3>1, <3>2, <3>3, <3>4, <3>5 DEF Decides
  <2>2. CASE x.word /\ y.word
    <3>1. x.val \in Seq(Nat) /\ y.val \in Seq(Nat) /\ x.val # y.val
      BY <1>2, <2>2, IdentifierShape
    <3>2. <<x, y>> \in IdentifierOrder <=> Lexical(x.val, y.val, NumberOrder)
      BY <2>2, IdentifierCases
    <3>3. <<y, x>> \in IdentifierOrder <=> Lexical(y.val, x.val, NumberOrder)
      BY <2>2, IdentifierCases
    <3>4. CompareIdentifiers(x, y) = IF GreaterText(x.val, y.val) THEN 1 ELSE -1
      BY <1>2, <2>2 DEF CompareIdentifiers
    <3>5. GreaterText(x.val, y.val) <=> Lexical(y.val, x.val, NumberOrder)
      BY <3>1, TextIsLexical
    <3>6. Lexical(x.val, y.val, NumberOrder) \/ Lexical(y.val, x.val, NumberOrder)
      BY <3>1, NumbersOrdered, LexicalTotal
    <3>7. ~(Lexical(x.val, y.val, NumberOrder) /\ Lexical(y.val, x.val, NumberOrder))
      BY <3>1, NumbersOrdered, LexicalTransitive, LexicalIrreflexive
    <3> QED
      BY <1>2, <3>2, <3>3, <3>4, <3>5, <3>6, <3>7 DEF Decides
  <2>3. CASE ~x.word /\ y.word
    <3>1. <<x, y>> \in IdentifierOrder
      BY <2>3, IdentifierCases
    <3>2. CompareIdentifiers(x, y) = -1
      BY <1>2, <2>3 DEF CompareIdentifiers
    <3> QED
      BY <1>2, <3>1, <3>2 DEF Decides
  <2>4. CASE x.word /\ ~y.word
    <3>1. <<y, x>> \in IdentifierOrder /\ <<x, y>> \notin IdentifierOrder
      BY <2>4, IdentifierCases
    <3>2. CompareIdentifiers(x, y) = 1
      BY <1>2, <2>4 DEF CompareIdentifiers
    <3> QED
      BY <1>2, <3>1, <3>2 DEF Decides
  <2> QED
    BY <2>1, <2>2, <2>3, <2>4
<1>3. ASSUME NEW x \in Identifier, NEW y \in Identifier, NEW z \in Identifier,
             <<x, y>> \in IdentifierOrder, <<y, z>> \in IdentifierOrder
      PROVE  <<x, z>> \in IdentifierOrder
  <2>1. CASE ~x.word /\ ~z.word
    <3>1. ~y.word /\ x.val[1] < y.val[1] /\ y.val[1] < z.val[1]
      BY <1>3, <2>1, IdentifierCases
    <3>2. x.val[1] \in Nat /\ y.val[1] \in Nat /\ z.val[1] \in Nat
      BY <2>1, <3>1, IdentifierShape
    <3>3. x.val[1] < z.val[1]
      BY <3>1, <3>2
    <3> QED
      BY <2>1, <3>3, IdentifierCases
  <2>2. CASE x.word
    <3>1. /\ y.word /\ z.word
          /\ Lexical(x.val, y.val, NumberOrder) /\ Lexical(y.val, z.val, NumberOrder)
      BY <1>3, <2>2, IdentifierCases
    <3>2. x.val \in Seq(Nat) /\ y.val \in Seq(Nat) /\ z.val \in Seq(Nat)
      BY IdentifierShape
    <3>3. Lexical(x.val, z.val, NumberOrder)
      BY <3>1, <3>2, NumbersOrdered, LexicalTransitive
    <3> QED
      BY <2>2, <3>1, <3>3, IdentifierCases
  <2>3. CASE ~x.word /\ z.word
    BY <2>3, IdentifierCases
  <2> QED
    BY <2>1, <2>2, <2>3
<1>4. StrictTotal(IdentifierOrder, Identifier)
  BY <1>1, <1>2, <1>3 DEF StrictTotal
<1>5. ASSUME NEW x \in Identifier PROVE Decides(CompareIdentifiers(x, x), x, x, <<x, x>> \in IdentifierOrder)
  BY <1>1 DEF CompareIdentifiers, Decides
<1> QED
  BY <1>2, <1>4, <1>5

\* A function on 1 .. n is a sequence of length n.
LEMMA SequenceOf ==
  ASSUME NEW n \in Nat, NEW S, NEW f \in [1 .. n -> S]
  PROVE  f \in Seq(S) /\ Len(f) = n
OBVIOUS

\* What versions consist of.
LEMMA VersionShape ==
  ASSUME NEW v \in SemanticVersion
  PROVE  /\ v.core \in [1 .. 3 -> Nat] /\ v.core \in Seq(Nat) /\ Len(v.core) = 3
         /\ v.pre \in Seq(Identifier)
         /\ v = [core |-> v.core, pre |-> v.pre]
<1>1. v \in [core : [1 .. 3 -> Nat], pre : Seq(Identifier)]
  BY DEF SemanticVersion
<1>2. v.core \in [1 .. 3 -> Nat]
  BY <1>1
<1>3. v.core \in Seq(Nat) /\ Len(v.core) = 3
  BY <1>2, SequenceOf, 3 \in Nat
<1> QED
  BY <1>1, <1>2, <1>3

\* The order of section 11 is a strict total order of all versions.
LEMMA PrecedenceOrders ==
  /\ \A v \in SemanticVersion : ~LowerPrecedence(v, v)
  /\ \A v, w \in SemanticVersion : v = w \/ LowerPrecedence(v, w) \/ LowerPrecedence(w, v)
  /\ \A u, v, w \in SemanticVersion :
       LowerPrecedence(u, v) /\ LowerPrecedence(v, w) => LowerPrecedence(u, w)
<1> DEFINE Core(v, w) == Lexical(v.core, w.core, NumberOrder)
           Pre(v, w) == Lexical(v.pre, w.pre, IdentifierOrder)
<1>1. /\ \A v \in SemanticVersion : ~Core(v, v) /\ ~Pre(v, v)
      /\ \A v, w \in SemanticVersion : v.core = w.core \/ Core(v, w) \/ Core(w, v)
      /\ \A v, w \in SemanticVersion : v.pre = w.pre \/ Pre(v, w) \/ Pre(w, v)
      /\ \A u, v, w \in SemanticVersion : Core(u, v) /\ Core(v, w) => Core(u, w)
      /\ \A u, v, w \in SemanticVersion : Pre(u, v) /\ Pre(v, w) => Pre(u, w)
  <2>1. \A v \in SemanticVersion : v.core \in Seq(Nat) /\ v.pre \in Seq(Identifier)
    BY VersionShape
  <2>2. \A v \in SemanticVersion : ~Core(v, v) /\ ~Pre(v, v)
    BY <2>1, LexicalIrreflexive, NumbersOrdered, IdentifiersOrdered
  <2>3. \A v, w \in SemanticVersion : v.core = w.core \/ Core(v, w) \/ Core(w, v)
    BY <2>1, LexicalTotal, NumbersOrdered
  <2>4. \A v, w \in SemanticVersion : v.pre = w.pre \/ Pre(v, w) \/ Pre(w, v)
    BY <2>1, LexicalTotal, IdentifiersOrdered
  <2>5. \A u, v, w \in SemanticVersion : Core(u, v) /\ Core(v, w) => Core(u, w)
    BY <2>1, LexicalTransitive, NumbersOrdered
  <2>6. \A u, v, w \in SemanticVersion : Pre(u, v) /\ Pre(v, w) => Pre(u, w)
    BY <2>1, LexicalTransitive, IdentifiersOrdered
  <2> QED
    BY <2>2, <2>3, <2>4, <2>5, <2>6
<1>2. \A v, w \in SemanticVersion :
        LowerPrecedence(v, w) <=>
          \/ Core(v, w)
          \/ v.core = w.core /\ v.pre # << >> /\ w.pre = << >>
          \/ v.core = w.core /\ v.pre # << >> /\ w.pre # << >> /\ Pre(v, w)
  BY DEF LowerPrecedence
<1>3. \A v, w \in SemanticVersion : v.core = w.core /\ v.pre = w.pre => v = w
  BY VersionShape
<1>4. \A u, v, w \in SemanticVersion :
        /\ u.core = v.core /\ Core(v, w) => Core(u, w)
        /\ Core(u, v) /\ v.core = w.core => Core(u, w)
  OBVIOUS
<1> HIDE DEF Core, Pre
<1>5. \A v \in SemanticVersion : ~LowerPrecedence(v, v)
  BY <1>1, <1>2
<1>6. \A v, w \in SemanticVersion : v = w \/ LowerPrecedence(v, w) \/ LowerPrecedence(w, v)
  BY <1>1, <1>2, <1>3
<1>7. ASSUME NEW u \in SemanticVersion, NEW v \in SemanticVersion, NEW w \in SemanticVersion,
             LowerPrecedence(u, v), LowerPrecedence(v, w)
      PROVE  LowerPrecedence(u, w)
  BY <1>1, <1>2, <1>4, <1>7
<1> QED
  BY <1>5, <1>6, <1>7

\* The first loop compares the cores: it has three passes, one for each number.
LEMMA CoresCompared ==
  ASSUME NEW v \in SemanticVersion, NEW w \in SemanticVersion
  PROVE  Decides(CompareCores(v, w), v.core, w.core, Lexical(v.core, w.core, NumberOrder))
<1> DEFINE r == [i \in 1 .. 3 |-> CompareNumbers(v.core[i], w.core[i])]
<1>1. /\ v.core \in [1 .. 3 -> Nat] /\ v.core \in Seq(Nat) /\ Len(v.core) = 3
      /\ w.core \in [1 .. 3 -> Nat] /\ w.core \in Seq(Nat) /\ Len(w.core) = 3
  BY VersionShape
<1>2. ASSUME NEW i \in 1 .. 3
      PROVE  Decides(r[i], v.core[i], w.core[i], <<v.core[i], w.core[i]>> \in NumberOrder)
  <2>1. v.core[i] \in Nat /\ w.core[i] \in Nat
    BY <1>1
  <2>2. r[i] = CompareNumbers(v.core[i], w.core[i])
    OBVIOUS
  <2> QED
    BY <2>1, <2>2, NumbersOrdered
<1>3. DOMAIN r = 1 .. 3 /\ DOMAIN v.core = 1 .. 3 /\ DOMAIN w.core = 1 .. 3
  BY <1>1
<1>4. CompareCores(v, w) = FirstResult(r)
  BY DEF CompareCores
<1> HIDE DEF r
<1>5. Compares(r, v.core, w.core, NumberOrder)
  BY <1>1, <1>2, <1>3 DEF Compares
<1> QED
  BY <1>1, <1>4, <1>5, LoopCompares, NumbersOrdered

\* The second loop compares the identifiers, as many as the longer version has.
LEMMA IdentifiersCompared ==
  ASSUME NEW v \in SemanticVersion, NEW w \in SemanticVersion,
         NEW n, n = IF Len(v.pre) > Len(w.pre) THEN Len(v.pre) ELSE Len(w.pre)
  PROVE  Decides(FirstResult([i \in 1 .. n |-> CompareAt(v.pre, w.pre, i)]), v.pre, w.pre,
                 Lexical(v.pre, w.pre, IdentifierOrder))
<1> DEFINE r == [i \in 1 .. n |-> CompareAt(v.pre, w.pre, i)]
<1>1. v.pre \in Seq(Identifier) /\ w.pre \in Seq(Identifier)
  BY VersionShape
<1>2. ASSUME NEW i \in DOMAIN r
      PROVE  /\ i \notin DOMAIN v.pre => r[i] = -1
             /\ i \in DOMAIN v.pre /\ i \notin DOMAIN w.pre => r[i] = 1
             /\ i \in DOMAIN v.pre /\ i \in DOMAIN w.pre =>
                  Decides(r[i], v.pre[i], w.pre[i], <<v.pre[i], w.pre[i]>> \in IdentifierOrder)
  <2>1. r[i] = CompareAt(v.pre, w.pre, i)
    OBVIOUS
  <2>2. i \in DOMAIN v.pre => v.pre[i] \in Identifier
    BY <1>1
  <2>3. i \in DOMAIN w.pre => w.pre[i] \in Identifier
    BY <1>1
  <2> HIDE DEF r
  <2>4. i \in DOMAIN v.pre /\ i \in DOMAIN w.pre => r[i] = CompareIdentifiers(v.pre[i], w.pre[i])
    BY <2>1 DEF CompareAt
  <2> QED
    BY <2>1, <2>2, <2>3, <2>4, IdentifiersOrdered DEF CompareAt
<1>3. DOMAIN r = 1 .. n
  OBVIOUS
<1> HIDE DEF r
<1>4. Compares(r, v.pre, w.pre, IdentifierOrder)
  BY <1>2, <1>3 DEF Compares
<1> QED
  BY <1>1, <1>4, LoopCompares, IdentifiersOrdered DEF r

\* compareVersions computes the order of SemVer 2.0.0 for any two versions, whatever
\* their numbers and however many identifiers they have: it is negative where the
\* left one has the lower precedence, 0 where they are the same, and positive where
\* the right one has.
THEOREM ComparesBySemVer ==
  \A v, w \in SemanticVersion :
    /\ compareVersions(v, w) \in {-1, 0, 1}
    /\ compareVersions(v, w) < 0 <=> LowerPrecedence(v, w)
    /\ compareVersions(v, w) = 0 <=> v = w
    /\ compareVersions(v, w) > 0 <=> LowerPrecedence(w, v)
<1> SUFFICES ASSUME NEW v \in SemanticVersion, NEW w \in SemanticVersion
             PROVE  /\ compareVersions(v, w) \in {-1, 0, 1}
                    /\ compareVersions(v, w) < 0 <=> LowerPrecedence(v, w)
                    /\ compareVersions(v, w) = 0 <=> v = w
                    /\ compareVersions(v, w) > 0 <=> LowerPrecedence(w, v)
  OBVIOUS
<1> DEFINE n == IF Len(v.pre) > Len(w.pre) THEN Len(v.pre) ELSE Len(w.pre)
           c == compareVersions(v, w)
           identifiers == FirstResult([i \in 1 .. n |-> CompareAt(v.pre, w.pre, i)])
<1>1. Decides(CompareCores(v, w), v.core, w.core, Lexical(v.core, w.core, NumberOrder))
  BY CoresCompared
<1>2. Decides(identifiers, v.pre, w.pre, Lexical(v.pre, w.pre, IdentifierOrder))
  BY IdentifiersCompared
<1>3. v.core = w.core /\ v.pre = w.pre => v = w
  BY VersionShape
<1>4. CompareCores(v, w) # 0 => c = CompareCores(v, w)
  BY DEF compareVersions
<1>5. CompareCores(v, w) = 0 /\ (v.pre = << >> \/ w.pre = << >>) =>
        c = (IF v.pre = << >> THEN 1 ELSE 0) - (IF w.pre = << >> THEN 1 ELSE 0)
  BY DEF compareVersions
<1>6. CompareCores(v, w) = 0 /\ ~(v.pre = << >> \/ w.pre = << >>) => c = identifiers
  BY DEF compareVersions
<1> HIDE DEF c, identifiers
<1>7. c \in {-1, 0, 1} /\ (c = 0 <=> v = w) /\ (c = -1 <=> LowerPrecedence(v, w))
  <2>1. CASE v.core # w.core
    <3>1. CompareCores(v, w) # 0
      BY <1>1, <2>1 DEF Decides
    <3> QED
      BY <1>1, <1>4, <2>1, <3>1 DEF Decides, LowerPrecedence
  <2>2. CASE v.core = w.core
    <3>1. CompareCores(v, w) = 0 /\ ~Lexical(v.core, w.core, NumberOrder)
      BY <1>1, <2>2 DEF Decides
    <3>2. CASE v.pre = << >> \/ w.pre = << >>
      BY <1>3, <1>5, <2>2, <3>1, <3>2 DEF LowerPrecedence
    <3>3. CASE ~(v.pre = << >> \/ w.pre = << >>)
      BY <1>2, <1>3, <1>6, <2>2, <3>1, <3>3 DEF Decides, LowerPrecedence
    <3> QED
      BY <3>2, <3>3
  <2> QED
    BY <2>1, <2>2
<1>8. LowerPrecedence(w, v) <=> v # w /\ ~LowerPrecedence(v, w)
  BY PrecedenceOrders
<1>9. (c < 0 <=> c = -1) /\ (c > 0 <=> c # 0 /\ c # -1)
  BY <1>7
<1> QED
  BY <1>7, <1>8, <1>9 DEF c

-----------------------------------------------------------------------------
(* Powers of two *)

\* The equation of Pow2.
Doubles(p, n) == p = [i \in 0 .. n |-> IF i = 0 THEN 1 ELSE 2 * p[i - 1]]

\* It is satisfied up to any number.
LEMMA DoublesExists == ASSUME NEW n \in Nat PROVE \E p : Doubles(p, n)
<1> DEFINE S == {m \in Nat : \E p : Doubles(p, m)}
<1>1. 0 \in S
  <2> DEFINE p == [i \in 0 .. 0 |-> 1]
  <2>1. Doubles(p, 0)
    BY DEF Doubles
  <2> QED
    BY <2>1
<1>2. ASSUME NEW m \in 1 .. n, m - 1 \in S PROVE m \in S
  <2>1. PICK f : Doubles(f, m - 1)
    BY <1>2
  <2> DEFINE p == [i \in 0 .. m |-> IF i < m THEN f[i] ELSE 2 * f[m - 1]]
             step(g, i) == IF i = 0 THEN 1 ELSE 2 * g[i - 1]
  <2>2. f = [i \in 0 .. (m - 1) |-> step(f, i)]
    BY <2>1 DEF Doubles
  <2>3. ASSUME NEW i \in 0 .. m PROVE p[i] = step(p, i)
    <3>1. CASE i = m
      BY <3>1
    <3>2. CASE i < m /\ i # 0
      <4>1. i \in 0 .. (m - 1) /\ i - 1 \in 0 .. m /\ i - 1 < m
        BY <3>2
      <4>2. p[i] = f[i] /\ p[i - 1] = f[i - 1] /\ f[i] = step(f, i)
        BY <2>2, <3>2, <4>1
      <4> QED
        BY <4>2
    <3>3. CASE i = 0
      <4>1. p[0] = f[0] /\ f[0] = 1
        BY <2>2
      <4> QED
        BY <3>3, <4>1
    <3> QED
      BY <3>1, <3>2, <3>3
  <2>4. p = [i \in 0 .. m |-> step(p, i)]
    BY <2>3
  <2>5. Doubles(p, m) /\ m \in Nat
    BY <2>4 DEF Doubles
  <2> HIDE DEF p
  <2> QED
    BY <2>5
<1> HIDE DEF S
<1>3. 0 .. n \subseteq S
  BY <1>1, <1>2, Upwards
<1> QED
  BY <1>3 DEF S

\* Two solutions agree where both are defined.
LEMMA DoublesAgree ==
  ASSUME NEW n \in Nat, NEW m \in Nat, n <= m, NEW p, NEW q, Doubles(p, n), Doubles(q, m)
  PROVE  p[n] = q[n]
<1> DEFINE S == {i \in 0 .. n : p[i] = q[i]}
<1>1. 0 \in S
  BY DEF Doubles
<1>2. ASSUME NEW i \in 1 .. n, i - 1 \in S PROVE i \in S
  <2>1. i \in 0 .. n /\ i \in 0 .. m /\ i # 0
    OBVIOUS
  <2>2. p[i] = 2 * p[i - 1] /\ q[i] = 2 * q[i - 1]
    BY <2>1 DEF Doubles
  <2> QED
    BY <1>2, <2>1, <2>2
<1> HIDE DEF S
<1>3. 0 .. n \subseteq S
  BY <1>1, <1>2, Upwards
<1> QED
  BY <1>3 DEF S

\* The equations a reader expects.
LEMMA PowStep ==
  /\ Pow2(0) = 1
  /\ \A n \in Nat : Pow2(n + 1) = 2 * Pow2(n)
<1>1. ASSUME NEW n \in Nat PROVE \E p : Doubles(p, n) /\ Pow2(n) = p[n]
  <2> DEFINE p == CHOOSE p : Doubles(p, n)
  <2>1. Doubles(p, n)
    BY DoublesExists
  <2>2. Pow2(n) = p[n]
    BY DEF Pow2, Doubles
  <2> QED
    BY <2>1, <2>2
<1>2. Pow2(0) = 1
  <2>1. PICK p : Doubles(p, 0) /\ Pow2(0) = p[0]
    BY <1>1
  <2> QED
    BY <2>1 DEF Doubles
<1>3. ASSUME NEW n \in Nat PROVE Pow2(n + 1) = 2 * Pow2(n)
  <2>1. PICK p : Doubles(p, n) /\ Pow2(n) = p[n]
    BY <1>1
  <2>2. PICK q : Doubles(q, n + 1) /\ Pow2(n + 1) = q[n + 1]
    BY <1>1
  <2>3. p[n] = q[n]
    BY <2>1, <2>2, DoublesAgree
  <2>4. q[n + 1] = 2 * q[(n + 1) - 1]
    BY <2>2 DEF Doubles
  <2> QED
    BY <2>1, <2>2, <2>3, <2>4
<1> QED
  BY <1>2, <1>3

\* They are positive numbers.
LEMMA PowPositive == ASSUME NEW n \in Nat PROVE Pow2(n) \in Nat \ {0}
<1> DEFINE S == {i \in Nat : Pow2(i) \in Nat \ {0}}
<1>1. 0 \in S
  BY PowStep
<1>2. ASSUME NEW i \in 1 .. n, i - 1 \in S PROVE i \in S
  <2>1. Pow2((i - 1) + 1) = 2 * Pow2(i - 1) /\ (i - 1) + 1 = i
    BY PowStep
  <2> QED
    BY <1>2, <2>1
<1> HIDE DEF S
<1>3. 0 .. n \subseteq S
  BY <1>1, <1>2, Upwards
<1> QED
  BY <1>3 DEF S

-----------------------------------------------------------------------------
(* Products and quotients *)

\* A product grows with its factor (products are what the provers do not look into).
LEMMA Mono == \A a, b, c \in Nat : a <= b => a * c <= b * c
OBVIOUS

\* Products can be regrouped and turned around.
LEMMA Assoc == \A a, b, c \in Nat : a * (b * c) = (a * b) * c /\ a * b = b * a
OBVIOUS

\* The product of a sum.
LEMMA Dist == \A a, b, c \in Nat : (a + b) * c = a * c + b * c
OBVIOUS

\* Quotient and remainder.
LEMMA DivMod ==
  \A a \in Nat, d \in Nat \ {0} :
    a = d * (a \div d) + (a % d) /\ a % d \in 0 .. (d - 1) /\ a \div d \in Nat
OBVIOUS

\* The exponents of a product add up.
LEMMA PowSum == ASSUME NEW a \in Nat, NEW b \in Nat PROVE Pow2(a + b) = Pow2(a) * Pow2(b)
<1> DEFINE S == {i \in Nat : Pow2(a + i) = Pow2(a) * Pow2(i)}
<1>1. 0 \in S
  BY PowStep, PowPositive
<1>2. ASSUME NEW i \in 1 .. b, i - 1 \in S PROVE i \in S
  <2>1. /\ i - 1 \in Nat /\ a + (i - 1) \in Nat
        /\ (i - 1) + 1 = i /\ (a + (i - 1)) + 1 = a + i
    OBVIOUS
  <2>2. Pow2(i) = 2 * Pow2(i - 1) /\ Pow2(a + i) = 2 * Pow2(a + (i - 1))
    BY <2>1, PowStep
  <2>3. Pow2(a) \in Nat /\ Pow2(i - 1) \in Nat
    BY <2>1, PowPositive
  <2>4. Pow2(a) * (2 * Pow2(i - 1)) = 2 * (Pow2(a) * Pow2(i - 1))
    BY <2>3
  <2> QED
    BY <1>2, <2>1, <2>2, <2>4
<1> HIDE DEF S
<1>3. 0 .. b \subseteq S
  BY <1>1, <1>2, Upwards
<1> QED
  BY <1>3 DEF S

\* a lies in the c-th interval of length s.
In(a, c, s) == c * s <= a /\ a < (c + 1) * s

\* The number of its interval is the quotient.
LEMMA Quotient ==
  ASSUME NEW c \in Nat, NEW s \in Nat \ {0}, NEW a \in Nat
  PROVE  In(a, c, s) <=> a \div s = c
<1> DEFINE q == a \div s
           r == a % s
<1>1. a = q * s + r /\ r \in 0 .. (s - 1) /\ q \in Nat
  BY DivMod, Assoc
<1> HIDE DEF q, r
<1>2. (c + 1) * s = c * s + s /\ (q + 1) * s = q * s + s
  BY <1>1, Dist
<1>3. q + 1 <= c => (q + 1) * s <= c * s
  BY <1>1, Mono
<1>4. c + 1 <= q => (c + 1) * s <= q * s
  BY <1>1, Mono
<1>5. In(a, c, s) => q = c
  BY <1>1, <1>2, <1>3, <1>4 DEF In
<1>6. q = c => In(a, c, s)
  BY <1>1, <1>2 DEF In
<1> QED
  BY <1>5, <1>6 DEF q

\* An interval of m numbers, each stretched to s and refined, is one of m * s.
LEMMA InProduct ==
  ASSUME NEW c \in Nat, NEW m \in Nat \ {0}, NEW s \in Nat \ {0}, NEW a \in Nat, NEW b \in Nat,
         In(a, c, m), In(b, a, s)
  PROVE  In(b, c, m * s)
<1>1. c * m <= a /\ a + 1 <= (c + 1) * m /\ c * m \in Nat /\ (c + 1) * m \in Nat
  BY DEF In
<1>2. (c * m) * s <= a * s /\ (a + 1) * s <= ((c + 1) * m) * s
  BY <1>1, Mono
<1>3. c * (m * s) = (c * m) * s /\ (c + 1) * (m * s) = ((c + 1) * m) * s
  BY Assoc
<1>4. /\ a * s \in Nat /\ (a + 1) * s \in Nat /\ (c * m) * s \in Nat
      /\ ((c + 1) * m) * s \in Nat
  BY <1>1
<1>5. a * s <= b /\ b < (a + 1) * s
  BY DEF In
<1>6. (c * m) * s <= b /\ b < ((c + 1) * m) * s
  BY <1>2, <1>4, <1>5
<1> QED
  BY <1>3, <1>6 DEF In

-----------------------------------------------------------------------------
(* Addresses as numbers *)

\* The equation of Value, for the first n bytes.
Digits(v, ip, n) ==
  v = [i \in 0 .. n |-> IF i = 0 THEN 0 ELSE v[i - 1] * Pow2(Bits) + ip[i]]

\* It is satisfied for every address.
LEMMA DigitsExist == ASSUME NEW n \in Nat, NEW ip PROVE \E v : Digits(v, ip, n)
<1> DEFINE S == {m \in Nat : \E v : Digits(v, ip, m)}
<1>1. 0 \in S
  <2> DEFINE v == [i \in 0 .. 0 |-> 0]
  <2>1. Digits(v, ip, 0)
    BY DEF Digits
  <2> QED
    BY <2>1
<1>2. ASSUME NEW m \in 1 .. n, m - 1 \in S PROVE m \in S
  <2>1. PICK f : Digits(f, ip, m - 1)
    BY <1>2
  <2> DEFINE v == [i \in 0 .. m |-> IF i < m THEN f[i] ELSE f[m - 1] * Pow2(Bits) + ip[m]]
             step(g, i) == IF i = 0 THEN 0 ELSE g[i - 1] * Pow2(Bits) + ip[i]
  <2>2. f = [i \in 0 .. (m - 1) |-> step(f, i)]
    BY <2>1 DEF Digits
  <2>3. ASSUME NEW i \in 0 .. m PROVE v[i] = step(v, i)
    <3>1. CASE i = m
      BY <3>1
    <3>2. CASE i < m /\ i # 0
      <4>1. i \in 0 .. (m - 1) /\ i - 1 \in 0 .. m /\ i - 1 < m
        BY <3>2
      <4>2. v[i] = f[i] /\ v[i - 1] = f[i - 1] /\ f[i] = step(f, i)
        BY <2>2, <3>2, <4>1
      <4> QED
        BY <4>2
    <3>3. CASE i = 0
      <4>1. v[0] = f[0] /\ f[0] = 0
        BY <2>2
      <4> QED
        BY <3>3, <4>1
    <3> QED
      BY <3>1, <3>2, <3>3
  <2>4. v = [i \in 0 .. m |-> step(v, i)]
    BY <2>3
  <2>5. Digits(v, ip, m) /\ m \in Nat
    BY <2>4 DEF Digits
  <2> HIDE DEF v
  <2> QED
    BY <2>5
<1> HIDE DEF S
<1>3. 0 .. n \subseteq S
  BY <1>1, <1>2, Upwards
<1> QED
  BY <1>3 DEF S

\* v has the values of the first bytes of ip.
Follows(v, ip, w) ==
  /\ v \in [0 .. w -> Nat] /\ v[0] = 0
  /\ \A i \in 1 .. w : v[i] = v[i - 1] * Pow2(Bits) + ip[i]

\* The value of an address is the last of the values of its first bytes, each of
\* which is the one before in the base of a byte.
LEMMA ValueDigits ==
  ASSUME NEW w \in Nat, NEW ip \in [1 .. w -> Byte]
  PROVE  \E v : Follows(v, ip, w) /\ v[w] = Value(ip)
<1>1. Len(ip) = w
  OBVIOUS
<1> DEFINE v == CHOOSE v : Digits(v, ip, Len(ip))
<1>2. Digits(v, ip, Len(ip))
  BY <1>1, DigitsExist DEF Digits
<1>3. Value(ip) = v[w]
  BY <1>1 DEF Value, Digits
<1> HIDE DEF v
<1>4. /\ v[0] = 0 /\ DOMAIN v = 0 .. w
      /\ v = [i \in 0 .. w |-> v[i]]
      /\ \A i \in 1 .. w : v[i] = v[i - 1] * Pow2(Bits) + ip[i]
  <2>1. v = [i \in 0 .. w |-> IF i = 0 THEN 0 ELSE v[i - 1] * Pow2(Bits) + ip[i]]
    BY <1>1, <1>2 DEF Digits
  <2>2. 0 \in 0 .. w /\ \A i \in 1 .. w : i \in 0 .. w /\ i # 0
    OBVIOUS
  <2>3. v[0] = 0 /\ DOMAIN v = 0 .. w /\ v = [i \in 0 .. w |-> v[i]]
    BY <2>1, <2>2
  <2>4. ASSUME NEW i \in 1 .. w PROVE v[i] = v[i - 1] * Pow2(Bits) + ip[i]
    BY <2>1, <2>2
  <2> QED
    BY <2>3, <2>4
<1>5. 0 .. w \subseteq {i \in 0 .. w : v[i] \in Nat}
  <2> DEFINE S == {i \in 0 .. w : v[i] \in Nat}
  <2>1. 0 \in S
    BY <1>4
  <2>2. ASSUME NEW i \in 1 .. w, i - 1 \in S PROVE i \in S
    <3>1. ip[i] \in Nat /\ Pow2(Bits) \in Nat
      BY GateAssumption, PowPositive DEF Byte
    <3>2. v[i - 1] * Pow2(Bits) \in Nat
      BY <2>2, <3>1
    <3>3. v[i] = v[i - 1] * Pow2(Bits) + ip[i]
      BY <1>4
    <3> DEFINE y == v[i - 1] * Pow2(Bits)
    <3>4. y \in Nat /\ v[i] = y + ip[i]
      BY <3>2, <3>3
    <3> HIDE DEF y
    <3>5. v[i] \in Nat /\ i \in 0 .. w
      BY <3>1, <3>4
    <3> QED
      BY <3>5
  <2> HIDE DEF S
  <2>3. 0 .. w \subseteq S
    BY <2>1, <2>2, Upwards
  <2> QED
    BY <2>3 DEF S
<1>6. v \in [0 .. w -> Nat]
  BY <1>4, <1>5
<1> QED
  BY <1>3, <1>4, <1>6 DEF Follows

\* Numbers that have these first k digits: each further byte refines the interval.
LEMMA Refines ==
  ASSUME NEW w \in Nat, NEW ip \in [1 .. w -> Byte], NEW v, Follows(v, ip, w), NEW k \in 0 .. w
  PROVE  In(v[w], v[k], Pow2((w - k) * Bits))
<1> DEFINE Good(n) == In(v[k + n], v[k], Pow2(n * Bits))
           S == {n \in 0 .. (w - k) : Good(n)}
<1>0. w - k \in Nat /\ Bits \in Nat /\ Pow2(Bits) \in Nat \ {0}
  <2>1. Bits \in Nat
    BY GateAssumption
  <2>2. w - k \in Nat
    OBVIOUS
  <2> QED
    BY <2>1, <2>2, PowPositive
<1>1. 0 \in S
  <2>1. k + 0 = k /\ 0 * Bits = 0 /\ Pow2(0) = 1 /\ v[k] \in Nat
    <3>1. 0 * Bits = 0
      BY <1>0
    <3>2. k + 0 = k /\ v[k] \in Nat
      BY DEF Follows
    <3> QED
      BY <3>1, <3>2, PowStep
  <2>2. In(v[k], v[k], 1)
    BY <2>1 DEF In
  <2> QED
    BY <1>0, <2>1, <2>2
<1>2. ASSUME NEW n \in 1 .. (w - k), n - 1 \in S PROVE n \in S
  <2> DEFINE a == v[k + (n - 1)]
             b == v[k + n]
             x == ip[k + n]
             m == Pow2((n - 1) * Bits)
  <2>1. k + n \in 1 .. w /\ (k + n) - 1 = k + (n - 1) /\ k + (n - 1) \in 0 .. w /\ n - 1 \in Nat
    BY <1>0
  <2>2. a \in Nat /\ b \in Nat /\ x \in 0 .. (Pow2(Bits) - 1) /\ b = a * Pow2(Bits) + x
    BY <2>1 DEF Byte, Follows
  <2>3. (n - 1) * Bits \in Nat /\ (n - 1) * Bits + Bits = n * Bits
    BY <1>0, <2>1
  <2>4. m \in Nat \ {0} /\ Pow2(n * Bits) = m * Pow2(Bits)
    BY <1>0, <2>3, PowPositive, PowSum
  <2>5. In(a, v[k], m) /\ v[k] \in Nat
    BY <1>2 DEF Follows
  <2> HIDE DEF a, b, x, m
  <2>6. In(b, a, Pow2(Bits))
    <3>1. (a + 1) * Pow2(Bits) = a * Pow2(Bits) + Pow2(Bits) /\ a * Pow2(Bits) \in Nat
      BY <1>0, <2>2, Dist
    <3> QED
      BY <1>0, <2>2, <3>1 DEF In
  <2>7. In(b, v[k], m * Pow2(Bits))
    BY <1>0, <2>2, <2>4, <2>5, <2>6, InProduct
  <2>8. Good(n)
    BY <2>4, <2>7 DEF b
  <2> QED
    BY <1>0, <2>8
<1> HIDE DEF S
<1>3. 0 .. (w - k) \subseteq S
  BY <1>0, <1>1, <1>2, Upwards
<1>4. w - k \in S
  BY <1>0, <1>3
<1>5. k + (w - k) = w
  BY <1>0
<1> QED
  BY <1>4, <1>5 DEF S

\* Addresses with the same first k bytes have the same value so far.
LEMMA SamePrefix ==
  ASSUME NEW w \in Nat,
         NEW ip, NEW v, Follows(v, ip, w), NEW ad, NEW u, Follows(u, ad, w),
         NEW k \in 0 .. w, \A i \in 1 .. k : ip[i] = ad[i]
  PROVE  v[k] = u[k]
<1> DEFINE S == {i \in 0 .. k : v[i] = u[i]}
<1>1. 0 \in S
  BY DEF Follows
<1>2. ASSUME NEW i \in 1 .. k, i - 1 \in S PROVE i \in S
  <2>1. i \in 1 .. w /\ i \in 0 .. k
    OBVIOUS
  <2> QED
    BY <1>2, <2>1 DEF Follows
<1> HIDE DEF S
<1>3. 0 .. k \subseteq S
  BY <1>1, <1>2, Upwards
<1> QED
  BY <1>3 DEF S

\* What is added to a multiple of h and is less than h does not change the quotient.
LEMMA SumQuotient ==
  ASSUME NEW h \in Nat \ {0}, NEW a \in Nat, NEW t \in 0 .. (h - 1)
  PROVE  (a * h + t) \div h = a
<1>1. (a + 1) * h = a * h + h /\ a * h \in Nat
  BY Dist
<1>2. In(a * h + t, a, h) /\ a * h + t \in Nat
  BY <1>1 DEF In
<1> QED
  BY <1>2, Quotient

\* ip is an address of w bytes, range a CIDR of that family.
IsAddress(ip, w) == ip \in [1 .. w -> Byte]

IsCidr(range, w) == range \in [address : [1 .. w -> Byte], prefix : 0 .. w * Bits]

\* The first k bytes of two addresses are the same.
Agree(ip, ad, k) == \A i \in 1 .. k : ip[i] = ad[i]

\* Addresses of the same value so far have the same bytes so far.
LEMMA SameBytes ==
  ASSUME NEW w \in Nat, NEW ip, IsAddress(ip, w), NEW v, Follows(v, ip, w),
         NEW ad, IsAddress(ad, w), NEW u, Follows(u, ad, w), NEW k \in 0 .. w, v[k] = u[k]
  PROVE  Agree(ip, ad, k)
<1> USE DEF IsAddress
<1> DEFINE B == Pow2(Bits)
           S == {n \in 0 .. k : v[k - n] = u[k - n]}
<1>1. B \in Nat \ {0}
  BY GateAssumption, PowPositive
<1>2. \A i \in 1 .. k :
        /\ i \in 1 .. w /\ i - 1 \in 0 .. w
        /\ ip[i] \in 0 .. (B - 1) /\ ad[i] \in 0 .. (B - 1)
        /\ v[i - 1] \in Nat /\ u[i - 1] \in Nat
        /\ v[i] = v[i - 1] * B + ip[i] /\ u[i] = u[i - 1] * B + ad[i]
  <2> TAKE i \in 1 .. k
  <2>1. i \in 1 .. w /\ i - 1 \in 0 .. w
    OBVIOUS
  <2>2. ip[i] \in Byte /\ ad[i] \in Byte
    BY <2>1
  <2> QED
    BY <2>1, <2>2 DEF Follows, Byte
<1> HIDE DEF B
<1>3. 0 \in S
  OBVIOUS
<1>4. ASSUME NEW n \in 1 .. k, n - 1 \in S PROVE n \in S
  <2> DEFINE i == k - (n - 1)
  <2>1. i \in 1 .. k /\ v[i] = u[i] /\ i - 1 = k - n /\ n \in 0 .. k
    BY <1>4
  <2> HIDE DEF i
  <2>2. (v[i - 1] * B + ip[i]) \div B = v[i - 1] /\ (u[i - 1] * B + ad[i]) \div B = u[i - 1]
    BY <1>1, <1>2, <2>1, SumQuotient
  <2>3. v[i - 1] = u[i - 1]
    BY <1>2, <2>1, <2>2
  <2> QED
    BY <2>1, <2>3
<1> HIDE DEF S
<1>5. 0 .. k \subseteq S
  <2>1. k \in Nat
    OBVIOUS
  <2> QED
    BY <1>3, <1>4, <2>1, Upwards
<1>6. ASSUME NEW i \in 0 .. k PROVE v[i] = u[i]
  <2>1. k - i \in 0 .. k /\ k - (k - i) = i
    OBVIOUS
  <2>2. k - i \in S
    BY <1>5, <2>1
  <2> QED
    BY <2>1, <2>2 DEF S
<1>7. ASSUME NEW i \in 1 .. k PROVE ip[i] = ad[i]
  <2>1. v[i] = u[i] /\ v[i - 1] = u[i - 1]
    BY <1>6
  <2> DEFINE y == v[i - 1] * B
  <2>3. /\ ip[i] \in 0 .. (B - 1) /\ ad[i] \in 0 .. (B - 1) /\ v[i - 1] \in Nat
        /\ v[i] = y + ip[i] /\ u[i] = u[i - 1] * B + ad[i]
    BY <1>2
  <2>4. ip[i] \in Nat /\ ad[i] \in Nat /\ y \in Nat
    BY <1>1, <2>3
  <2>2. y \in Nat /\ y + ip[i] = y + ad[i] /\ ip[i] \in Nat /\ ad[i] \in Nat
    BY <2>1, <2>3, <2>4
  <2> HIDE DEF y
  <2> QED
    BY <2>2
<1> QED
  BY <1>7 DEF Agree

\* Equal under the mask is the same interval of the size the mask leaves.
LEMMA SameMasked ==
  ASSUME NEW spare \in 1 .. Bits, NEW x \in Nat, NEW y \in Nat
  PROVE  Masked(x, spare) = Masked(y, spare) <=>
           x \div Pow2(Bits - spare) = y \div Pow2(Bits - spare)
<1> DEFINE m == Pow2(Bits - spare)
           p == x \div m
           q == y \div m
<1>1. m \in Nat \ {0}
  BY GateAssumption, PowPositive
<1>2. Masked(x, spare) = x - (x % m) /\ Masked(y, spare) = y - (y % m)
  BY DEF Masked
<1> HIDE DEF m
<1>3. /\ x = m * p + (x % m) /\ p \in Nat /\ x % m \in Nat
      /\ y = m * q + (y % m) /\ q \in Nat /\ y % m \in Nat
  <2>1. x = m * p + (x % m) /\ x % m \in 0 .. (m - 1) /\ p \in Nat
    BY <1>1, DivMod
  <2>2. y = m * q + (y % m) /\ y % m \in 0 .. (m - 1) /\ q \in Nat
    BY <1>1, DivMod
  <2> HIDE DEF p, q
  <2> QED
    BY <1>1, <2>1, <2>2
<1> HIDE DEF p, q
<1>4. m * p = p * m /\ m * q = q * m /\ m * p \in Nat /\ m * q \in Nat
  BY <1>1, <1>3, Assoc
<1>5. Masked(x, spare) = m * p /\ Masked(y, spare) = m * q
  <2> DEFINE a == m * p
             b == m * q
  <2>1. x = a + (x % m) /\ y = b + (y % m) /\ a \in Nat /\ b \in Nat
    BY <1>3, <1>4
  <2> HIDE DEF a, b
  <2>2. x - (x % m) = a /\ y - (y % m) = b
    BY <1>3, <2>1
  <2> QED
    BY <1>2, <2>2 DEF a, b
<1>6. p + 1 <= q => (p + 1) * m <= q * m
  BY <1>1, <1>3, Mono
<1>7. q + 1 <= p => (q + 1) * m <= p * m
  BY <1>1, <1>3, Mono
<1>8. (p + 1) * m = p * m + m /\ (q + 1) * m = q * m + m
  BY <1>1, <1>3, Dist
<1>9. m * p = m * q => p = q
  BY <1>1, <1>3, <1>4, <1>6, <1>7, <1>8
<1> QED
  BY <1>5, <1>9 DEF p, q, m

\* A prefix length is a number of whole bytes and what it takes of one more.
LEMMA PrefixParts ==
  ASSUME NEW w \in Width, NEW n \in 0 .. w * Bits,
         NEW full, full = n \div Bits, NEW spare, spare = n % Bits
  PROVE  /\ n = full * Bits + spare /\ spare \in 0 .. (Bits - 1)
         /\ full \in 0 .. w /\ (spare # 0 => full + 1 \in 1 .. w)
<1>0. w \in Nat /\ Bits \in Nat \ {0} /\ w * Bits \in Nat /\ n \in Nat /\ n <= w * Bits
  <2>1. w \in Nat /\ Bits \in Nat \ {0}
    BY GateAssumption
  <2>2. w * Bits \in Nat
    BY <2>1
  <2> QED
    BY <2>1, <2>2
<1>1. n = full * Bits + spare /\ spare \in 0 .. (Bits - 1) /\ full \in Nat
  <2>1. /\ n = Bits * (n \div Bits) + (n % Bits)
        /\ n % Bits \in 0 .. (Bits - 1) /\ n \div Bits \in Nat
    BY <1>0, DivMod
  <2>2. Bits * (n \div Bits) = (n \div Bits) * Bits
    BY <1>0, <2>1, Assoc
  <2> QED
    BY <2>1, <2>2
<1>2. full * Bits + spare <= w * Bits /\ full * Bits \in Nat
  BY <1>0, <1>1
<1>3. w + 1 <= full => (w + 1) * Bits <= full * Bits
  BY <1>0, <1>1, Mono
<1>4. (w + 1) * Bits = w * Bits + Bits
  BY <1>0, Dist
<1>5. full <= w
  <2> SUFFICES ASSUME w + 1 <= full PROVE FALSE
    BY <1>0, <1>1
  <2>1. w * Bits + Bits <= full * Bits
    BY <1>3, <1>4
  <2> DEFINE x == w * Bits
             y == full * Bits
  <2>2. x \in Nat /\ y \in Nat /\ x + Bits <= y /\ y + spare <= x
    BY <1>0, <1>2, <2>1
  <2> HIDE DEF x, y
  <2> QED
    BY <1>0, <1>1, <2>2
<1>6. spare # 0 => full # w
  BY <1>0, <1>1, <1>2
<1> QED
  BY <1>0, <1>1, <1>5, <1>6

\* The number that the first n bits of an address make.
Leading(v, ip, n) ==
  LET full  == n \div Bits
      spare == n % Bits
  IN  IF spare = 0 THEN v[full]
      ELSE v[full] * Pow2(spare) + (ip[full + 1] \div Pow2(Bits - spare))

\* The rest of the address refines it.
LEMMA LeadingRefined ==
  ASSUME NEW w \in Width, NEW ip \in [1 .. w -> Byte], NEW v, Follows(v, ip, w),
         NEW n \in 0 .. w * Bits
  PROVE  Leading(v, ip, n) \in Nat /\ In(v[w], Leading(v, ip, n), Pow2(w * Bits - n))
<1> DEFINE full == n \div Bits
           spare == n % Bits
           size == Pow2(w * Bits - n)
<1>0. w \in Nat /\ Bits \in Nat \ {0} /\ w * Bits \in Nat
  <2>1. w \in Nat /\ Bits \in Nat \ {0}
    BY GateAssumption
  <2> QED
    BY <2>1
<1>1. /\ n = full * Bits + spare /\ spare \in 0 .. (Bits - 1)
      /\ full \in 0 .. w /\ (spare # 0 => full + 1 \in 1 .. w)
  BY PrefixParts
<1>2. Leading(v, ip, n) = IF spare = 0 THEN v[full]
                          ELSE v[full] * Pow2(spare) + (ip[full + 1] \div Pow2(Bits - spare))
  BY DEF Leading
<1> HIDE DEF full, spare
<1>3. CASE spare = 0
  <2>1. w * Bits - n = (w - full) * Bits
    BY <1>0, <1>1, <1>3
  <2>2. In(v[w], v[full], size) /\ v[full] \in Nat
    BY <1>0, <1>1, <2>1, Refines DEF Follows
  <2> QED
    BY <1>2, <1>3, <2>2
<1>4. CASE spare # 0
  <2> DEFINE j == full + 1
             m == Pow2(Bits - spare)
             h == Pow2(spare)
             rest == (w - j) * Bits
             s == Pow2(rest)
             t == ip[j] \div m
             c == v[full] * h + t
  <2>1. j \in 1 .. w /\ full = j - 1 /\ Bits - spare \in Nat /\ spare \in 1 .. Bits /\ rest \in Nat
    BY <1>0, <1>1, <1>4
  <2>2. /\ m \in Nat \ {0} /\ h \in Nat \ {0} /\ s \in Nat \ {0}
        /\ Pow2(Bits) = h * m
    <3>1. spare + (Bits - spare) = Bits /\ spare \in Nat
      BY <1>0, <2>1
    <3> QED
      BY <2>1, <3>1, PowPositive, PowSum
  <2>3. size = m * s
    <3>1. w * Bits - n = (Bits - spare) + rest
      <4>1. (w - j) * Bits = w * Bits - full * Bits - Bits
        BY <1>0, <1>1, <1>4
      <4> QED
        BY <1>0, <1>1, <2>1, <4>1
    <3> QED
      BY <2>1, <3>1, PowSum
  <2>4. ip[j] \in Nat
    <3>1. ip[j] \in Byte
      BY <2>1
    <3> QED
      BY <3>1 DEF Byte
  <2>5. t \in Nat
    BY <2>2, <2>4, DivMod
  <2>6. In(ip[j], t, m)
    BY <2>2, <2>4, <2>5, Quotient
  <2>7. v[j] = v[full] * Pow2(Bits) + ip[j] /\ v[full] \in Nat /\ v[j] \in Nat /\ v[w] \in Nat
    BY <1>0, <1>1, <2>1 DEF Follows
  <2>8. In(v[w], v[j], s)
    <3>1. j \in 0 .. w
      BY <2>1
    <3> HIDE DEF j
    <3> QED
      BY <1>0, <3>1, Refines
  <2>13. Leading(v, ip, n) = c
    BY <1>2, <1>4
  <2> HIDE DEF j, m, h, rest, s, t
  <2>9. c \in Nat /\ In(v[full] * Pow2(Bits) + ip[j], c, m)
    <3>1. v[full] * h \in Nat
      BY <2>2, <2>7
    <3>2. c * m = (v[full] * h) * m + t * m /\ (c + 1) * m = c * m + m /\ (t + 1) * m = t * m + m
      BY <2>2, <2>5, <3>1, Dist
    <3>3. (v[full] * h) * m = v[full] * Pow2(Bits)
      BY <2>2, <2>7, Assoc
    <3>4. (v[full] * h) * m \in Nat /\ t * m \in Nat
      BY <2>2, <2>5, <3>1
    <3> DEFINE a == v[full] * Pow2(Bits)
               tm == t * m
               cm == c * m
               cm1 == (c + 1) * m
               tm1 == (t + 1) * m
    <3>5. /\ cm = a + tm /\ cm1 = cm + m /\ tm1 = tm + m /\ a \in Nat /\ tm \in Nat
          /\ c \in Nat
      BY <2>5, <3>1, <3>2, <3>3, <3>4
    <3> HIDE DEF c, a, tm, cm, cm1, tm1
    <3>6. tm <= ip[j] /\ ip[j] < tm1 => cm <= a + ip[j] /\ a + ip[j] < cm1
      BY <2>2, <2>4, <3>5
    <3> QED
      BY <2>6, <3>5, <3>6 DEF In, a, tm, cm, cm1, tm1
  <2> HIDE DEF c
  <2>10. In(v[j], c, m)
    BY <2>7, <2>9
  <2>11. In(v[w], c, m * s)
    BY <2>2, <2>7, <2>8, <2>9, <2>10, InProduct
  <2> QED
    BY <2>3, <2>9, <2>11, <2>13
<1> QED
  BY <1>3, <1>4

\* bytesInPrefix compares the numbers that the bits of the prefix make.
LEMMA PrefixIsLeading ==
  ASSUME NEW w \in Width, NEW ip, IsAddress(ip, w), NEW v, Follows(v, ip, w),
         NEW range, IsCidr(range, w), NEW u, Follows(u, range.address, w)
  PROVE  BytesInPrefix(ip, range) <=>
           Leading(v, ip, range.prefix) = Leading(u, range.address, range.prefix)
<1> DEFINE ad == range.address
           n == range.prefix
           full == n \div Bits
           spare == n % Bits
           m == Pow2(Bits - spare)
           h == Pow2(spare)
           t == ip[full + 1] \div m
           s == ad[full + 1] \div m
<1>0. /\ w \in Nat /\ Bits \in Nat \ {0}
      /\ ip \in [1 .. w -> Byte] /\ ad \in [1 .. w -> Byte] /\ n \in 0 .. w * Bits
  BY GateAssumption DEF IsAddress, IsCidr
<1>1. /\ n = full * Bits + spare /\ spare \in 0 .. (Bits - 1)
      /\ full \in 0 .. w /\ (spare # 0 => full + 1 \in 1 .. w)
  BY <1>0, PrefixParts
<1>2. BytesInPrefix(ip, range) <=>
        /\ \A i \in 1 .. full : ip[i] = ad[i]
        /\ spare # 0 => Masked(ip[full + 1], spare) = Masked(ad[full + 1], spare)
  BY DEF BytesInPrefix
<1>3. /\ Leading(v, ip, n) = IF spare = 0 THEN v[full] ELSE v[full] * h + t
      /\ Leading(u, ad, n) = IF spare = 0 THEN u[full] ELSE u[full] * h + s
  BY DEF Leading
<1> HIDE DEF full, spare
<1>4. (\A i \in 1 .. full : ip[i] = ad[i]) <=> v[full] = u[full]
  <2>1. Follows(u, ad, w) /\ IsAddress(ip, w) /\ IsAddress(ad, w)
    BY <1>0 DEF IsCidr, IsAddress
  <2> HIDE DEF ad, n
  <2>2. ASSUME \A i \in 1 .. full : ip[i] = ad[i] PROVE v[full] = u[full]
    BY <1>0, <1>1, <2>1, <2>2, SamePrefix
  <2>3. ASSUME v[full] = u[full] PROVE \A i \in 1 .. full : ip[i] = ad[i]
    <3>1. w \in Nat /\ full \in 0 .. w
      BY <1>0, <1>1
    <3>2. Agree(ip, ad, full)
      BY <2>1, <2>3, <3>1, SameBytes
    <3> QED
      BY <3>2 DEF Agree
  <2> QED
    BY <2>2, <2>3
<1>5. CASE spare = 0
  BY <1>2, <1>3, <1>4, <1>5
<1>6. CASE spare # 0
  <2>1. ip[full + 1] \in 0 .. (Pow2(Bits) - 1) /\ ad[full + 1] \in 0 .. (Pow2(Bits) - 1)
    <3>1. ip[full + 1] \in Byte /\ ad[full + 1] \in Byte
      BY <1>0, <1>1, <1>6
    <3> QED
      BY <3>1 DEF Byte
  <2>2. spare \in 1 .. Bits /\ Bits - spare \in Nat /\ spare \in Nat
    BY <1>0, <1>1, <1>6
  <2>3. m \in Nat \ {0} /\ h \in Nat \ {0} /\ Pow2(Bits) = h * m
    <3>1. spare + (Bits - spare) = Bits
      BY <1>0, <2>2
    <3> QED
      BY <2>2, <3>1, PowPositive, PowSum
  <2>4. Masked(ip[full + 1], spare) = Masked(ad[full + 1], spare) <=> t = s
    <3>1. ip[full + 1] \in Nat /\ ad[full + 1] \in Nat
      BY <2>1
    <3> QED
      BY <2>2, <3>1, SameMasked
  <2> HIDE DEF m, h
  <2>5. \A x \in Nat : x < h * m => x \div m \in 0 .. (h - 1)
    <3> TAKE x \in Nat
    <3> DEFINE q == x \div m
    <3>1. x = m * q + (x % m) /\ x % m \in Nat /\ q \in Nat
      <4>1. m \in Nat \ {0}
        BY <2>3
      <4>2. x = m * q + (x % m) /\ x % m \in 0 .. (m - 1) /\ q \in Nat
        BY <4>1, DivMod
      <4> HIDE DEF q
      <4> QED
        BY <4>1, <4>2
    <3> HIDE DEF q
    <3>2. h <= q => h * m <= q * m
      BY <2>3, <3>1, Mono
    <3>3. m * q = q * m /\ q * m \in Nat /\ h * m \in Nat
      BY <2>3, <3>1, Assoc
    <3>4. x < h * m => q < h
      BY <2>3, <3>1, <3>2, <3>3
    <3>5. x < h * m => q \in 0 .. (h - 1)
      BY <2>3, <3>1, <3>4
    <3> QED
      BY <3>5 DEF q
  <2>6. t \in 0 .. (h - 1) /\ s \in 0 .. (h - 1)
    <3>1. ip[full + 1] \in Nat /\ ad[full + 1] \in Nat
          /\ ip[full + 1] < h * m /\ ad[full + 1] < h * m
      BY <2>1, <2>3
    <3> QED
      BY <2>5, <3>1
  <2>7. v[full] \in Nat /\ u[full] \in Nat
    BY <1>0, <1>1 DEF Follows
  <2> HIDE DEF t, s
  <2>8. (v[full] * h + t) \div h = v[full] /\ (u[full] * h + s) \div h = u[full]
    BY <2>3, <2>6, <2>7, SumQuotient
  <2>9. v[full] * h + t = u[full] * h + s => v[full] = u[full]
    BY <2>8
  <2>10. v[full] = u[full] /\ v[full] * h + t = u[full] * h + s => t = s
    <3> DEFINE y == v[full] * h
    <3>1. y \in Nat /\ t \in Nat /\ s \in Nat
      BY <2>3, <2>6, <2>7
    <3>2. y + t = y + s => t = s
      <4> HIDE DEF y
      <4> QED
        BY <3>1
    <3> QED
      BY <3>2
  <2> QED
    BY <1>2, <1>3, <1>4, <1>6, <2>4, <2>9, <2>10
<1> QED
  BY <1>5, <1>6

\* bytesInPrefix is membership in the block.
LEMMA PrefixIsBlock ==
  ASSUME NEW w \in Width, NEW ip \in [1 .. w -> Byte],
         NEW range \in [address : [1 .. w -> Byte], prefix : 0 .. w * Bits]
  PROVE  LET size == Pow2(w * Bits - range.prefix)
             low  == (Value(range.address) \div size) * size
         IN  BytesInPrefix(ip, range) <=> Value(ip) \in low .. low + size - 1
<1> DEFINE ad == range.address
           n == range.prefix
           size == Pow2(w * Bits - n)
           q == Value(ad) \div size
<1>0. /\ w \in Nat /\ Bits \in Nat \ {0}
      /\ ad \in [1 .. w -> Byte] /\ n \in 0 .. w * Bits
  BY GateAssumption
<1>1. size \in Nat \ {0}
  <2>1. w * Bits \in Nat
    BY <1>0
  <2>2. w * Bits - n \in Nat
    BY <1>0, <2>1
  <2> QED
    BY <2>2, PowPositive
<1>2. PICK v : Follows(v, ip, w) /\ v[w] = Value(ip)
  BY <1>0, ValueDigits
<1>3. PICK u : Follows(u, ad, w) /\ u[w] = Value(ad)
  BY <1>0, ValueDigits
<1>4. Value(ip) \in Nat /\ Value(ad) \in Nat
  BY <1>0, <1>2, <1>3 DEF Follows
<1>5. /\ Leading(v, ip, n) \in Nat /\ In(Value(ip), Leading(v, ip, n), size)
      /\ Leading(u, ad, n) \in Nat /\ In(Value(ad), Leading(u, ad, n), size)
  BY <1>0, <1>2, <1>3, LeadingRefined
<1>6. BytesInPrefix(ip, range) <=> Leading(v, ip, n) = Leading(u, ad, n)
  <2>1. IsAddress(ip, w) /\ IsCidr(range, w)
    BY DEF IsAddress, IsCidr
  <2> QED
    BY <1>2, <1>3, <2>1, PrefixIsLeading
<1> HIDE DEF size, ad, n
<1>7. Value(ip) \div size = Leading(v, ip, n) /\ q = Leading(u, ad, n)
  BY <1>1, <1>4, <1>5, Quotient
<1>8. q \in Nat
  BY <1>5, <1>7
<1>9. In(Value(ip), q, size) <=> Value(ip) \div size = q
  BY <1>1, <1>4, <1>8, Quotient
<1>10. In(Value(ip), q, size) <=> Value(ip) \in (q * size) .. (q * size + size - 1)
  <2>1. (q + 1) * size = q * size + size /\ q * size \in Nat
    BY <1>1, <1>8, Dist
  <2> DEFINE y == q * size
  <2>2. y \in Nat /\ (In(Value(ip), q, size) <=> y <= Value(ip) /\ Value(ip) < y + size)
    BY <2>1 DEF In
  <2> HIDE DEF y
  <2>3. In(Value(ip), q, size) <=> Value(ip) \in y .. (y + size - 1)
    BY <1>1, <1>4, <2>2
  <2> QED
    BY <2>3 DEF y
<1>11. BytesInPrefix(ip, range) <=> Value(ip) \in (q * size) .. (q * size + size - 1)
  BY <1>6, <1>7, <1>9, <1>10
<1> QED
  BY <1>11 DEF size, ad, n

-----------------------------------------------------------------------------
(* The environment of the workload *)

\* An entry of either environment.
EnvEntry == [name : VarName \cup {NoName}, value : Nat]

\* out is what the entries K of g amount to: under each of their names the last of
\* them, in the order of the first.
Amounts(out, g, K) ==
  /\ out \in Seq(EnvEntry)
  /\ \A i \in DOMAIN out : \E l \in K :
       out[i] = g[l] /\ \A k \in K : g[k].name = g[l].name => k <= l
  /\ \A k \in K : \E i \in DOMAIN out : out[i].name = g[k].name
  /\ \A i, j \in DOMAIN out : i < j =>
       \E f \in K : g[f].name = out[i].name /\ \A k \in K : g[k].name = out[j].name => f < k

\* Putting one more entry takes it into account.
LEMMA PutAmounts ==
  ASSUME NEW g \in Seq(EnvEntry), NEW m \in DOMAIN g, NEW K \in SUBSET DOMAIN g,
         \A k \in K : k < m, NEW out, Amounts(out, g, K)
  PROVE  Amounts(Put(out, g[m]), g, K \cup {m})
<1> DEFINE e == g[m]
           new == Put(out, e)
           L == K \cup {m}
<1>0. /\ out \in Seq(EnvEntry) /\ e \in EnvEntry /\ m \in Nat /\ \A k \in K : k \in Nat
      /\ DOMAIN out = 1 .. Len(out) /\ Len(out) \in Nat
  BY DEF Amounts
<1>1. CASE Index(out, e.name) = {}
  <2>1. new = Append(out, e)
    BY <1>1 DEF Put
  <2>2. \A i \in DOMAIN out : out[i].name # e.name
    BY <1>1 DEF Index
  <2>3. \A k \in K : g[k].name # e.name
    BY <2>2 DEF Amounts
  <2>4. /\ new \in Seq(EnvEntry) /\ DOMAIN new = 1 .. (Len(out) + 1)
        /\ new[Len(out) + 1] = e /\ \A i \in DOMAIN out : new[i] = out[i]
    BY <1>0, <2>1
  <2> HIDE DEF new
  <2>5. ASSUME NEW i \in DOMAIN new
        PROVE  \E l \in L : new[i] = g[l] /\ \A k \in L : g[k].name = g[l].name => k <= l
    <3>1. CASE i = Len(out) + 1
      BY <1>0, <2>3, <2>4, <3>1
    <3>2. CASE i \in DOMAIN out
      <4>1. PICK l \in K : out[i] = g[l] /\ \A k \in K : g[k].name = g[l].name => k <= l
        BY <3>2 DEF Amounts
      <4>2. g[l].name # g[m].name
        BY <2>3
      <4> QED
        BY <2>4, <3>2, <4>1, <4>2
    <3> QED
      BY <1>0, <2>4, <3>1, <3>2
  <2>6. ASSUME NEW k \in L PROVE \E i \in DOMAIN new : new[i].name = g[k].name
    <3>1. CASE k = m
      BY <1>0, <2>4, <3>1
    <3>2. CASE k \in K
      <4>1. PICK i \in DOMAIN out : out[i].name = g[k].name
        BY <3>2 DEF Amounts
      <4> QED
        BY <1>0, <2>4, <4>1
    <3> QED
      BY <3>1, <3>2
  <2>7. ASSUME NEW i \in DOMAIN new, NEW j \in DOMAIN new, i < j
        PROVE  \E f \in L : /\ g[f].name = new[i].name
                            /\ \A k \in L : g[k].name = new[j].name => f < k
    <3>1. i \in DOMAIN out
      BY <1>0, <2>4, <2>7
    <3>2. CASE j = Len(out) + 1
      <4>1. PICK l \in K : out[i] = g[l]
        BY <3>1 DEF Amounts
      <4>2. \A k \in L : g[k].name = new[j].name => k = m
        BY <2>3, <2>4, <3>2
      <4> QED
        BY <2>4, <3>1, <4>1, <4>2
    <3>3. CASE j \in DOMAIN out
      <4>1. PICK f \in K : g[f].name = out[i].name /\ \A k \in K : g[k].name = out[j].name => f < k
        BY <2>7, <3>1, <3>3 DEF Amounts
      <4>2. g[m].name # out[j].name
        BY <2>2, <3>3
      <4> QED
        BY <2>4, <3>1, <3>3, <4>1, <4>2
    <3> QED
      BY <1>0, <2>4, <3>2, <3>3
  <2>8. Amounts(new, g, L)
    BY <2>4, <2>5, <2>6, <2>7 DEF Amounts
  <2> QED
    BY <2>8 DEF new
<1>2. CASE Index(out, e.name) # {}
  <2> DEFINE I == Index(out, e.name)
  <2>1. new = [i \in DOMAIN out |-> IF i \in I THEN e ELSE out[i]]
    BY <1>2 DEF Put
  <2>2. I \subseteq DOMAIN out /\ \A i \in DOMAIN out : i \in I <=> out[i].name = e.name
    BY DEF Index
  <2>3. /\ new \in Seq(EnvEntry) /\ DOMAIN new = DOMAIN out
        /\ \A i \in I : new[i] = e
        /\ \A i \in DOMAIN out \ I : new[i] = out[i]
    BY <1>0, <2>1, <2>2
  <2>4. \A i \in DOMAIN out : new[i].name = out[i].name
    BY <2>2, <2>3
  <2> HIDE DEF new
  <2>5. ASSUME NEW i \in DOMAIN new
        PROVE  \E l \in L : new[i] = g[l] /\ \A k \in L : g[k].name = g[l].name => k <= l
    <3>1. CASE i \in I
      BY <1>0, <2>3, <3>1
    <3>2. CASE i \notin I
      <4>1. PICK l \in K : out[i] = g[l] /\ \A k \in K : g[k].name = g[l].name => k <= l
        BY <2>3, <3>2 DEF Amounts
      <4>2. g[l].name # g[m].name
        BY <2>2, <2>3, <3>2, <4>1
      <4> QED
        BY <2>3, <3>2, <4>1, <4>2
    <3> QED
      BY <3>1, <3>2
  <2>6. ASSUME NEW k \in L PROVE \E i \in DOMAIN new : new[i].name = g[k].name
    <3>1. CASE k = m
      BY <1>2, <2>2, <2>3, <3>1
    <3>2. CASE k \in K
      <4>1. PICK i \in DOMAIN out : out[i].name = g[k].name
        BY <3>2 DEF Amounts
      <4> QED
        BY <2>3, <2>4, <4>1
    <3> QED
      BY <3>1, <3>2
  <2>7. ASSUME NEW i \in DOMAIN new, NEW j \in DOMAIN new, i < j
        PROVE  \E f \in L : /\ g[f].name = new[i].name
                            /\ \A k \in L : g[k].name = new[j].name => f < k
    <3>1. PICK f \in K : g[f].name = out[i].name /\ \A k \in K : g[k].name = out[j].name => f < k
      BY <2>3, <2>7 DEF Amounts
    <3> QED
      BY <2>3, <2>4, <3>1
  <2>8. Amounts(new, g, L)
    BY <2>3, <2>5, <2>6, <2>7 DEF Amounts
  <2> QED
    BY <2>8 DEF new
<1> QED
  BY <1>1, <1>2

\* The loop of Overlay as an equation.
Loop(out, start, entries, skipped, n) ==
  out = [i \in 0 .. n |->
          IF i = 0 THEN start
          ELSE IF entries[i].name \in skipped THEN out[i - 1]
          ELSE Put(out[i - 1], entries[i])]

\* It is satisfied, however long it runs.
LEMMA LoopExists ==
  ASSUME NEW start, NEW entries, NEW skipped, NEW n \in Nat
  PROVE  \E out : Loop(out, start, entries, skipped, n)
<1> DEFINE S == {m \in Nat : \E out : Loop(out, start, entries, skipped, m)}
<1>1. 0 \in S
  <2> DEFINE out == [i \in 0 .. 0 |-> start]
  <2>1. Loop(out, start, entries, skipped, 0)
    BY DEF Loop
  <2> QED
    BY <2>1
<1>2. ASSUME NEW m \in 1 .. n, m - 1 \in S PROVE m \in S
  <2>1. PICK f : Loop(f, start, entries, skipped, m - 1)
    BY <1>2
  <2> DEFINE last == IF entries[m].name \in skipped THEN f[m - 1] ELSE Put(f[m - 1], entries[m])
             out == [i \in 0 .. m |-> IF i < m THEN f[i] ELSE last]
             step(h, i) == IF i = 0 THEN start
                           ELSE IF entries[i].name \in skipped THEN h[i - 1]
                           ELSE Put(h[i - 1], entries[i])
  <2>2. f = [i \in 0 .. (m - 1) |-> step(f, i)]
    BY <2>1 DEF Loop
  <2>3. ASSUME NEW i \in 0 .. m PROVE out[i] = step(out, i)
    <3>1. CASE i = m
      <4>1. out[m] = last /\ out[m - 1] = f[m - 1] /\ m # 0
        OBVIOUS
      <4> QED
        BY <3>1, <4>1
    <3>2. CASE i < m /\ i # 0
      <4>1. i \in 0 .. (m - 1) /\ i - 1 \in 0 .. m /\ i - 1 < m
        BY <3>2
      <4>2. out[i] = f[i] /\ out[i - 1] = f[i - 1]
        BY <3>2, <4>1
      <4>3. f[i] = step(f, i)
        BY <2>2, <4>1
      <4> QED
        BY <4>2, <4>3
    <3>3. CASE i = 0
      <4>1. out[0] = f[0] /\ f[0] = step(f, 0)
        BY <2>2
      <4> QED
        BY <3>3, <4>1
    <3> QED
      BY <3>1, <3>2, <3>3
  <2>4. out = [i \in 0 .. m |-> step(out, i)]
    BY <2>3
  <2>5. Loop(out, start, entries, skipped, m) /\ m \in Nat
    BY <2>4 DEF Loop
  <2> HIDE DEF out
  <2> QED
    BY <2>5
<1> HIDE DEF S
<1>3. 0 .. n \subseteq S
  BY <1>1, <1>2, Upwards
<1> QED
  BY <1>3 DEF S

\* So Overlay is the last value of such a loop.
LEMMA OverlayLoops ==
  ASSUME NEW start, NEW entries \in Seq(EnvEntry), NEW skipped
  PROVE  \E out : /\ Loop(out, start, entries, skipped, Len(entries))
                  /\ Overlay(start, entries, skipped) = out[Len(entries)]
<1> DEFINE out == CHOOSE out : Loop(out, start, entries, skipped, Len(entries))
<1>1. Loop(out, start, entries, skipped, Len(entries))
  BY LoopExists
<1>2. Overlay(start, entries, skipped) = out[Len(entries)]
  BY DEF Overlay, Loop
<1> QED
  BY <1>1, <1>2

\* Where the first m entries, the skipped ones left out, stand if o come before them.
Places(o, entries, m, skipped) ==
  {k \in (o + 1) .. (o + m) : entries[k - o].name \notin skipped}

\* One more entry is one more place, or none.
LEMMA OnePlace ==
  ASSUME NEW o \in Nat, NEW entries, NEW skipped, NEW m \in Nat, m # 0
  PROVE  Places(o, entries, m, skipped)
           = IF entries[m].name \in skipped THEN Places(o, entries, m - 1, skipped)
             ELSE Places(o, entries, m - 1, skipped) \cup {o + m}
<1> DEFINE P(k) == entries[k - o].name \notin skipped
<1>1. (o + 1) .. (o + m) = (o + 1) .. (o + (m - 1)) \cup {o + m}
  OBVIOUS
<1>2. P(o + m) <=> entries[m].name \notin skipped
  <2>1. (o + m) - o = m
    OBVIOUS
  <2> QED
    BY <2>1
<1>3. /\ Places(o, entries, m, skipped) = {k \in (o + 1) .. (o + m) : P(k)}
      /\ Places(o, entries, m - 1, skipped) = {k \in (o + 1) .. (o + (m - 1)) : P(k)}
  BY DEF Places
<1> HIDE DEF P
<1> QED
  BY <1>1, <1>2, <1>3

\* What Overlay makes of the entries that follow the first o of g.
LEMMA OverlayAmounts ==
  ASSUME NEW g \in Seq(EnvEntry), NEW o \in Nat, NEW entries \in Seq(EnvEntry),
         o + Len(entries) <= Len(g),
         \A i \in DOMAIN entries : g[o + i] = entries[i],
         NEW K \in SUBSET (1 .. o), NEW start, Amounts(start, g, K), NEW skipped
  PROVE  Amounts(Overlay(start, entries, skipped), g,
                 K \cup Places(o, entries, Len(entries), skipped))
<1> DEFINE n == Len(entries)
           Upto(m) == K \cup Places(o, entries, m, skipped)
<1>0. n \in Nat /\ DOMAIN entries = 1 .. n /\ Len(g) \in Nat /\ DOMAIN g = 1 .. Len(g)
  OBVIOUS
<1>1. PICK out : /\ Loop(out, start, entries, skipped, n)
                 /\ Overlay(start, entries, skipped) = out[n]
  BY OverlayLoops
<1> DEFINE Good(m) == Amounts(out[m], g, Upto(m))
           S == {m \in 0 .. n : Good(m)}
<1>2. 0 .. n \subseteq S
  <2>1. 0 \in S
    <3>1. out[0] = start
      BY <1>0, <1>1 DEF Loop
    <3>2. Upto(0) = K
      BY DEF Places
    <3>3. Good(0)
      BY <3>1, <3>2
    <3> QED
      BY <1>0, <3>3
  <2>2. ASSUME NEW m \in 1 .. n, m - 1 \in S PROVE m \in S
    <3> HIDE DEF Good
    <3>1. m \in 0 .. n /\ m - 1 \in 0 .. n /\ m \in Nat /\ m # 0
      BY <1>0
    <3>2. Good(m - 1)
      BY <2>2
    <3>3. out[m] = IF entries[m].name \in skipped THEN out[m - 1] ELSE Put(out[m - 1], entries[m])
      BY <1>1, <3>1 DEF Loop
    <3>4. CASE entries[m].name \in skipped
      <4>1. Upto(m) = Upto(m - 1)
        BY <3>1, <3>4, OnePlace
      <4>2. Good(m)
        BY <3>2, <3>3, <3>4, <4>1 DEF Good
      <4> QED
        BY <3>1, <4>2
    <3>5. CASE entries[m].name \notin skipped
      <4>1. Upto(m) = Upto(m - 1) \cup {o + m}
        BY <3>1, <3>5, OnePlace
      <4>2. /\ o + m \in DOMAIN g /\ g[o + m] = entries[m]
            /\ Upto(m - 1) \in SUBSET DOMAIN g /\ \A k \in Upto(m - 1) : k < o + m
        <5>1. o + m \in 1 .. Len(g) /\ m \in DOMAIN entries
          BY <1>0, <3>1
        <5>2. \A k \in K : k \in 1 .. o
          OBVIOUS
        <5>3. \A k \in Places(o, entries, m - 1, skipped) : k \in (o + 1) .. (o + (m - 1))
          BY DEF Places
        <5>4. \A k \in Upto(m - 1) : k \in 1 .. Len(g) /\ k < o + m
          BY <1>0, <3>1, <5>1, <5>2, <5>3
        <5> HIDE DEF Upto
        <5> QED
          BY <1>0, <5>1, <5>4
      <4> HIDE DEF Upto
      <4>3. Amounts(Put(out[m - 1], g[o + m]), g, Upto(m - 1) \cup {o + m})
        BY <3>2, <4>2, PutAmounts DEF Good
      <4>4. Good(m)
        BY <3>3, <3>5, <4>1, <4>2, <4>3 DEF Good
      <4> QED
        BY <3>1, <4>4
    <3> QED
      BY <3>4, <3>5
  <2> HIDE DEF S
  <2> QED
    BY <1>0, <2>1, <2>2, Upwards
<1>3. Good(n)
  <2> HIDE DEF Good
  <2> QED
    BY <1>0, <1>2
<1> QED
  BY <1>1, <1>3

\* Overlay of the empty environment.
LEMMA NothingAmounts == ASSUME NEW g PROVE Amounts(<< >>, g, {})
BY DEF Amounts

\* The entries that reach the workload: of the client's environment those that are
\* not skipped, and all secrets.
Reaching ==
  Places(0, Inherited, Len(base), Stripped \cup {NoName})
    \cup Places(Len(base), Secrets, Len(decrypted), {})

\* Both environments are sequences of entries.
LEMMA BothSequences ==
  ASSUME base \in Seq(VarName \cup {NoName}), decrypted \in Seq(VarName \cup {NoName})
  PROVE  /\ Inherited \in Seq(EnvEntry) /\ Len(Inherited) = Len(base) /\ Len(base) \in Nat
         /\ Secrets \in Seq(EnvEntry) /\ Len(Secrets) = Len(decrypted) /\ Len(decrypted) \in Nat
<1> USE ChildEnvAssumption
<1>1. Len(base) \in Nat /\ DOMAIN base = 1 .. Len(base)
  OBVIOUS
<1>2. Len(decrypted) \in Nat /\ DOMAIN decrypted = 1 .. Len(decrypted)
  OBVIOUS
<1>3. Inherited \in [1 .. Len(base) -> EnvEntry]
  BY <1>1 DEF Inherited, EnvEntry
<1>4. Secrets \in [1 .. Len(decrypted) -> EnvEntry]
  BY <1>2 DEF Secrets, EnvEntry
<1>5. Inherited \in Seq(EnvEntry) /\ Len(Inherited) = Len(base)
  BY <1>1, <1>3
<1>6. Secrets \in Seq(EnvEntry) /\ Len(Secrets) = Len(decrypted)
  BY <1>2, <1>4
<1> QED
  BY <1>1, <1>2, <1>5, <1>6

\* Where the entries of two sequences stand when one follows the other.
LEMMA JoinAt ==
  ASSUME NEW s \in Seq(EnvEntry), NEW t \in Seq(EnvEntry)
  PROVE  /\ s \o t \in Seq(EnvEntry) /\ Len(s \o t) = Len(s) + Len(t)
         /\ \A i \in 1 .. Len(s) : (s \o t)[i] = s[i]
         /\ \A i \in 1 .. Len(t) : (s \o t)[Len(s) + i] = t[i]
OBVIOUS

\* So for the two environments.
LEMMA BothJoined ==
  ASSUME base \in Seq(VarName \cup {NoName}), decrypted \in Seq(VarName \cup {NoName})
  PROVE  LET g == Inherited \o Secrets
         IN  /\ g \in Seq(EnvEntry) /\ Len(g) = Len(base) + Len(decrypted)
             /\ \A i \in 1 .. Len(base) : g[i] = Inherited[i]
             /\ \A i \in 1 .. Len(decrypted) : g[Len(base) + i] = Secrets[i]
             /\ DOMAIN g = 1 .. (Len(base) + Len(decrypted))
<1> DEFINE g == Inherited \o Secrets
<1>1. /\ Inherited \in Seq(EnvEntry) /\ Len(Inherited) = Len(base) /\ Len(base) \in Nat
      /\ Secrets \in Seq(EnvEntry) /\ Len(Secrets) = Len(decrypted) /\ Len(decrypted) \in Nat
  BY BothSequences
<1>2. /\ g \in Seq(EnvEntry) /\ Len(g) = Len(Inherited) + Len(Secrets)
      /\ \A i \in 1 .. Len(Inherited) : g[i] = Inherited[i]
      /\ \A i \in 1 .. Len(Secrets) : g[Len(Inherited) + i] = Secrets[i]
  BY <1>1, JoinAt, Zenon
<1> HIDE DEF g
<1>3. /\ Len(g) = Len(base) + Len(decrypted) /\ DOMAIN g = 1 .. Len(g)
      /\ \A i \in 1 .. Len(base) : g[i] = Inherited[i]
      /\ \A i \in 1 .. Len(decrypted) : g[Len(base) + i] = Secrets[i]
  BY <1>1, <1>2
<1> QED
  BY <1>2, <1>3 DEF g

\* BuildEnv shows what reaches the workload.
LEMMA BuildAmounts ==
  ASSUME base \in Seq(VarName \cup {NoName}), decrypted \in Seq(VarName \cup {NoName})
  PROVE  Amounts(BuildEnv, Inherited \o Secrets, Reaching)
<1> DEFINE g == Inherited \o Secrets
           skipped == Stripped \cup {NoName}
           n == Len(base)
           one == Overlay(<< >>, Inherited, skipped)
           K == Places(0, Inherited, n, skipped)
<1>1. /\ Inherited \in Seq(EnvEntry) /\ Len(Inherited) = n /\ n \in Nat
      /\ Secrets \in Seq(EnvEntry) /\ Len(Secrets) = Len(decrypted) /\ Len(decrypted) \in Nat
  BY BothSequences
<1>2. /\ g \in Seq(EnvEntry) /\ Len(g) = n + Len(decrypted)
      /\ \A i \in 1 .. n : g[i] = Inherited[i]
      /\ \A i \in 1 .. Len(decrypted) : g[n + i] = Secrets[i]
  BY BothJoined
<1>3. Amounts(<< >>, g, {})
  BY NothingAmounts
<1>4. K \in SUBSET (1 .. n)
  BY <1>1 DEF Places
<1>5. BuildEnv = Overlay(one, Secrets, {})
  BY DEF BuildEnv
<1>6. DOMAIN Inherited = 1 .. n /\ DOMAIN Secrets = 1 .. Len(decrypted)
  BY <1>1
<1>7. Reaching = K \cup Places(n, Secrets, Len(decrypted), {})
  BY DEF Reaching
<1> HIDE DEF g, skipped, n, K
<1>8. Amounts(one, g, {} \cup Places(0, Inherited, Len(Inherited), skipped))
  <2>1. 0 \in Nat /\ {} \in SUBSET (1 .. 0) /\ 0 + Len(Inherited) <= Len(g)
        /\ \A i \in DOMAIN Inherited : g[0 + i] = Inherited[i]
    BY <1>1, <1>2, <1>6
  <2> QED
    BY <1>1, <1>2, <1>3, <2>1, OverlayAmounts
<1>9. Amounts(one, g, K)
  BY <1>1, <1>8 DEF K
<1> HIDE DEF one
<1>10. Amounts(Overlay(one, Secrets, {}), g, K \cup Places(n, Secrets, Len(Secrets), {}))
  <2>1. n + Len(Secrets) <= Len(g) /\ \A i \in DOMAIN Secrets : g[n + i] = Secrets[i]
    BY <1>1, <1>2, <1>6
  <2> QED
    BY <1>1, <1>2, <1>4, <1>9, <2>1, OverlayAmounts
<1> QED
  BY <1>1, <1>5, <1>7, <1>10 DEF g

\* What BuildEnv returns is what SecretsWin promises.
LEMMA AmountsWin ==
  ASSUME base \in Seq(VarName \cup {NoName}), decrypted \in Seq(VarName \cup {NoName}),
         child.env = BuildEnv, ~Refused
  PROVE  SecretsWin
<1> DEFINE out == child.env
           given == Inherited \o Secrets
           kept == {i \in DOMAIN given : given[i].name # NoName /\
                      (i > Len(base) \/ given[i].name \notin Stripped)}
           of(n) == {i \in kept : given[i].name = n}
           first(n) == CHOOSE i \in of(n) : \A k \in of(n) : i <= k
           last(n) == CHOOSE i \in of(n) : \A k \in of(n) : k <= i
<1>1. /\ Inherited \in Seq(EnvEntry) /\ Len(Inherited) = Len(base) /\ Len(base) \in Nat
      /\ Secrets \in Seq(EnvEntry) /\ Len(Secrets) = Len(decrypted) /\ Len(decrypted) \in Nat
  BY BothSequences
<1>2. /\ given \in Seq(EnvEntry) /\ Len(given) = Len(base) + Len(decrypted)
      /\ \A i \in 1 .. Len(base) : given[i] = Inherited[i]
      /\ \A i \in 1 .. Len(decrypted) : given[Len(base) + i] = Secrets[i]
      /\ DOMAIN given = 1 .. (Len(base) + Len(decrypted))
  BY BothJoined
<1>3. \A i \in 1 .. Len(decrypted) : Secrets[i].name # NoName
  <2>1. \A i \in DOMAIN decrypted : decrypted[i] # NoName
    BY DEF Refused
  <2> QED
    BY <2>1 DEF Secrets
<1>4. kept = Reaching
  <2> HIDE DEF given
  <2>1. \A i \in 1 .. Len(base) : i \in kept <=> given[i].name \notin Stripped \cup {NoName}
    BY <1>1, <1>2
  <2>2. \A i \in (Len(base) + 1) .. (Len(base) + Len(decrypted)) : i \in kept
    <3> SUFFICES ASSUME NEW i \in (Len(base) + 1) .. (Len(base) + Len(decrypted)) PROVE i \in kept
      OBVIOUS
    <3>1. i - Len(base) \in 1 .. Len(decrypted) /\ i = Len(base) + (i - Len(base))
      BY <1>1
    <3>2. given[i].name # NoName
      BY <1>2, <1>3, <3>1
    <3> QED
      BY <1>1, <1>2, <3>2
  <2>3. \A i \in kept : \/ i \in 1 .. Len(base)
                        \/ i \in (Len(base) + 1) .. (Len(base) + Len(decrypted))
    BY <1>1, <1>2
  <2>4. \A i : i \in Places(0, Inherited, Len(base), Stripped \cup {NoName}) <=>
               i \in 1 .. Len(base) /\ Inherited[i].name \notin Stripped \cup {NoName}
    BY <1>1 DEF Places
  <2>5. \A i : i \in Places(Len(base), Secrets, Len(decrypted), {}) <=>
               i \in (Len(base) + 1) .. (Len(base) + Len(decrypted))
    BY <1>1 DEF Places
  <2> HIDE DEF kept
  <2> QED
    BY <1>2, <2>1, <2>2, <2>3, <2>4, <2>5 DEF Reaching
<1>5. Amounts(out, given, kept)
  BY <1>4, BuildAmounts
<1>6. kept \subseteq Nat
  BY <1>1, <1>2
<1> HIDE DEF out, given, kept
<1>7. ASSUME NEW l \in kept, \A k \in kept : given[k].name = given[l].name => k <= l
      PROVE  last(given[l].name) = l
  <2> DEFINE n == given[l].name
  <2>1. l \in of(n) /\ \A k \in of(n) : k <= l
    BY <1>7
  <2>2. \A i \in of(n) : (\A k \in of(n) : k <= i) => i = l
    BY <1>6, <2>1
  <2> HIDE DEF of
  <2> QED
    BY <2>1, <2>2
<1>8. ASSUME NEW n, of(n) # {}
      PROVE  first(n) \in of(n) /\ \A k \in of(n) : first(n) <= k
  <2>1. of(n) \in SUBSET Nat
    BY <1>6
  <2>2. \E i \in of(n) : \A k \in of(n) : i <= k
    BY <1>8, <2>1, LeastNat
  <2> HIDE DEF of
  <2> QED
    BY <2>2
<1>9. {out[i].name : i \in DOMAIN out} = {given[i].name : i \in kept}
  <2>1. \A i \in DOMAIN out : \E l \in kept : out[i].name = given[l].name
    BY <1>5 DEF Amounts
  <2>2. \A k \in kept : \E i \in DOMAIN out : out[i].name = given[k].name
    BY <1>5 DEF Amounts
  <2> QED
    BY <2>1, <2>2
<1>10. ASSUME NEW i \in DOMAIN out PROVE out[i] = given[last(out[i].name)]
  <2>1. PICK l \in kept : /\ out[i] = given[l]
                          /\ \A k \in kept : given[k].name = given[l].name => k <= l
    BY <1>5 DEF Amounts
  <2> HIDE DEF last
  <2> QED
    BY <1>7, <2>1
<1>11. ASSUME NEW i \in DOMAIN out, NEW j \in DOMAIN out, i < j
       PROVE  first(out[i].name) < first(out[j].name)
  <2>1. PICK f \in kept : /\ given[f].name = out[i].name
                          /\ \A k \in kept : given[k].name = out[j].name => f < k
    BY <1>5, <1>11 DEF Amounts
  <2>2. PICK l \in kept : out[j] = given[l]
    BY <1>5 DEF Amounts
  <2>3. f \in of(out[i].name) /\ l \in of(out[j].name)
    BY <2>1, <2>2
  <2>4. first(out[i].name) \in kept /\ first(out[i].name) <= f
    BY <1>8, <2>3
  <2>5. first(out[j].name) \in kept /\ given[first(out[j].name)].name = out[j].name
    BY <1>8, <2>3
  <2> HIDE DEF first, of
  <2>6. f < first(out[j].name) /\ f \in Nat /\ first(out[i].name) \in Nat
    BY <1>6, <2>1, <2>4, <2>5
  <2>7. first(out[j].name) \in Nat
    BY <1>6, <2>5
  <2> QED
    BY <2>4, <2>6, <2>7
<1> QED
  BY <1>9, <1>10, <1>11 DEF SecretsWin, out, given, kept

=============================================================================
