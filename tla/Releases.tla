------------------------------ MODULE Releases ------------------------------
(***************************************************************************)
(* The release catalog (releases/catalog.ts, migration 0002): the versions *)
(* published with the hash of each architecture's binary, sorted by        *)
(* compareVersions, and the first of them, which is what the download      *)
(* script installs.  The comparison is translated branch by branch, the    *)
(* order it is to compute is stated apart from it, clause by clause of     *)
(* SemVer 2.0.0, section 11.                                               *)
(* A version is [core, pre]: its three numbers and its prerelease          *)
(* identifiers, each [word, val]: a word is the sequence of its character  *)
(* codes, a number the one-element sequence of its value.                  *)
(***************************************************************************)
EXTENDS Integers, Sequences, FiniteSets

CONSTANTS
  Version,     \* the versions that occur
  Hash,        \* hashes a publication may name
  Unpublished, \* stands for a missing row
  MaxReleases  \* how many versions are published at most

Identifier == {x \in [word : BOOLEAN, val : Seq(Nat)] : x.word \/ Len(x.val) = 1}

\* What versionSchema lets through.
SemanticVersion == [core : [1 .. 3 -> Nat], pre : Seq(Identifier)]

ASSUME ReleasesAssumption ==
  /\ \A v \in Version : v \in SemanticVersion
  /\ Unpublished \notin Hash
  /\ MaxReleases \in Nat

Arch == {"amd64", "arm64"}

VARIABLE rows  \* binary_releases: the hash of a version and architecture

-----------------------------------------------------------------------------
(* compareVersions: positive if the left one is greater, 0 if they are equal *)

\* A loop that returns at its first result that is not 0.
FirstResult(results) ==
  LET found == {i \in DOMAIN results : results[i] # 0}
  IN  IF found = {} THEN 0
      ELSE results[CHOOSE i \in found : \A k \in found : i <= k]

\* JavaScript's > on strings.
GreaterText(x, y) ==
  \E i \in DOMAIN x :
    /\ \A k \in 1 .. i - 1 : k \in DOMAIN y /\ x[k] = y[k]
    /\ i \in DOMAIN y => x[i] > y[i]

CompareNumbers(m, n) == IF m = n THEN 0 ELSE IF m > n THEN 1 ELSE -1

\* Mutant: the three numbers are compared as the strings they are written in.
CompareCoresAsText(v, w) ==
  LET text(k) == IF k < 10 THEN <<k>> ELSE <<k \div 10, k % 10>>
  IN  FirstResult([i \in 1 .. 3 |->
        IF v.core[i] = w.core[i] THEN 0
        ELSE IF GreaterText(text(v.core[i]), text(w.core[i])) THEN 1 ELSE -1])

CompareCores(v, w) ==
  FirstResult([i \in 1 .. 3 |-> CompareNumbers(v.core[i], w.core[i])])

CompareIdentifiers(l, r) ==
  IF l = r THEN 0
  ELSE IF ~l.word /\ ~r.word THEN CompareNumbers(l.val[1], r.val[1])
  ELSE IF l.word # r.word THEN (IF r.word THEN -1 ELSE 1)
  ELSE IF GreaterText(l.val, r.val) THEN 1 ELSE -1

\* One pass of the loop over the identifiers, which one side may have run out of.
CompareAt(x, y, i) ==
  IF i \notin DOMAIN x THEN -1
  ELSE IF i \notin DOMAIN y THEN 1
  ELSE CompareIdentifiers(x[i], y[i])

compareVersions(v, w) ==
  LET final(u) == IF u.pre = << >> THEN 1 ELSE 0
      longer   == IF Len(v.pre) > Len(w.pre) THEN Len(v.pre) ELSE Len(w.pre)
  IN  IF CompareCores(v, w) # 0 THEN CompareCores(v, w)
      ELSE IF v.pre = << >> \/ w.pre = << >> THEN final(v) - final(w)
      ELSE FirstResult([i \in 1 .. longer |-> CompareAt(v.pre, w.pre, i)])

-----------------------------------------------------------------------------
(* The order of SemVer 2.0.0, section 11 *)

\* The order of sequences by the order R (a set of pairs) of their elements: a
\* proper beginning comes first, otherwise the first difference decides.
Lexical(x, y, R) ==
  \/ /\ Len(x) < Len(y)
     /\ \A i \in DOMAIN x : x[i] = y[i]
  \/ \E i \in DOMAIN x \cap DOMAIN y :
       /\ <<x[i], y[i]>> \in R
       /\ \A k \in 1 .. i - 1 : x[k] = y[k]

NumberOrder == {p \in Nat \X Nat : p[1] < p[2]}

\* 11.4.1 to 11.4.3: numbers by value, words by their characters, and any number
\* before any word.
IdentifierOrder ==
  {p \in Identifier \X Identifier :
     \/ ~p[1].word /\ ~p[2].word /\ p[1].val[1] < p[2].val[1]
     \/ p[1].word /\ p[2].word /\ Lexical(p[1].val, p[2].val, NumberOrder)
     \/ ~p[1].word /\ p[2].word}

\* 11.2: major, minor and patch decide, by value. 11.3: a prerelease comes before
\* its release. 11.4 and 11.4.4: two prereleases compare identifier by
\* identifier, and more of them come after fewer.
LowerPrecedence(v, w) ==
  \/ Lexical(v.core, w.core, NumberOrder)
  \/ v.core = w.core /\ v.pre # << >> /\ w.pre = << >>
  \/ /\ v.core = w.core /\ v.pre # << >> /\ w.pre # << >>
     /\ Lexical(v.pre, w.pre, IdentifierOrder)

-----------------------------------------------------------------------------
(* The catalog *)

Published == {v \in Version : \E a \in Arch : rows[v][a] # Unpublished}

\* The version of the first entry of the sorted catalog.
Latest == CHOOSE v \in Published : \A w \in Published : compareVersions(w, v) <= 0

ReleasesInit == rows = [v \in Version |-> [a \in Arch |-> Unpublished]]

\* An upsert sets the hash to NULL where another one is stored, which the
\* column refuses and which rolls back the batch.
\* Mutant: only the first statement of the batch is guarded.
ConflictsFirst(v, hash) == rows[v]["amd64"] \notin {Unpublished, hash["amd64"]}

Conflicts(v, hash) == \E a \in Arch : rows[v][a] \notin {Unpublished, hash[a]}

\* One batch inserts both architectures, or finds them as they are (a retry).
Publish ==
  \E v \in Version, hash \in [Arch -> Hash] :
    /\ v \in Published \/ Cardinality(Published) < MaxReleases
    /\ ~Conflicts(v, hash)
    /\ rows' = [rows EXCEPT ![v] = hash]

-----------------------------------------------------------------------------
(* Properties *)

\* What the download script installs without a version is the greatest published
\* version in the order of SemVer 2.0.0, whatever the versions and the order of
\* publication, and it is there for both architectures.
LatestIsGreatest ==
  Published # {} =>
    /\ Latest \in Published
    /\ \A v \in Published \ {Latest} : LowerPrecedence(v, Latest)
    /\ \A a \in Arch : rows[Latest][a] # Unpublished

\* A published binary stays what it was: publications that are repeated, race or
\* disagree on one architecture only never change a hash or half a release.
PublishedStays ==
  [][\A v \in Published : rows'[v] = rows[v]]_rows

=============================================================================
