----------------------------- MODULE MCConsole -----------------------------
(* A small instance of Console. *)
EXTENDS Console

Text(codes) == [word |-> TRUE, val |-> codes]
Number(n) == [word |-> FALSE, val |-> <<n>>]
Alpha == Text(<<1, 12, 16, 8, 1>>)
Beta == Text(<<2, 5, 20, 1>>)

Release(x, y, z) == [core |-> <<x, y, z>>, pre |-> << >>]
Prerelease(x, y, z, identifiers) == [core |-> <<x, y, z>>, pre |-> identifiers]

\* The examples of section 11 of SemVer 2.0.0 in the order it gives them, between
\* which numbers of two digits and prereleases of a later core.
Ascending ==
  << Prerelease(1, 0, 0, <<Alpha>>),
     Prerelease(1, 0, 0, <<Alpha, Number(1)>>),
     Prerelease(1, 0, 0, <<Alpha, Beta>>),
     Prerelease(1, 0, 0, <<Beta>>),
     Prerelease(1, 0, 0, <<Beta, Number(2)>>),
     Prerelease(1, 0, 0, <<Beta, Number(11)>>),
     Release(1, 0, 0),
     Release(1, 9, 0),
     Release(1, 10, 0),
     Prerelease(2, 0, 0, <<Number(3)>>),
     Release(2, 0, 0),
     Release(2, 1, 0),
     Release(2, 1, 1) >>

SemVer == {Ascending[i] : i \in DOMAIN Ascending}

\* The order of Releases is the one the document's examples are in.
ASSUME ExamplesAscend ==
  \A i, j \in DOMAIN Ascending :
    LowerPrecedence(Ascending[i], Ascending[j]) <=> i < j

\* No list, a range of every prefix length in both families, and both at once.
FewLists ==
  {{}} \cup {{[address |-> <<2>>, prefix |-> p]} : p \in 0 .. 2}
       \cup {{[address |-> <<1, 3>>, prefix |-> p]} : p \in 0 .. 4}
       \cup {{[address |-> <<2>>, prefix |-> 1], [address |-> <<1, 3>>, prefix |-> 3]}}

\* No row, one of each kind that matters, and two.
Row(v, required, enabled) == [verifier |-> v, required |-> required, enabled |-> enabled]
FewRows ==
  { {}, {Row("signed-build-manifest", TRUE, TRUE)},
    {Row("signed-build-manifest", TRUE, FALSE), Row("claims-only", FALSE, TRUE)},
    {Row("claims-only", TRUE, TRUE), Row("signed-build-manifest", TRUE, TRUE)},
    {Row("another", TRUE, TRUE)} }

Families == {1, 2}

=============================================================================
