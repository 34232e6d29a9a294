------------------------------ MODULE ChildEnv ------------------------------
(***************************************************************************)
(* The environment a released workload starts with (internal/run/env.go):  *)
(* the client's own, without the names it strips, overlaid with the        *)
(* secrets.  An entry is [name, value]; its value stands for where it came *)
(* from, so that no two entries are alike.                                 *)
(***************************************************************************)
EXTENDS Naturals, Sequences

CONSTANTS
  VarName,    \* names of variables that are valid names of secrets
  Stripped,   \* StrippedNames, among them
  NoName,     \* an entry without "=", or a name no secret may have
  MaxBase,    \* entries of the client's environment, at most
  MaxSecrets  \* secrets decrypted, at most

ASSUME ChildEnvAssumption ==
  /\ Stripped \subseteq VarName /\ NoName \notin VarName
  /\ MaxBase \in Nat /\ MaxSecrets \in Nat

VARIABLES
  base,      \* the client's environment: the names, in order
  decrypted,  \* the names of the decrypted secrets, in order
  child      \* what BuildEnv returned: [built, failed, env]

childVars == <<base, decrypted, child>>

Inherited == [i \in DOMAIN base |-> [name |-> base[i], value |-> i]]
Secrets == [i \in DOMAIN decrypted |-> [name |-> decrypted[i], value |-> MaxBase + i]]

\* index: where out has an entry of this name.
Index(out, name) == {i \in DOMAIN out : out[i].name = name}

\* Mutant: the first entry of a name wins.
PutFirst(out, entry) ==
  IF Index(out, entry.name) = {} THEN Append(out, entry) ELSE out

\* An entry takes the place of the one of its name, or comes last.
Put(out, entry) ==
  IF Index(out, entry.name) = {} THEN Append(out, entry)
  ELSE [i \in DOMAIN out |-> IF i \in Index(out, entry.name) THEN entry ELSE out[i]]

\* A loop over entries: each is put, but for those of a skipped name.
Overlay(start, entries, skipped) ==
  LET out[i \in 0 .. Len(entries)] ==
        IF i = 0 THEN start
        ELSE IF entries[i].name \in skipped THEN out[i - 1]
        ELSE Put(out[i - 1], entries[i])
  IN  out[Len(entries)]

\* ErrDuplicateSecret, and a name that is not a POSIX name.
Refused == NoName \in {decrypted[i] : i \in DOMAIN decrypted}
           \/ \E i, j \in DOMAIN decrypted : i # j /\ decrypted[i] = decrypted[j]

\* The client's environment first, without isStripped and what has no "=".
BuildEnv == Overlay(Overlay(<< >>, Inherited, Stripped \cup {NoName}), Secrets, {})

NotBuilt == [built |-> FALSE, failed |-> FALSE, env |-> << >>]

Names(n) == UNION {[1 .. k -> VarName \cup {NoName}] : k \in 0 .. n}

ChildStart(inherited, names) ==
  base = inherited /\ decrypted = names /\ child = NotBuilt

ChildInit ==
  \E inherited \in Names(MaxBase), names \in Names(MaxSecrets) :
    ChildStart(inherited, names)

Build ==
  /\ ~child.built
  /\ child' = [built |-> TRUE, failed |-> Refused,
               env |-> IF Refused THEN << >> ELSE BuildEnv]
  /\ UNCHANGED <<base, decrypted>>

-----------------------------------------------------------------------------
(* Properties *)

\* The workload sees each name once: a secret under its name whatever the client
\* inherited, the last of the values inherited for any other name, and neither
\* the bootstrap token nor anything else that was neither inherited nor released. Names
\* keep the order in which they first came.
SecretsWin ==
  child.built /\ ~child.failed =>
    LET out == child.env
        given == Inherited \o Secrets
        kept == {i \in DOMAIN given : given[i].name # NoName /\
                   (i > Len(base) \/ given[i].name \notin Stripped)}
        of(n) == {i \in kept : given[i].name = n}
        first(n) == CHOOSE i \in of(n) : \A k \in of(n) : i <= k
        last(n) == CHOOSE i \in of(n) : \A k \in of(n) : k <= i
    IN  /\ {out[i].name : i \in DOMAIN out} = {given[i].name : i \in kept}
        /\ \A i \in DOMAIN out : out[i] = given[last(out[i].name)]
        /\ \A i, j \in DOMAIN out : i < j => first(out[i].name) < first(out[j].name)

=============================================================================
