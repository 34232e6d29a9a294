--------------------------- MODULE MCBootSession ---------------------------
(* Small instances of BootSession: who connects with which token from where. *)
EXTENDS BootSessionProps, TLC

CONSTANTS tk1, src1

\* Both workloads run with one token, behind one address.
OneToken == [k \in Clients |-> tk1]
OneSource == [k \in Clients |-> src1]

\* The token outlives the run, or lapses in the middle of it.
NeverExpires == [tk \in Tokens |-> MaxTime + 1]
ExpiresMidway == [tk \in Tokens |-> 2]

Symmetry == Permutations(Boots) \cup Permutations(Conns) \cup Permutations(Tasks)
              \cup Permutations(Clients)

=============================================================================
