----------------------------- MODULE MCVaultKeys -----------------------------
(* Small instances of VaultKeys: a cloud and a cold environment of one slug. *)
EXTENDS VaultKeysProps, TLC

CONSTANTS e1, e2, s1

OneCloudOneCold == (e1 :> "CLOUD") @@ (e2 :> "COLD")
OneSlug == [e \in Env |-> s1]

Symmetry == Permutations(Job) \cup Permutations(Name)

=============================================================================
