----------------------------- MODULE Provenance -----------------------------
(***************************************************************************)
(* What the operator reviewed and what is approved.  A boot's evidence is  *)
(* verified when it opens, and the result is what every approval screen    *)
(* shows; an approval verifies it again, twice (approvalState, called by   *)
(* prepareApproval and completeApproval), each time against the mode and   *)
(* the trusted signers of that moment, while operators change both.        *)
(***************************************************************************)
EXTENDS Naturals

CONSTANTS
  Approval,   \* approvals in flight
  Signer,     \* fingerprints of signers
  NoManifest, \* stands for a boot without a signed manifest
  PolicyRows  \* what the environment's provenance_policies may hold

ASSUME ProvenanceAssumption ==
  /\ NoManifest \notin [signer : Signer, valid : BOOLEAN, differs : BOOLEAN]
  /\ \A set \in PolicyRows : \A p \in set : p.required \in BOOLEAN /\ p.enabled \in BOOLEAN

VARIABLES
  evidence,   \* the boot's manifest: its signer, whether the signature is
              \* valid, whether a fact in it contradicts a claim of the boot
  policies,   \* provenance_policies of the environment; nothing writes them
  mode,       \* environments.provenance_mode
  trusted,    \* signers enabled for the environment and not revoked
  stored,     \* provenance_json of the boot: the results of its hello
  approval,   \* the approval calls
  released    \* what the boot was approved on, [by |-> "nobody"] before

provenanceVars ==
  <<evidence, policies, mode, trusted, stored, approval, released>>

Modes == {"OFF", "ADVISORY", "REQUIRED"}

Verifiers == {"claims-only", "signed-build-manifest"}

Statuses == {"VERIFIED", "UNVERIFIED", "UNAVAILABLE", "FAILED"}

Outcome == [status : Statuses, mismatch : BOOLEAN]

Results == [Verifiers -> Outcome]

NoResults == [v \in Verifiers |-> [status |-> "UNAVAILABLE", mismatch |-> FALSE]]

Waiting == [pc |-> "idle"]

Nobody == [by |-> "nobody"]

-----------------------------------------------------------------------------
(* The verifiers and the policy *)

\* signed-build-manifest.ts, and claims-only.ts, which never verifies anything.
Verify(signers) ==
  LET manifest ==
        IF evidence = NoManifest
        THEN [status |-> "UNAVAILABLE", mismatch |-> FALSE]
        ELSE IF evidence.signer \notin signers
        THEN [status |-> "UNVERIFIED", mismatch |-> FALSE]
        ELSE IF ~evidence.valid
        THEN [status |-> "FAILED", mismatch |-> FALSE]
        ELSE [status |-> "VERIFIED", mismatch |-> evidence.differs]
  IN  [v \in Verifiers |->
        IF v = "claims-only" THEN [status |-> "UNVERIFIED", mismatch |-> FALSE]
                             ELSE manifest]

\* Without an enabled and required row the rule falls back to one verified
\* result, none failed, and no mismatch.
Blocks(required, results) ==
  \/ /\ required = {}
     /\ \/ \A v \in Verifiers : results[v].status # "VERIFIED"
        \/ \E v \in Verifiers : results[v].status = "FAILED" \/ results[v].mismatch
  \/ \E p \in required :
       \/ p.verifier \notin Verifiers
       \/ results[p.verifier].status # "VERIFIED"
       \/ results[p.verifier].mismatch

Approvable(m, results) ==
  m = "REQUIRED" => ~Blocks({p \in policies : p.enabled /\ p.required}, results)

-----------------------------------------------------------------------------
(* The boot and its environment *)

ProvenanceInit ==
  /\ evidence \in {NoManifest} \cup [signer : Signer, valid : BOOLEAN, differs : BOOLEAN]
  /\ policies \in PolicyRows
  /\ mode \in Modes
  /\ trusted \in SUBSET Signer
  /\ stored = Verify(trusted)
  /\ approval = [a \in Approval |-> Waiting]
  /\ released = Nobody

SetEnvironmentPolicy ==
  /\ mode' \in Modes
  /\ UNCHANGED <<evidence, policies, trusted, stored, approval, released>>

\* The signers an approval may have read in its current round.
Sees(a, s) ==
  IF approval[a] = Waiting THEN Waiting ELSE [approval[a] EXCEPT !.seen = @ \cup {s}]

AddTrustedSigner(s) ==
  /\ trusted' = trusted \cup {s}
  /\ approval' = [a \in Approval |-> Sees(a, s)]
  /\ UNCHANGED <<evidence, policies, mode, stored, released>>

RevokeTrustedSigner(s) ==
  /\ trusted' = trusted \ {s}
  /\ UNCHANGED <<evidence, policies, mode, stored, approval, released>>

-----------------------------------------------------------------------------
(* An approval *)

Step(a, state) ==
  /\ approval' = [approval EXCEPT ![a] = state]
  /\ UNCHANGED <<evidence, policies, mode, trusted, stored>>

\* The operator approves the results the screen shows.
ApproveStart(a) ==
  /\ approval[a] = Waiting
  /\ released = Nobody
  /\ Step(a, [pc |-> "mode", round |-> 1, shown |-> stored, mode |-> "OFF",
              results |-> NoResults, seen |-> {}])
  /\ UNCHANGED released

\* A round begins with the boot's status and the environment's row.
ReadMode(a) ==
  /\ approval[a].pc = "mode"
  /\ Step(a, IF released # Nobody THEN Waiting
             ELSE [approval[a] EXCEPT !.pc = "signers", !.mode = mode, !.seen = trusted])
  /\ UNCHANGED released

\* Mutant: the second round relies on the results of the first.
EvaluatedOnce(a) == IF approval[a].round = 2 THEN approval[a].results ELSE Verify(trusted)

Evaluated(a) == Verify(trusted)

\* The digest of the results is the one the screen sent.
\* Mutant: it is compared in the first round only.
ReviewedFirst(a, results) == approval[a].round = 2 \/ results = approval[a].shown

Reviewed(a, results) == results = approval[a].shown

ReadSigners(a) ==
  /\ approval[a].pc = "signers"
  /\ LET results == Evaluated(a)
         passes  == Approvable(approval[a].mode, results) /\ Reviewed(a, results)
     IN  Step(a, IF ~passes THEN Waiting
                 ELSE [approval[a] EXCEPT
                        !.pc      = IF approval[a].round = 1 THEN "mode" ELSE "write",
                        !.round   = 2,
                        !.results = results])
  /\ UNCHANGED released

\* After the payload is hashed only the boot is looked at again.
Approve(a) ==
  /\ approval[a].pc = "write"
  /\ released' = IF released # Nobody THEN released
                 ELSE [by |-> a, mode |-> approval[a].mode,
                       results |-> approval[a].results, seen |-> approval[a].seen]
  /\ Step(a, Waiting)

ProvenanceNext ==
  \/ SetEnvironmentPolicy
  \/ \E s \in Signer : AddTrustedSigner(s) \/ RevokeTrustedSigner(s)
  \/ \E a \in Approval :
       ApproveStart(a) \/ ReadMode(a) \/ ReadSigners(a) \/ Approve(a)

-----------------------------------------------------------------------------
(* Properties *)

ProvenanceTypeOK ==
  /\ mode \in Modes
  /\ trusted \subseteq Signer
  /\ stored \in Results
  /\ approval \in [Approval ->
       {Waiting} \cup [pc : {"mode", "signers", "write"}, round : {1, 2}, shown : Results,
                       mode : Modes, results : Results, seen : SUBSET Signer]]
  /\ released \in
       {Nobody} \cup [by : Approval, mode : Modes, results : Results, seen : SUBSET Signer]

\* A boot is approved on the results its hello stored, which are the ones every
\* approval screen shows: no change of the signers between the screen, the
\* prepare and the complete makes an approval of something else.
ApprovedAsReviewed == released # Nobody => released.results = stored

\* Under REQUIRED a boot is approved only with a valid manifest that contradicts
\* none of its claims, by a signer that was trusted at some time since the last
\* round of the approval began: a signer revoked before it carries nothing, with
\* policy rows or without, whatever the mode was when the operator looked.
RequiredIsVerified ==
  released # Nobody /\ released.mode = "REQUIRED" =>
    /\ evidence # NoManifest
    /\ evidence.valid /\ ~evidence.differs
    /\ evidence.signer \in released.seen

=============================================================================
