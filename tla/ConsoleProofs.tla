--------------------------- MODULE ConsoleProofs ---------------------------
(***************************************************************************)
(* Proof that OperatorsInv is an invariant of Console for every number of  *)
(* users, role changes, boots, dashboard calls, approvals, signers, policy *)
(* rows, versions, rows and events, and of the promises that follow.       *)
(*                                                                         *)
(* Each part is proved by itself: an invariant that its own steps keep.    *)
(* The pages are in PagesProofs, the match of an address and the           *)
(* environment of a workload in LoopProofs.  A part that rests keeps its   *)
(* invariant too (the lemmas ...Rest), and a step of Console moves one     *)
(* part.                                                                   *)
(***************************************************************************)
EXTENDS Console, PagesProofs, LoopProofs


\* Once there is an account, a claim still on its way was let in before.
ClaimsInEarly ==
  Accounts # {} => {u \in User : claim[u] = "allowed"} \subseteq early

\* A change that is about to write is not of its caller's own account.
VerifiedCaller ==
  \A c \in Change : change[c].pc = "update" => change[c].by # change[c].of

\* Inductive for the setup ceremony.
SetupInv == AccessTypeOK /\ SetupCloses /\ ClaimsInEarly

\* Inductive for the change of roles.
RoleInv == VerifiedCaller /\ OwnerRemains

\* A vault without accounts satisfies both.
LEMMA AccessStarts == AccessInit => SetupInv /\ RoleInv
<1> SUFFICES ASSUME AccessInit PROVE SetupInv /\ RoleInv
  OBVIOUS
<1>1. AccessTypeOK
  <2>1. [c \in Change |-> Idle] \in [Change -> ChangeState]
    BY DEF ChangeState
  <2>2. 0 \in 0 .. MaxTime
    BY AccessAssumption
  <2>3. [u \in User |-> NoSession] \in [User -> {NoSession} \cup (-1 .. MaxTime)]
    OBVIOUS
  <2> QED
    BY <2>1, <2>2, <2>3 DEF AccessInit, AccessTypeOK
<1>2. Accounts = {}
  BY DEF AccessInit, Accounts
<1>3. \A c \in Change : change[c] = Idle
  BY DEF AccessInit
<1>5. VerifiedCaller
  BY <1>3 DEF VerifiedCaller, Idle
<1> QED
  BY <1>1, <1>2, <1>5 DEF SetupInv, RoleInv, SetupCloses, ClaimsInEarly, OwnerRemains

\* A change past its first step carries its caller, its subject and the new role.
LEMMA ChangeIsOne ==
  ASSUME AccessTypeOK, NEW c \in Change, change[c].pc \in {"verify", "update"}
  PROVE  /\ change[c] # Idle
         /\ change[c] \in [pc : {"verify", "update"}, by : User, of : User, to : Roles]
  BY DEF AccessTypeOK, ChangeState, Idle

\* The steps of Access keep its types.
LEMMA AccessTypeKept == AccessTypeOK /\ AccessNext => AccessTypeOK'
<1> SUFFICES ASSUME AccessTypeOK, AccessNext PROVE AccessTypeOK'
  OBVIOUS
<1> USE AccessAssumption DEF AccessTypeOK
<1>1. CASE \E u \in User : ClaimStart(u) \/ ClaimCreate(u) \/ ClaimSession(u) \/ ClaimDies(u)
  <2> PICK u \in User : ClaimStart(u) \/ ClaimCreate(u) \/ ClaimSession(u) \/ ClaimDies(u)
    BY <1>1
  <2>1. CASE ClaimStart(u)
    BY <2>1 DEF ClaimStart
  <2>2. CASE ClaimCreate(u)
    BY <2>2 DEF ClaimCreate, Roles
  <2>3. CASE ClaimSession(u)
    BY <2>3 DEF ClaimSession, Never
  <2>4. CASE ClaimDies(u)
    BY <2>4 DEF ClaimDies
  <2> QED
    BY <2>1, <2>2, <2>3, <2>4
<1>2. CASE \E u \in User : RegisterPasskey(u) \/ SignIn(u) \/ SessionEnds(u)
  BY <1>2 DEF RegisterPasskey, SignIn, SessionEnds
<1>3. CASE \E c \in Change :
             \/ \E by, of \in User, to \in Roles : ChangeStart(c, by, of, to)
             \/ ChangeVerify(c)
             \/ ChangeUpdate(c)
  <2> PICK c \in Change :
             \/ \E by, of \in User, to \in Roles : ChangeStart(c, by, of, to)
             \/ ChangeVerify(c)
             \/ ChangeUpdate(c)
    BY <1>3
  <2>1. CASE \E by, of \in User, to \in Roles : ChangeStart(c, by, of, to)
    BY <2>1 DEF ChangeStart, ChangeState
  <2>2. CASE ChangeVerify(c)
    <3>1. change[c] \in [pc : {"verify", "update"}, by : User, of : User, to : Roles]
      BY <2>2, ChangeIsOne DEF ChangeVerify
    <3>2. [change[c] EXCEPT !.pc = "update"] \in ChangeState /\ Idle \in ChangeState
      BY <3>1 DEF ChangeState
    <3> QED
      BY <2>2, <3>2 DEF ChangeVerify
  <2>3. CASE ChangeUpdate(c)
    <3>1. change[c].of \in User /\ change[c].to \in Roles /\ Idle \in ChangeState
      BY <2>3, ChangeIsOne DEF ChangeUpdate, ChangeState
    <3> QED
      BY <2>3, <3>1 DEF ChangeUpdate
  <2> QED
    BY <2>1, <2>2, <2>3
<1>4. CASE ClockTicks
  BY <1>4 DEF ClockTicks
<1> QED
  BY <1>1, <1>2, <1>3, <1>4 DEF AccessNext

\* No step creates an account for a claim that came later: an account is created by
\* ClaimCreate alone, and while one exists MayClaim lets nobody in.
LEMMA SetupStep == SetupInv /\ AccessNext => SetupInv'
<1> SUFFICES ASSUME SetupInv, AccessNext PROVE SetupCloses' /\ ClaimsInEarly'
  BY AccessTypeKept DEF SetupInv
<1> USE DEF SetupInv, SetupCloses, ClaimsInEarly, Accounts
<1>1. CASE UNCHANGED <<claim, role, early>>
  BY <1>1
<1>2. CASE \E u \in User : ClaimStart(u)
  BY <1>2 DEF ClaimStart, MayClaim, AccessTypeOK
<1>3. CASE \E u \in User : ClaimCreate(u)
  BY <1>3 DEF ClaimCreate, AccessTypeOK
<1>4. CASE \E u \in User : ClaimSession(u) \/ ClaimDies(u)
  BY <1>4 DEF ClaimSession, ClaimDies, AccessTypeOK
<1>5. CASE \E c \in Change : ChangeUpdate(c)
  <2> PICK c \in Change : ChangeUpdate(c)
    BY <1>5
  <2>1. change[c].of \in User /\ change[c].to # "none"
    BY ChangeIsOne DEF ChangeUpdate, Roles
  <2>2. Accounts' = Accounts
    BY <2>1 DEF ChangeUpdate, AccessTypeOK
  <2> QED
    BY <2>2 DEF ChangeUpdate
<1> QED
  BY <1>1, <1>2, <1>3, <1>4, <1>5
  DEF AccessNext, RegisterPasskey, SignIn, SessionEnds, ChangeStart, ChangeVerify, ClockTicks

\* updateRole leaves its caller an owner, if that is what the caller still is: the
\* caller is not its subject.
LEMMA RoleStep == AccessTypeOK /\ RoleInv /\ AccessNext => RoleInv'
<1> SUFFICES ASSUME AccessTypeOK, RoleInv, AccessNext PROVE RoleInv'
  OBVIOUS
<1> USE DEF RoleInv, VerifiedCaller, OwnerRemains
<1>1. CASE UNCHANGED <<role, change, outdated>>
  BY <1>1 DEF Accounts, Owners
<1>2. CASE \E u \in User : ClaimCreate(u)
  <2> PICK u \in User : ClaimCreate(u)
    BY <1>2
  <2>1. u \in Owners'
    BY DEF ClaimCreate, AccessTypeOK, Owners
  <2> QED
    BY <2>1 DEF ClaimCreate
<1>3. CASE \E c \in Change, by, of \in User, to \in Roles : ChangeStart(c, by, of, to)
  <2> PICK c \in Change, by \in User, of \in User, to \in Roles : ChangeStart(c, by, of, to)
    BY <1>3
  <2>1. /\ change'[c].pc = "verify"
        /\ \A d \in Change \ {c} : change'[d] = change[d]
    BY DEF ChangeStart, AccessTypeOK
  <2>2. outdated' = outdated /\ Accounts' = Accounts /\ Owners' = Owners
    BY DEF ChangeStart, Accounts, Owners
  <2> QED
    BY <2>1, <2>2
<1>4. CASE \E c \in Change : ChangeVerify(c)
  <2> PICK c \in Change : ChangeVerify(c)
    BY <1>4
  <2>1. change[c] \in [pc : {"verify", "update"}, by : User, of : User, to : Roles]
    BY ChangeIsOne DEF ChangeVerify
  <2>2. \A d \in Change \ {c} : change'[d] = change[d]
    BY DEF ChangeVerify, AccessTypeOK
  <2>3. \/ change'[c] = Idle
        \/ change'[c] = [change[c] EXCEPT !.pc = "update"] /\ change[c].by # change[c].of
    BY DEF ChangeVerify, AccessTypeOK, MayChange
  <2>4. outdated' = outdated /\ Accounts' = Accounts /\ Owners' = Owners
    BY DEF ChangeVerify, Accounts, Owners
  <2>5. change'[c].pc = "update" => change'[c].by # change'[c].of
    BY <2>1, <2>3 DEF Idle
  <2> QED
    BY <2>2, <2>4, <2>5
<1>5. CASE \E c \in Change : ChangeUpdate(c)
  <2> PICK c \in Change : ChangeUpdate(c)
    BY <1>5
  <2>1. change[c] \in [pc : {"verify", "update"}, by : User, of : User, to : Roles]
    BY ChangeIsOne DEF ChangeUpdate
  <2>2. change'[c] = Idle /\ \A d \in Change \ {c} : change'[d] = change[d]
    BY DEF ChangeUpdate, AccessTypeOK
  <2>3. change[c].by # change[c].of /\ Idle.pc # "update"
    BY DEF ChangeUpdate, Idle
  <2>4. ~outdated' => role[change[c].by] = "owner"
    BY DEF ChangeUpdate
  <2>5. role[change[c].by] = "owner" => change[c].by \in Owners'
    BY <2>1, <2>3 DEF ChangeUpdate, Owners, AccessTypeOK
  <2> QED
    BY <2>2, <2>3, <2>4, <2>5
<1> QED
  BY <1>1, <1>2, <1>3, <1>4, <1>5
  DEF AccessNext, ClaimStart, ClaimSession, ClaimDies, RegisterPasskey, SignIn, SessionEnds, ClockTicks

-----------------------------------------------------------------------------
(* The index of boots *)

\* Boots that were just stored, with their index rows in flight, are of their types.
LEMMA IndexStarts == BootIndexInit => BootIndexTypeOK
  BY BootIndexAssumption DEF BootIndexInit, BootIndexTypeOK, Status, Live

\* Every event of the table leads to a status.
LEMMA TargetIsStatus == \A event \in Events : Target(event) \in Status
  BY DEF Events, Target, Status, Live, Terminal

\* The object, the index and the dashboard calls keep their types.
LEMMA IndexTypeKept == BootIndexTypeOK /\ BootIndexNext => BootIndexTypeOK'
<1> SUFFICES ASSUME BootIndexTypeOK, BootIndexNext PROVE BootIndexTypeOK'
  OBVIOUS
<1> DEFINE Views == {Gone} \cup Listing \cup Opening
<1>b. \A b \in Boot : held[b] \in Status /\ row[b] \in Status \cup {NoStatus}
  BY DEF BootIndexTypeOK
<1>1. CASE \E b \in Boot : Move(b)
  BY <1>1, TargetIsStatus DEF Move, BootIndexTypeOK
<1>2. CASE \E b \in Boot, status \in Status : Land(b, status)
  BY <1>2 DEF Land, BootIndexTypeOK
<1>3. CASE \E b \in Boot, status \in Status : Miss(b, status)
  BY <1>3, BootIndexAssumption DEF Miss, BootIndexTypeOK
<1>4. ASSUME NEW v \in Viewer, NEW x \in Views, Goto(v, x),
             row' \in [Boot -> Status \cup {NoStatus}]
      PROVE  BootIndexTypeOK'
  BY <1>4 DEF Goto, BootIndexTypeOK
<1>5. CASE \E v \in Viewer : ListIndexed(v)
  <2> PICK v \in Viewer : ListIndexed(v)
    BY <1>5
  <2> DEFINE pending == {b \in Boot : row[b] = "PENDING"}
  <2>1. NoViews \in [Boot -> Status \cup {NoStatus}]
    BY DEF NoViews
  <2>2. pending \in (SUBSET Boot) \ {{}}
    BY DEF ListIndexed
  <2>3. [pc |-> "indexed", todo |-> pending, view |-> NoViews] \in Listing
    BY <2>1, <2>2 DEF Listing
  <2> QED
    BY <2>3, <1>4 DEF ListIndexed, BootIndexTypeOK
<1>l. ASSUME NEW v \in Viewer, viewer[v].pc \in {"indexed", "rows"}
      PROVE  viewer[v] \in Listing
  BY <1>l DEF BootIndexTypeOK, Opening, Gone
<1>o. ASSUME NEW v \in Viewer, viewer[v].pc \in {"view", "compare", "write"}
      PROVE  viewer[v] \in Opening
  BY <1>o DEF BootIndexTypeOK, Listing, Gone
<1>6. CASE \E v \in Viewer : ListLive(v)
  <2> PICK v \in Viewer : ListLive(v)
    BY <1>6
  <2> DEFINE said == [b \in Boot |-> IF held[b] \in Live THEN held[b] ELSE NoStatus]
  <2>1. viewer[v] \in Listing /\ said \in [Boot -> Status \cup {NoStatus}]
    BY <1>l, <1>b DEF ListLive
  <2>2. [viewer[v] EXCEPT !.pc = "rows", !.view = said] \in Listing
    BY <2>1 DEF Listing
  <2> QED
    BY <2>2, <1>4 DEF ListLive, BootIndexTypeOK
<1>7. CASE \E v \in Viewer, b \in Boot : ListAsk(v, b)
  <2> PICK v \in Viewer, b \in Boot : ListAsk(v, b)
    BY <1>7
  <2>1. viewer[v] \in Listing /\ held[b] \in Status
    BY <1>l, <1>b DEF ListAsk
  <2>2. [viewer[v] EXCEPT !.view[b] = held[b]] \in Listing
    BY <2>1 DEF Listing
  <2> QED
    BY <2>2, <1>4 DEF ListAsk, AskAgain, BootIndexTypeOK
<1>8. CASE \E v \in Viewer, b \in Boot : ListRefresh(v, b)
  <2> PICK v \in Viewer, b \in Boot : ListRefresh(v, b)
    BY <1>8
  <2>1. viewer[v] \in Listing /\ viewer[v].view[b] \in Status \cup {NoStatus}
    BY <1>l DEF ListRefresh, Listing
  <2> DEFINE left == viewer[v].todo \ {b}
  <2>2. ASSUME left = {} PROVE Past(v, b) \in Views
    BY <2>2 DEF Past
  <2>4. ASSUME left # {} PROVE Past(v, b) \in Views
    <3>1. left \in (SUBSET Boot) \ {{}}
      BY <2>1, <2>4 DEF Listing
    <3>2. [viewer[v] EXCEPT !.todo = left] \in Listing
      BY <2>1, <3>1 DEF Listing
    <3> QED
      BY <2>4, <3>2 DEF Past
  <2>5. Past(v, b) \in Views
    BY <2>2, <2>4
  <2>3. row' \in [Boot -> Status \cup {NoStatus}]
    BY <2>1 DEF ListRefresh, BootIndexTypeOK
  <2> QED
    BY <2>3, <2>5, <1>4 DEF ListRefresh
<1>9. CASE \E v \in Viewer, b \in Boot : Open(v, b)
  BY <1>9, <1>4 DEF Open, Opening, BootIndexTypeOK
<1>10. CASE \E v \in Viewer : OpenView(v)
  <2> PICK v \in Viewer : OpenView(v)
    BY <1>10
  <2>1. viewer[v] \in Opening
    BY <1>o DEF OpenView
  <2>2. [viewer[v] EXCEPT !.pc = "compare", !.view = held[viewer[v].boot]] \in Opening
    BY <2>1, <1>b DEF Opening
  <2> QED
    BY <2>2, <1>4 DEF OpenView, BootIndexTypeOK
<1>11. CASE \E v \in Viewer : OpenCompare(v)
  <2> PICK v \in Viewer : OpenCompare(v)
    BY <1>11
  <2>1. viewer[v] \in Opening
    BY <1>o DEF OpenCompare
  <2>2. [viewer[v] EXCEPT !.pc = "write"] \in Opening
    BY <2>1 DEF Opening
  <2> QED
    BY <2>2, <1>4 DEF OpenCompare, BootIndexTypeOK
<1>12. CASE \E v \in Viewer : OpenRefresh(v)
  <2> PICK v \in Viewer : OpenRefresh(v)
    BY <1>12
  <2>1. viewer[v] \in Opening
    BY <1>o DEF OpenRefresh
  <2>2. row' \in [Boot -> Status \cup {NoStatus}]
    BY <2>1 DEF OpenRefresh, Opening, BootIndexTypeOK
  <2> QED
    BY <2>2, <1>4 DEF OpenRefresh
<1>13. CASE \E v \in Viewer : ViewerDies(v)
  BY <1>13, BootIndexAssumption DEF ViewerDies, BootIndexTypeOK
<1> QED
  BY <1>1, <1>2, <1>3, <1>5, <1>6, <1>7, <1>8, <1>9, <1>10, <1>11, <1>12, <1>13
  DEF BootIndexNext, Continue

-----------------------------------------------------------------------------
(* The release catalog *)

\* A published version is there for both architectures.
Whole == \A v \in Published, a \in Arch : rows[v][a] # Unpublished

\* The empty catalog is of its type.
LEMMA ReleasesStart == ReleasesInit => rows \in [Version -> [Arch -> Hash \cup {Unpublished}]]
  BY DEF ReleasesInit

\* publishRelease changes no row that is there: a version that is published has a
\* hash for each architecture, and a batch with another one fails whole.
LEMMA PublishKeeps ==
  ASSUME rows \in [Version -> [Arch -> Hash \cup {Unpublished}]], Whole, Publish
  PROVE  /\ rows' \in [Version -> [Arch -> Hash \cup {Unpublished}]]
         /\ Whole'
         /\ \A v \in Published : rows'[v] = rows[v]
         /\ \E v \in Version : Published' \subseteq Published \cup {v}
<1> PICK v \in Version, hash \in [Arch -> Hash] :
      ~Conflicts(v, hash) /\ rows' = [rows EXCEPT ![v] = hash]
  BY DEF Publish
<1>1. rows' \in [Version -> [Arch -> Hash \cup {Unpublished}]]
  OBVIOUS
<1>2. \A w \in Version \ {v} : rows'[w] = rows[w]
  OBVIOUS
<1>3. rows'[v] = hash
  OBVIOUS
<1>4. ASSUME v \in Published PROVE rows[v] = hash
  <2>1. \A a \in Arch : rows[v][a] # Unpublished
    BY <1>4 DEF Whole
  <2>2. \A a \in Arch : rows[v][a] = hash[a]
    BY <2>1 DEF Conflicts
  <2> QED
    BY <2>2
<1>5. Whole'
  BY <1>2, <1>3, ReleasesAssumption DEF Whole, Published
<1>6. Published' \subseteq Published \cup {v}
  BY <1>2 DEF Published
<1> QED
  BY <1>1, <1>2, <1>3, <1>4, <1>5, <1>6 DEF Published

\* Under mode m the boot's manifest is valid, contradicts no claim, and is signed by
\* one of these signers.
VerifiedBy(m, signers) ==
  m = "REQUIRED" =>
    /\ evidence # NoManifest
    /\ evidence.valid /\ ~evidence.differs
    /\ evidence.signer \in signers

\* An approval that is about to write has verified, in its last round, what it shows.
ApprovalInv ==
  \A a \in Approval : approval[a].pc = "write" =>
    /\ approval[a].results = stored
    /\ VerifiedBy(approval[a].mode, approval[a].seen)

\* An approval between its two reads knows every signer trusted now.
SeesTrusted ==
  \A a \in Approval : approval[a].pc = "signers" =>
    trusted \subseteq approval[a].seen

\* The screen shows what the hello stored.
ShownIsStored ==
  \A a \in Approval : approval[a] # Waiting => approval[a].shown = stored

\* The boot has one manifest or none.
EvidenceOK == evidence \in {NoManifest} \cup [signer : Signer, valid : BOOLEAN, differs : BOOLEAN]

\* Inductive for the approvals.
ProvenanceInv ==
  /\ EvidenceOK /\ policies \in PolicyRows
  /\ ShownIsStored /\ SeesTrusted /\ ApprovalInv /\ ApprovedAsReviewed /\ RequiredIsVerified

\* Verification gives every verifier an outcome.
LEMMA VerifyIsResults ==
  ASSUME EvidenceOK, NEW s
  PROVE  Verify(s) \in Results
<1> DEFINE unverified == [status |-> "UNVERIFIED", mismatch |-> FALSE]
           manifest == Verify(s)["signed-build-manifest"]
<1>1. unverified \in Outcome
  BY DEF Outcome, Statuses
<1>2. manifest \in Outcome
  BY DEF Outcome, Statuses, Verify, EvidenceOK, Verifiers
<1>3. Verify(s) = [v \in Verifiers |-> IF v = "claims-only" THEN unverified ELSE manifest]
  BY DEF Verify, Verifiers
<1> QED
  BY <1>1, <1>2, <1>3 DEF Results

\* The policy under REQUIRED lets only a verified manifest pass: claims-only never
\* verifies, so the fallback rule and every required row come down to the manifest.
LEMMA ApprovableIsVerified ==
  ASSUME EvidenceOK, policies \in PolicyRows, NEW s,
         Approvable("REQUIRED", Verify(s))
  PROVE  /\ evidence # NoManifest
         /\ evidence.valid /\ ~evidence.differs
         /\ evidence.signer \in s
<1> DEFINE required == {p \in policies : p.enabled /\ p.required}
           results == Verify(s)
<1>1. ~Blocks(required, results)
  BY DEF Approvable
<1>2. results["claims-only"].status # "VERIFIED"
  BY DEF Verify, Verifiers
<1>3. results["signed-build-manifest"].status = "VERIFIED" /\ ~results["signed-build-manifest"].mismatch
  <2>1. CASE required = {}
    <3> HIDE DEF required, results
    <3> QED
      BY <2>1, <1>1, <1>2 DEF Blocks, Verifiers
  <2>2. CASE required # {}
    <3> PICK p \in required : TRUE
      BY <2>2
    <3> HIDE DEF required, results
    <3> QED
      BY <1>1, <1>2 DEF Blocks, Verifiers
  <2> QED
    BY <2>1, <2>2
<1> QED
  BY <1>3 DEF Verify, Verifiers, EvidenceOK

\* An approval in flight.
ApprovalRecord ==
  [pc : {"mode", "signers", "write"}, round : {1, 2}, shown : Results,
   mode : Modes, results : Results, seen : SUBSET Signer]

\* A boot whose hello stored its results, with no approval yet, satisfies it.
LEMMA ProvenanceStarts == ProvenanceInit => ProvenanceTypeOK /\ ProvenanceInv
<1> SUFFICES ASSUME ProvenanceInit PROVE ProvenanceTypeOK /\ ProvenanceInv
  OBVIOUS
<1>1. EvidenceOK
  BY DEF ProvenanceInit, EvidenceOK
<1>2. stored \in Results
  BY <1>1, VerifyIsResults DEF ProvenanceInit
<1>3. ProvenanceTypeOK
  BY <1>2 DEF ProvenanceInit, ProvenanceTypeOK
<1>4. \A a \in Approval : approval[a] = Waiting
  BY DEF ProvenanceInit
<1>5. ShownIsStored /\ SeesTrusted /\ ApprovalInv
  BY <1>4 DEF ShownIsStored, SeesTrusted, ApprovalInv, Waiting
<1> QED
  BY <1>1, <1>3, <1>5
  DEF ProvenanceInit, ProvenanceInv, ApprovedAsReviewed, RequiredIsVerified

\* An approval that was begun is such a record.
LEMMA ApprovalIsRecord ==
  ASSUME ProvenanceTypeOK, NEW a \in Approval, approval[a] # Waiting
  PROVE  approval[a] \in ApprovalRecord
  BY DEF ProvenanceTypeOK, ApprovalRecord

\* A step of one approval that approves nothing keeps the invariant if what it goes
\* on with does.
LEMMA ApprovalMoves ==
  ASSUME ProvenanceTypeOK, ProvenanceInv, NEW a \in Approval,
         NEW x \in {Waiting} \cup ApprovalRecord, Step(a, x), UNCHANGED released,
         x # Waiting => x.shown = stored,
         x # Waiting /\ x.pc = "signers" => trusted \subseteq x.seen,
         x # Waiting /\ x.pc = "write" =>
           x.results = stored /\ VerifiedBy(x.mode, x.seen)
  PROVE  ProvenanceTypeOK' /\ ProvenanceInv'
<1>1. approval' = [approval EXCEPT ![a] = x]
  BY DEF Step
<1>2. UNCHANGED <<evidence, policies, mode, trusted, stored, released>>
  BY DEF Step
<1>3. ProvenanceTypeOK'
  BY <1>1, <1>2 DEF ProvenanceTypeOK, ApprovalRecord
<1>4. approval'[a] = x /\ \A d \in Approval \ {a} : approval'[d] = approval[d]
  BY <1>1 DEF ProvenanceTypeOK
<1>5. ShownIsStored'
  BY <1>2, <1>4 DEF ShownIsStored, ProvenanceInv
<1>6. Waiting.pc \notin {"signers", "write"}
  BY DEF Waiting
<1>7. SeesTrusted'
  BY <1>2, <1>4, <1>6 DEF SeesTrusted, ProvenanceInv
<1>8. ApprovalInv'
  BY <1>2, <1>4, <1>6 DEF ApprovalInv, VerifiedBy, ProvenanceInv
<1> QED
  BY <1>2, <1>3, <1>5, <1>7, <1>8
  DEF ProvenanceInv, EvidenceOK, ApprovedAsReviewed, RequiredIsVerified

\* Neither a change of the mode or of the signers nor a step of an approval breaks
\* it.
LEMMA ProvenanceStep ==
  ProvenanceTypeOK /\ ProvenanceInv /\ ProvenanceNext => ProvenanceTypeOK' /\ ProvenanceInv'
<1> SUFFICES ASSUME ProvenanceTypeOK, ProvenanceInv, ProvenanceNext
             PROVE  ProvenanceTypeOK' /\ ProvenanceInv'
  OBVIOUS
<1>w. Waiting.pc \notin {"mode", "signers", "write"}
  BY DEF Waiting
<1>1. CASE SetEnvironmentPolicy
  BY <1>1 DEF SetEnvironmentPolicy, ProvenanceTypeOK, ProvenanceInv, EvidenceOK, ShownIsStored,
     SeesTrusted, ApprovalInv, VerifiedBy, ApprovedAsReviewed, RequiredIsVerified
<1>2. CASE \E s \in Signer : RevokeTrustedSigner(s)
  BY <1>2 DEF RevokeTrustedSigner, ProvenanceTypeOK, ProvenanceInv, EvidenceOK, ShownIsStored,
     SeesTrusted, ApprovalInv, VerifiedBy, ApprovedAsReviewed, RequiredIsVerified
<1>3. CASE \E s \in Signer : AddTrustedSigner(s)
  <2> PICK s \in Signer : AddTrustedSigner(s)
    BY <1>3
  <2>1. UNCHANGED <<evidence, policies, mode, stored, released>> /\ trusted' = trusted \cup {s}
    BY DEF AddTrustedSigner
  <2>2. ASSUME NEW a \in Approval, approval[a] = Waiting PROVE approval'[a] = Waiting
    BY <2>2 DEF AddTrustedSigner, Sees
  <2>3. ASSUME NEW a \in Approval, approval[a] # Waiting
        PROVE  /\ approval'[a] = [approval[a] EXCEPT !.seen = @ \cup {s}]
               /\ approval[a] \in ApprovalRecord
               /\ approval'[a] \in ApprovalRecord
    <3>1. approval'[a] = [approval[a] EXCEPT !.seen = @ \cup {s}]
      BY <2>3 DEF AddTrustedSigner, Sees
    <3>2. approval[a] \in ApprovalRecord
      BY <2>3, ApprovalIsRecord
    <3> QED
      BY <3>1, <3>2 DEF ApprovalRecord
  <2>4. approval' = [a \in Approval |-> approval'[a]]
    BY DEF AddTrustedSigner
  <2>5. ProvenanceTypeOK'
    BY <2>1, <2>2, <2>3, <2>4 DEF ProvenanceTypeOK, ApprovalRecord
  <2>6. ASSUME NEW a \in Approval, approval[a] # Waiting
        PROVE  /\ approval'[a].pc = approval[a].pc /\ approval'[a].shown = approval[a].shown
               /\ approval'[a].results = approval[a].results /\ approval'[a].mode = approval[a].mode
               /\ approval'[a].seen = approval[a].seen \cup {s}
    BY <2>3, <2>6 DEF ApprovalRecord
  <2>7. ShownIsStored'
    BY <2>1, <2>2, <2>6 DEF ShownIsStored, ProvenanceInv
  <2>8. SeesTrusted'
    BY <2>1, <2>2, <2>6, <1>w DEF SeesTrusted, ProvenanceInv
  <2>9. ApprovalInv'
    BY <2>1, <2>2, <2>6, <1>w DEF ApprovalInv, VerifiedBy, ProvenanceInv
  <2> QED
    BY <2>1, <2>5, <2>7, <2>8, <2>9
    DEF ProvenanceInv, EvidenceOK, ApprovedAsReviewed, RequiredIsVerified
<1>4. CASE \E a \in Approval : ApproveStart(a)
  <2> PICK a \in Approval : ApproveStart(a)
    BY <1>4
  <2> DEFINE x == [pc |-> "mode", round |-> 1, shown |-> stored, mode |-> "OFF",
                   results |-> NoResults, seen |-> {}]
  <2>1. NoResults \in Results
    BY DEF NoResults, Results, Outcome, Statuses
  <2>2. x \in ApprovalRecord
    BY <2>1 DEF ApprovalRecord, ProvenanceTypeOK, Modes
  <2>3. x.pc = "mode" /\ x.shown = stored
    OBVIOUS
  <2>4. Step(a, x) /\ UNCHANGED released
    BY DEF ApproveStart
  <2> HIDE DEF x
  <2> QED
    BY <2>2, <2>3, <2>4, ApprovalMoves
<1>5. CASE \E a \in Approval : ReadMode(a)
  <2> PICK a \in Approval : ReadMode(a)
    BY <1>5
  <2> DEFINE y == [approval[a] EXCEPT !.pc = "signers", !.mode = mode, !.seen = trusted]
             x == IF released # Nobody THEN Waiting ELSE y
  <2>1. approval[a] # Waiting /\ approval[a] \in ApprovalRecord
    BY <1>w, ApprovalIsRecord DEF ReadMode
  <2>2. y \in ApprovalRecord /\ y.pc = "signers" /\ y.shown = approval[a].shown /\ y.seen = trusted
    BY <2>1 DEF ApprovalRecord, ProvenanceTypeOK
  <2>3. Step(a, x) /\ UNCHANGED released
    BY DEF ReadMode
  <2>4. approval[a].shown = stored
    BY <2>1 DEF ShownIsStored, ProvenanceInv
  <2> HIDE DEF y
  <2> QED
    BY <2>2, <2>3, <2>4, ApprovalMoves
<1>6. CASE \E a \in Approval : ReadSigners(a)
  <2> PICK a \in Approval : ReadSigners(a)
    BY <1>6
  <2> DEFINE results == Verify(trusted)
             passes == Approvable(approval[a].mode, results) /\ results = approval[a].shown
             y == [approval[a] EXCEPT
                    !.pc = IF approval[a].round = 1 THEN "mode" ELSE "write",
                    !.round = 2, !.results = results]
             x == IF ~passes THEN Waiting ELSE y
  <2>1. approval[a] # Waiting /\ approval[a] \in ApprovalRecord /\ approval[a].pc = "signers"
    BY <1>w, ApprovalIsRecord DEF ReadSigners
  <2>2. results \in Results
    BY VerifyIsResults DEF ProvenanceInv
  <2>3. /\ y \in ApprovalRecord /\ y.pc \in {"mode", "write"} /\ y.shown = approval[a].shown
        /\ y.seen = approval[a].seen /\ y.results = results /\ y.mode = approval[a].mode
    <3> HIDE DEF results
    <3> QED
      BY <2>1, <2>2 DEF ApprovalRecord
  <2>4. Step(a, x) /\ UNCHANGED released
    BY DEF ReadSigners, Evaluated, Reviewed
  <2>5. approval[a].shown = stored
    BY <2>1 DEF ShownIsStored, ProvenanceInv
  <2>6. trusted \subseteq approval[a].seen
    BY <2>1 DEF SeesTrusted, ProvenanceInv
  <2>7. passes => VerifiedBy(approval[a].mode, approval[a].seen)
    <3> SUFFICES ASSUME passes, approval[a].mode = "REQUIRED"
                 PROVE  VerifiedBy(approval[a].mode, approval[a].seen)
      BY DEF VerifiedBy
    <3>1. Approvable("REQUIRED", Verify(trusted))
      OBVIOUS
    <3>2. /\ evidence # NoManifest
          /\ evidence.valid /\ ~evidence.differs
          /\ evidence.signer \in trusted
      BY <3>1, ApprovableIsVerified DEF ProvenanceInv
    <3> QED
      BY <3>2, <2>6 DEF VerifiedBy
  <2> HIDE DEF y, results
  <2> QED
    BY <2>3, <2>4, <2>5, <2>7, ApprovalMoves
<1>7. CASE \E a \in Approval : Approve(a)
  <2> PICK a \in Approval : Approve(a)
    BY <1>7
  <2>1. approval[a] # Waiting /\ approval[a] \in ApprovalRecord /\ approval[a].pc = "write"
    BY <1>w, ApprovalIsRecord DEF Approve
  <2>2. /\ UNCHANGED <<evidence, policies, mode, trusted, stored>>
        /\ approval' = [approval EXCEPT ![a] = Waiting]
    BY DEF Approve, Step
  <2>3. approval'[a] = Waiting /\ \A d \in Approval \ {a} : approval'[d] = approval[d]
    BY <2>2 DEF ProvenanceTypeOK
  <2>4. ShownIsStored' /\ SeesTrusted' /\ ApprovalInv'
    BY <2>2, <2>3, <1>w DEF ShownIsStored, SeesTrusted, ApprovalInv, VerifiedBy, ProvenanceInv
  <2>5. approval[a].results = stored /\ VerifiedBy(approval[a].mode, approval[a].seen)
    BY <2>1 DEF ApprovalInv, ProvenanceInv
  <2> DEFINE r == [by |-> a, mode |-> approval[a].mode,
                   results |-> approval[a].results, seen |-> approval[a].seen]
  <2>6. r \in [by : Approval, mode : Modes, results : Results, seen : SUBSET Signer]
    BY <2>1 DEF ApprovalRecord
  <2>7. released' = IF released # Nobody THEN released ELSE r
    BY DEF Approve
  <2>8. r.mode = approval[a].mode /\ r.results = approval[a].results /\ r.seen = approval[a].seen
    OBVIOUS
  <2> HIDE DEF r
  <2>9. ProvenanceTypeOK'
    BY <2>2, <2>6, <2>7 DEF ProvenanceTypeOK
  <2>10. ApprovedAsReviewed'
    BY <2>2, <2>5, <2>7, <2>8 DEF ApprovedAsReviewed, ProvenanceInv
  <2>11. RequiredIsVerified'
    BY <2>2, <2>5, <2>7, <2>8 DEF RequiredIsVerified, VerifiedBy, ProvenanceInv
  <2> QED
    BY <2>2, <2>4, <2>9, <2>10, <2>11 DEF ProvenanceInv, EvidenceOK
<1> QED
  BY <1>1, <1>2, <1>3, <1>4, <1>5, <1>6, <1>7 DEF ProvenanceNext

-----------------------------------------------------------------------------
(* The newest release *)

\* The catalog is of its type, finite, and no version is there by half.
CatalogInv ==
  /\ rows \in [Version -> [Arch -> Hash \cup {Unpublished}]]
  /\ Whole /\ IsFiniteSet(Published)

\* An empty catalog is.
LEMMA CatalogStarts == ReleasesInit => CatalogInv
<1> SUFFICES ASSUME ReleasesInit PROVE CatalogInv
  OBVIOUS
<1>1. Published = {}
  BY DEF ReleasesInit, Published
<1> QED
  BY <1>1, ReleasesStart, FS_EmptySet DEF CatalogInv, Whole

\* A publication adds one version at most.
LEMMA CatalogStep == CatalogInv /\ Publish => CatalogInv'
<1> SUFFICES ASSUME CatalogInv, Publish PROVE CatalogInv'
  OBVIOUS
<1>1. PICK v \in Version : Published' \subseteq Published \cup {v}
  BY PublishKeeps DEF CatalogInv
<1>2. IsFiniteSet(Published \cup {v})
  BY FS_AddElement DEF CatalogInv
<1>3. IsFiniteSet(Published')
  BY <1>1, <1>2, FS_Subset
<1> QED
  BY <1>3, PublishKeeps DEF CatalogInv

\* The sorted catalog has a first entry that no other comes before, and that is the
\* greatest of a finite set in the order compareVersions computes.
LEMMA CatalogShowsLatest == CatalogInv => LatestIsGreatest
<1> SUFFICES ASSUME CatalogInv, Published # {}
             PROVE  /\ Latest \in Published
                    /\ \A v \in Published \ {Latest} : LowerPrecedence(v, Latest)
                    /\ \A a \in Arch : rows[Latest][a] # Unpublished
  BY DEF LatestIsGreatest
<1> DEFINE P == Published
           R == {p \in P \X P : LowerPrecedence(p[1], p[2])}
<1>1. P \subseteq SemanticVersion
  BY ReleasesAssumption DEF Published
<1>2. \A v, w \in P : <<v, w>> \in R <=> LowerPrecedence(v, w)
  OBVIOUS
<1>3. IsFiniteSet(P) /\ P # {}
  BY DEF CatalogInv
<1> HIDE DEF P, R
<1>4. Ordered(P, R)
  <2>1. \A v \in P : <<v, v>> \notin R
    BY <1>1, <1>2, PrecedenceOrders
  <2>2. \A v, w \in P : v = w \/ <<v, w>> \in R \/ <<w, v>> \in R
    BY <1>1, <1>2, PrecedenceOrders
  <2>3. ASSUME NEW u \in P, NEW v \in P, NEW w \in P, <<u, v>> \in R, <<v, w>> \in R
        PROVE  <<u, w>> \in R
    BY <1>1, <1>2, <2>3, PrecedenceOrders
  <2> QED
    BY <1>3, <2>1, <2>2, <2>3 DEF Ordered
<1>5. Cardinality(P) \in Nat /\ Cardinality(P) # 0
  BY <1>3, FS_CardinalityType, FS_EmptySet
<1>6. PICK top \in P : Rank(P, R, top) = Cardinality(P) - 1
  <2>1. Cardinality(P) - 1 \in 0 .. Cardinality(P) - 1
    BY <1>5
  <2> QED
    BY <1>4, <2>1, RankIsOnto
<1>7. ASSUME NEW v \in P PROVE ~LowerPrecedence(top, v)
  <2>1. Rank(P, R, v) \in 0 .. Cardinality(P) - 1
    BY <1>4, RankBelowCardinality
  <2>2. ~(<<top, v>> \in R)
    BY <1>4, <1>5, <1>6, <2>1, RankGrows
  <2> QED
    BY <1>2, <2>2
<1> DEFINE Leads(v) == \A w \in P : compareVersions(w, v) <= 0
<1>8. ASSUME NEW v \in P PROVE Leads(v) <=> \A w \in P : ~LowerPrecedence(v, w)
  <2>1. ASSUME NEW w \in P PROVE compareVersions(w, v) <= 0 <=> ~LowerPrecedence(v, w)
    <3>1. /\ v \in SemanticVersion /\ w \in SemanticVersion
          /\ compareVersions(w, v) < 0 <=> LowerPrecedence(w, v)
          /\ compareVersions(w, v) = 0 <=> w = v
          /\ compareVersions(w, v) \in {-1, 0, 1}
      BY <1>1, ComparesBySemVer
    <3>2. LowerPrecedence(v, w) <=> v # w /\ ~LowerPrecedence(w, v)
      BY <3>1, PrecedenceOrders
    <3> HIDE DEF Leads
    <3> QED
      BY <3>1, <3>2
  <2> QED
    BY <2>1
<1>9. Latest = CHOOSE v \in P : Leads(v)
  BY DEF Latest, P
<1>10. Leads(top)
  BY <1>7, <1>8
<1> HIDE DEF Leads
<1>11. Latest \in P /\ Leads(Latest)
  BY <1>9, <1>10
<1>12. \A v \in P \ {Latest} : LowerPrecedence(v, Latest)
  BY <1>1, <1>8, <1>11, PrecedenceOrders
<1> QED
  BY <1>11, <1>12 DEF CatalogInv, Whole, P

-----------------------------------------------------------------------------
(* The token gate *)

\* A request, from its arrival on.
GateRequest ==
  {Fresh, [pc |-> "refused"]}
    \cup [pc : {"checked", "outside", "open"}, ip : Address, ranges : Lists]

\* Inductive: what a request at or past the check read, and what came of it.
GateInv ==
  /\ allowed \in Lists
  /\ request \in [Request -> GateRequest]
  /\ \A r \in Request : request[r].pc \in {"checked", "outside", "open"} =>
       (request[r].pc # "outside" <=> IpAllowed(request[r].ip, request[r].ranges))

\* Nobody has passed at the start.
LEMMA GateStarts == GateInit => GateInv
BY DEF GateInit, GateInv, GateRequest, Fresh

\* A step of the gate keeps it: the list is read with the address it is applied to.
LEMMA GateStep == GateInv /\ GateNext => GateInv'
<1> SUFFICES ASSUME GateInv, GateNext PROVE GateInv'
  OBVIOUS
<1>1. ASSUME NEW r \in Request, NEW x \in GateRequest, allowed' = allowed,
             request' = [request EXCEPT ![r] = x],
             x.pc \in {"checked", "outside", "open"} =>
               (x.pc # "outside" <=> IpAllowed(x.ip, x.ranges))
      PROVE  GateInv'
  BY <1>1 DEF GateInv
<1>2. CASE \E r \in Request : Authenticate(r)
  <2> PICK r \in Request : Authenticate(r)
    BY <1>2
  <2> PICK ip \in Address, good \in BOOLEAN :
        request' = [request EXCEPT ![r] =
          IF token = "live" /\ good
          THEN [pc |-> IF IpAllowed(ip, allowed) THEN "checked" ELSE "outside",
                ip |-> ip, ranges |-> allowed]
          ELSE [pc |-> "refused"]]
    BY DEF Authenticate
  <2>1. allowed' = allowed /\ allowed \in Lists
    BY DEF Authenticate, GateInv
  <2>2. CASE token = "live" /\ good
    <3> DEFINE x == [pc |-> IF IpAllowed(ip, allowed) THEN "checked" ELSE "outside",
                     ip |-> ip, ranges |-> allowed]
    <3>1. /\ x \in GateRequest /\ x.ip = ip /\ x.ranges = allowed
          /\ x.pc # "outside" <=> IpAllowed(ip, allowed)
      BY <2>1 DEF GateRequest
    <3>2. request' = [request EXCEPT ![r] = x]
      BY <2>2
    <3> HIDE DEF x
    <3> QED
      BY <1>1, <2>1, <2>2, <3>1, <3>2
  <2>3. CASE ~(token = "live" /\ good)
    <3> DEFINE x == [pc |-> "refused"]
    <3>1. x \in GateRequest /\ x.pc \notin {"checked", "outside", "open"}
      BY DEF GateRequest
    <3>2. request' = [request EXCEPT ![r] = x]
      BY <2>3
    <3> HIDE DEF x
    <3> QED
      BY <1>1, <2>1, <3>1, <3>2
  <2> QED
    BY <2>2, <2>3
<1>3. CASE \E r \in Request : Enter(r)
  <2> PICK r \in Request : Enter(r)
    BY <1>3
  <2>1. /\ request[r] \in [pc : {"checked", "outside", "open"}, ip : Address, ranges : Lists]
        /\ IpAllowed(request[r].ip, request[r].ranges) /\ allowed' = allowed
    BY DEF Enter, GateInv, GateRequest, Fresh
  <2> DEFINE x == IF token = "gone" THEN [pc |-> "refused"] ELSE [request[r] EXCEPT !.pc = "open"]
  <2>2. request' = [request EXCEPT ![r] = x]
    BY DEF Enter, GateInv
  <2>3. /\ x \in GateRequest
        /\ x.pc \in {"checked", "outside", "open"} =>
             (x.pc # "outside" <=> IpAllowed(x.ip, x.ranges))
    BY <2>1 DEF GateRequest
  <2> HIDE DEF x
  <2> QED
    BY <1>1, <2>1, <2>2, <2>3
<1>4. CASE Kill
  BY <1>4 DEF Kill, GateInv
<1>5. CASE UpdateTokenCidrs
  BY <1>5 DEF UpdateTokenCidrs, GateInv
<1> QED
  BY <1>2, <1>3, <1>4, <1>5 DEF GateNext

\* To match a range is to be in its block.
LEMMA CidrIsBlock ==
  ASSUME NEW ip \in Address, NEW range \in CidrRange
  PROVE  InCidr(ip, range) <=> ip \in Block(range)
<1>1. PICK w \in Width : range \in [address : [1 .. w -> Byte], prefix : 0 .. w * Bits]
  BY DEF CidrRange
<1>2. PICK v \in Width : ip \in [1 .. v -> Byte]
  BY DEF Address
<1>3. w \in Nat /\ v \in Nat
  BY GateAssumption
<1>4. Len(ip) = v /\ Len(range.address) = w
  <2>1. range.address \in [1 .. w -> Byte]
    BY <1>1
  <2> QED
    BY <1>2, <1>3, <2>1
<1>5. CASE v = w
  <2> DEFINE size == Pow2(w * Bits - range.prefix)
             low  == (Value(range.address) \div size) * size
  <2>1. BytesInPrefix(ip, range) <=> Value(ip) \in low .. low + size - 1
    BY <1>1, <1>2, <1>5, PrefixIsBlock
  <2>2. ip \in Block(range) <=> Value(ip) \in low .. low + size - 1
    BY <1>4, <1>5 DEF Block
  <2> HIDE DEF size, low
  <2> QED
    BY <1>4, <1>5, <2>1, <2>2 DEF InCidr
<1>6. CASE v # w
  BY <1>4, <1>6 DEF InCidr, Block
<1> QED
  BY <1>5, <1>6

\* So the check passes exactly who is in a block of the list it was made against.
LEMMA GateAdmits == GateInv => AdmittedFromRange
<1> SUFFICES ASSUME GateInv, NEW r \in Request, request[r].pc \in {"checked", "outside", "open"}
             PROVE  request[r].pc # "outside" <=>
                      \/ request[r].ranges = {}
                      \/ \E range \in request[r].ranges : request[r].ip \in Block(range)
  BY DEF AdmittedFromRange
<1>1. request[r].ip \in Address /\ request[r].ranges \in Lists
  BY DEF GateInv, GateRequest, Fresh
<1>2. \A range \in request[r].ranges : range \in CidrRange
  BY <1>1, GateAssumption
<1>3. \A range \in request[r].ranges :
        InCidr(request[r].ip, range) <=> request[r].ip \in Block(range)
  BY <1>1, <1>2, CidrIsBlock
<1> QED
  BY <1>3 DEF GateInv, IpAllowed

-----------------------------------------------------------------------------
(* The environment of the workload *)

\* What BuildEnv returns for the two lists.
Result == [built |-> TRUE, failed |-> Refused, env |-> IF Refused THEN << >> ELSE BuildEnv]

\* Inductive: the two lists, and nothing built or what BuildEnv makes of them.
ChildInv ==
  /\ base \in Seq(VarName \cup {NoName})
  /\ decrypted \in Seq(VarName \cup {NoName})
  /\ child \in {NotBuilt, Result}

\* It holds of any two lists.
LEMMA ChildStarts ==
  ASSUME NEW s \in Seq(VarName \cup {NoName}), NEW t \in Seq(VarName \cup {NoName}), ChildStart(s, t)
  PROVE  ChildInv
BY DEF ChildStart, ChildInv

\* Such as those the model starts with.
LEMMA ChildInitHolds == ChildInit => ChildInv
<1> SUFFICES ASSUME ChildInit PROVE ChildInv
  OBVIOUS
<1>1. PICK s \in Names(MaxBase), t \in Names(MaxSecrets) : ChildStart(s, t)
  BY DEF ChildInit
<1>2. s \in Seq(VarName \cup {NoName}) /\ t \in Seq(VarName \cup {NoName})
  BY ChildEnvAssumption DEF Names
<1> QED
  BY <1>1, <1>2, ChildStarts

\* While the lists are the same, so is what is made of them.
LEMMA ChildSame == UNCHANGED <<base, decrypted>> => Result' = Result
BY DEF Result, Refused, BuildEnv, Inherited, Secrets

\* BuildEnv keeps it.
LEMMA ChildStep == ChildInv /\ Build => ChildInv'
<1>1. Build => child' = Result
  BY DEF Build, Result
<1> QED
  BY <1>1, ChildSame DEF ChildInv, Build

\* And SecretsWin is a consequence.
LEMMA ChildWins == ChildInv => SecretsWin
<1> SUFFICES ASSUME ChildInv PROVE SecretsWin
  OBVIOUS
<1>1. CASE child.built /\ ~child.failed
  <2>1. ~Refused /\ child.env = BuildEnv
    BY <1>1 DEF ChildInv, NotBuilt, Result
  <2> QED
    BY <2>1, AmountsWin DEF ChildInv
<1>2. CASE ~(child.built /\ ~child.failed)
  BY <1>2 DEF SecretsWin
<1> QED
  BY <1>1, <1>2

-----------------------------------------------------------------------------
(* The operators' side as a whole *)

\* The inductive invariant: that of every part.
OperatorsInv ==
  /\ AccessTypeOK /\ BootIndexTypeOK /\ ProvenanceTypeOK
  /\ SetupInv /\ RoleInv
  /\ PagesInv
  /\ CatalogInv
  /\ ProvenanceInv
  /\ AuditInv
  /\ GateInv
  /\ ChildInv

\* It holds at the start, in the part that moves and in those that rest.
LEMMA ConsoleStarts == Init => OperatorsInv
<1> SUFFICES ASSUME Init PROVE OperatorsInv
  OBVIOUS
<1>1. SetupInv /\ RoleInv /\ AccessTypeOK
  BY AccessStarts DEF Init, SetupInv
<1>2. BootIndexTypeOK
  BY IndexStarts DEF Init
<1>3. PagesInv
  BY PagesStart DEF Init
<1>4. CatalogInv
  BY CatalogStarts DEF Init
<1>5. ProvenanceTypeOK /\ ProvenanceInv
  BY ProvenanceStarts DEF Init
<1>6. AuditInv
  <2>1. CASE part = "audit"
    BY <2>1, AuditInitHolds DEF Init
  <2>2. CASE part # "audit"
    <3>1. IsFiniteSet({}) /\ UniqueIds({}) /\ {} \in SUBSET Event
      BY FS_EmptySet DEF UniqueIds
    <3> QED
      BY <2>2, <3>1, AuditStarts DEF Init
  <2> QED
    BY <2>1, <2>2
<1>7. GateInv
  BY GateStarts DEF Init
<1>8. ChildInv
  <2>1. CASE part = "env"
    BY <2>1, ChildInitHolds DEF Init
  <2>2. CASE part # "env"
    <3>1. << >> \in Seq(VarName \cup {NoName})
      OBVIOUS
    <3>2. ChildStart(<< >>, << >>)
      BY <2>2 DEF Init
    <3> QED
      BY <3>1, <3>2, ChildStarts
  <2> QED
    BY <2>1, <2>2
<1> QED
  BY <1>1, <1>2, <1>3, <1>4, <1>5, <1>6, <1>7, <1>8 DEF OperatorsInv

\* Accounts that nobody touches stay in order.
LEMMA AccessRests ==
  ASSUME AccessTypeOK, SetupInv, RoleInv, UNCHANGED accessVars
  PROVE  AccessTypeOK' /\ SetupInv' /\ RoleInv'
  BY DEF accessVars, AccessTypeOK, SetupInv, RoleInv, SetupCloses, ClaimsInEarly,
         VerifiedCaller, OwnerRemains, Accounts, Owners

\* So does the index.
LEMMA IndexRests ==
  ASSUME BootIndexTypeOK, UNCHANGED indexVars
  PROVE  BootIndexTypeOK'
  BY DEF indexVars, BootIndexTypeOK

\* So does a list nobody reads.
LEMMA PagesRest ==
  ASSUME PagesInv, UNCHANGED pagesVars
  PROVE  PagesInv'
  BY DEF pagesVars, PagesInv, ReaderInv, NothingSkipped, After

\* So does the catalog.
LEMMA CatalogRests ==
  ASSUME CatalogInv, UNCHANGED rows
  PROVE  CatalogInv'
  BY DEF CatalogInv, Whole, Published

\* So do the approvals.
LEMMA ProvenanceRests ==
  ASSUME ProvenanceTypeOK, ProvenanceInv, UNCHANGED provenanceVars
  PROVE  ProvenanceTypeOK' /\ ProvenanceInv'
  BY DEF provenanceVars, ProvenanceTypeOK, ProvenanceInv, EvidenceOK, ShownIsStored, SeesTrusted,
     ApprovalInv, VerifiedBy, ApprovedAsReviewed, RequiredIsVerified

\* So does the log.
LEMMA AuditRests ==
  ASSUME AuditInv, UNCHANGED auditVars
  PROVE  AuditInv'
  BY DEF auditVars, AuditInv, LogInv, EveryEventListed, Matching, UniqueIds

\* So does the gate.
LEMMA GateRests ==
  ASSUME GateInv, UNCHANGED gateVars
  PROVE  GateInv'
  BY DEF gateVars, GateInv

\* So does the environment of a workload.
LEMMA ChildRests ==
  ASSUME ChildInv, UNCHANGED childVars
  PROVE  ChildInv'
  BY ChildSame DEF childVars, ChildInv, NotBuilt

\* Every step of Console keeps it.
LEMMA ConsoleStep == OperatorsInv /\ [Next]_vars => OperatorsInv'
<1> SUFFICES ASSUME OperatorsInv, [Next]_vars PROVE OperatorsInv'
  OBVIOUS
<1>1. AccessTypeOK' /\ SetupInv' /\ RoleInv'
  <2>1. AccessNext \/ UNCHANGED accessVars
    BY DEF Next, vars, accessIdle
  <2> QED
    BY <2>1, AccessTypeKept, SetupStep, RoleStep, AccessRests DEF OperatorsInv
<1>2. BootIndexTypeOK'
  <2>1. BootIndexNext \/ UNCHANGED indexVars
    BY DEF Next, vars, indexIdle
  <2> QED
    BY <2>1, IndexTypeKept, IndexRests DEF OperatorsInv
<1>3. PagesInv'
  <2>1. PagesNext \/ UNCHANGED pagesVars
    BY DEF Next, vars, pagesIdle
  <2> QED
    BY <2>1, PagesStep, PagesRest DEF OperatorsInv
<1>4. CatalogInv'
  <2>1. Publish \/ UNCHANGED rows
    BY DEF Next, vars, releasesIdle
  <2> QED
    BY <2>1, CatalogStep, CatalogRests DEF OperatorsInv
<1>5. ProvenanceTypeOK' /\ ProvenanceInv'
  <2>1. ProvenanceNext \/ UNCHANGED provenanceVars
    BY DEF Next, vars, provenanceIdle
  <2> QED
    BY <2>1, ProvenanceStep, ProvenanceRests DEF OperatorsInv
<1>6. AuditInv'
  <2>1. AuditNext \/ UNCHANGED auditVars
    BY DEF Next, vars, auditIdle
  <2> QED
    BY <2>1, AuditStep, AuditRests DEF OperatorsInv
<1>7. GateInv'
  <2>1. GateNext \/ UNCHANGED gateVars
    BY DEF Next, vars, gateIdle
  <2> QED
    BY <2>1, GateStep, GateRests DEF OperatorsInv
<1>8. ChildInv'
  <2>1. Build \/ UNCHANGED childVars
    BY DEF Next, vars, childIdle
  <2> QED
    BY <2>1, ChildStep, ChildRests DEF OperatorsInv
<1> QED
  BY <1>1, <1>2, <1>3, <1>4, <1>5, <1>6, <1>7, <1>8 DEF OperatorsInv

\* The invariant holds in every behaviour.
THEOREM ConsoleInvariant == Spec => []OperatorsInv
  BY ConsoleStarts, ConsoleStep, PTL DEF Spec

\* Every variable of the access, index and provenance tables has its type.
THEOREM ConsoleTypeOK == Spec => []TypeOK
<1>1. OperatorsInv => TypeOK
  BY DEF OperatorsInv, TypeOK
<1> QED
  BY <1>1, ConsoleInvariant, PTL

\* The setup of a vault makes accounts only for claims let in before the first one
\* existed (setup-plugin.ts): the closing read and the insert are apart, and that is
\* all that can come of it.
THEOREM SetupClosesHolds == Spec => []SetupCloses
<1>1. OperatorsInv => SetupCloses
  BY DEF OperatorsInv, SetupInv
<1> QED
  BY <1>1, ConsoleInvariant, PTL

\* A vault that has accounts keeps an owner (settings.ts), unless a change is written
\* for somebody who has ceased to be one, with as many owners, changes, sessions and
\* passkeys as there may be.
THEOREM OwnerRemainsHolds == Spec => []OwnerRemains
<1>1. OperatorsInv => OwnerRemains
  BY DEF OperatorsInv, RoleInv
<1> QED
  BY <1>1, ConsoleInvariant, PTL

\* The pages of listBootHistory skip and repeat nothing, for every page size and
\* history.
THEOREM NothingSkippedHolds == Spec => []NothingSkipped
<1>1. OperatorsInv => NothingSkipped
  BY DEF OperatorsInv, PagesInv
<1> QED
  BY <1>1, ConsoleInvariant, PTL

\* The pages of listAuditEvents list every event that stayed, for every page size
\* and log.
THEOREM EveryEventListedHolds == Spec => []EveryEventListed
<1>1. OperatorsInv => EveryEventListed
  BY DEF OperatorsInv, AuditInv
<1> QED
  BY <1>1, ConsoleInvariant, PTL

\* A boot is approved on the results its screens show, with any number of approvals
\* and operators who change the signers.
THEOREM ApprovedAsReviewedHolds == Spec => []ApprovedAsReviewed
<1>1. OperatorsInv => ApprovedAsReviewed
  BY DEF OperatorsInv, ProvenanceInv
<1> QED
  BY <1>1, ConsoleInvariant, PTL

\* Under REQUIRED a boot is approved only on a valid manifest of a signer trusted
\* during the last round, for every set of policy rows.
THEOREM RequiredIsVerifiedHolds == Spec => []RequiredIsVerified
<1>1. OperatorsInv => RequiredIsVerified
  BY DEF OperatorsInv, ProvenanceInv
<1> QED
  BY <1>1, ConsoleInvariant, PTL

\* The download script installs the greatest published version in the order of
\* SemVer 2.0.0 (catalog.ts), whatever versions are published and in whatever order:
\* compareVersions computes that order (ComparesBySemVer), and the catalog is finite.
THEOREM LatestIsGreatestHolds == Spec => []LatestIsGreatest
<1>1. OperatorsInv => LatestIsGreatest
  BY CatalogShowsLatest DEF OperatorsInv
<1> QED
  BY <1>1, ConsoleInvariant, PTL

\* No publication changes a hash that was published (catalog.ts, migration 0002),
\* whatever versions, hashes and retries there are.
THEOREM PublishedStaysHolds == Spec => PublishedStays
<1>1. OperatorsInv /\ [Next]_vars => [\A v \in Published : rows'[v] = rows[v]]_rows
  <2> SUFFICES ASSUME OperatorsInv, [Next]_vars, rows' # rows
               PROVE  \A v \in Published : rows'[v] = rows[v]
    OBVIOUS
  <2>1. Publish
    BY DEF Next, vars, releasesIdle
  <2> QED
    BY <2>1, PublishKeeps DEF OperatorsInv, CatalogInv
<1> QED
  BY <1>1, ConsoleInvariant, PTL DEF Spec, PublishedStays

\* The address policy passes exactly the addresses in a block of the list its request
\* read (cidr.ts): comparing the bytes of the prefix under the mask, for any width of
\* bytes and addresses, is comparing numbers.
THEOREM AdmittedFromRangeHolds == Spec => []AdmittedFromRange
<1>1. OperatorsInv => AdmittedFromRange
  BY GateAdmits DEF OperatorsInv
<1> QED
  BY <1>1, ConsoleInvariant, PTL

\* The workload sees each name once, a secret under its name whatever it inherited
\* (env.go), for lists of any length.
THEOREM SecretsWinHolds == Spec => []SecretsWin
<1>1. OperatorsInv => SecretsWin
  BY ChildWins DEF OperatorsInv
<1> QED
  BY <1>1, ConsoleInvariant, PTL

=============================================================================
