------------------------------ MODULE Console ------------------------------
(***************************************************************************)
(* The operators' side of the vault: who they are (Access), what they see  *)
(* of the boots (BootIndex, HistoryPages), what they approve (Provenance), *)
(* who gets as far as the object (TokenGate), and the binaries they        *)
(* publish (Releases); what the log tells them (AuditPages), and the       *)
(* environment a release ends in (ChildEnv).  These parts share no state:  *)
(* each keeps tables of its own and none calls another.  A behaviour of    *)
(* the whole is therefore told by its parts, and every behaviour here lets *)
(* one part move, chosen at the start (part), while the others stay as     *)
(* they began.                                                             *)
(***************************************************************************)
EXTENDS Access, BootIndex, HistoryPages, Releases, TokenGate, Provenance,
        AuditPages, ChildEnv

VARIABLE part  \* the part that moves

accessIdle     == UNCHANGED accessVars
indexIdle      == UNCHANGED indexVars
pagesIdle      == UNCHANGED pagesVars
releasesIdle   == UNCHANGED rows
gateIdle       == UNCHANGED gateVars
provenanceIdle == UNCHANGED provenanceVars
auditIdle      == UNCHANGED auditVars
childIdle      == UNCHANGED childVars

vars == <<part, accessVars, indexVars, pagesVars, rows, gateVars, provenanceVars,
          auditVars, childVars>>

\* The parts at rest start from one initial state.
Init ==
  /\ part \in {"access", "index", "pages", "releases", "gate", "provenance", "audit", "env"}
  /\ AccessInit /\ BootIndexInit /\ ReleasesInit
  /\ PagesInit /\ (part # "pages" => history = {})
  /\ GateInit /\ (part # "gate" => allowed = {})
  /\ ProvenanceInit
  /\ part # "provenance" =>
       /\ evidence = NoManifest /\ policies = (CHOOSE p \in PolicyRows : TRUE)
       /\ mode = "ADVISORY" /\ trusted = {}
  /\ IF part = "audit" THEN AuditInit ELSE AuditStart({}, NoScope)
  /\ IF part = "env" THEN ChildInit ELSE ChildStart(<< >>, << >>)

Next ==
  /\ UNCHANGED part
  /\ \/ /\ part = "access" /\ AccessNext
        /\ indexIdle /\ pagesIdle /\ releasesIdle /\ gateIdle
        /\ provenanceIdle /\ auditIdle /\ childIdle
     \/ /\ part = "index" /\ BootIndexNext
        /\ accessIdle /\ pagesIdle /\ releasesIdle /\ gateIdle
        /\ provenanceIdle /\ auditIdle /\ childIdle
     \/ /\ part = "pages" /\ PagesNext
        /\ accessIdle /\ indexIdle /\ releasesIdle /\ gateIdle
        /\ provenanceIdle /\ auditIdle /\ childIdle
     \/ /\ part = "releases" /\ Publish
        /\ accessIdle /\ indexIdle /\ pagesIdle /\ gateIdle
        /\ provenanceIdle /\ auditIdle /\ childIdle
     \/ /\ part = "gate" /\ GateNext
        /\ accessIdle /\ indexIdle /\ pagesIdle /\ releasesIdle
        /\ provenanceIdle /\ auditIdle /\ childIdle
     \/ /\ part = "provenance" /\ ProvenanceNext
        /\ accessIdle /\ indexIdle /\ pagesIdle /\ releasesIdle
        /\ gateIdle /\ auditIdle /\ childIdle
     \/ /\ part = "audit" /\ AuditNext
        /\ accessIdle /\ indexIdle /\ pagesIdle /\ releasesIdle
        /\ gateIdle /\ provenanceIdle /\ childIdle
     \/ /\ part = "env" /\ Build
        /\ accessIdle /\ indexIdle /\ pagesIdle /\ releasesIdle
        /\ gateIdle /\ provenanceIdle /\ auditIdle

\* A dashboard call that was begun goes on; nobody has to begin one.
Fairness == \A v \in Viewer : WF_indexVars(Continue(v))

Spec == Init /\ [][Next]_vars /\ Fairness

\* Every variable holds a value of its type.
TypeOK == AccessTypeOK /\ BootIndexTypeOK /\ ProvenanceTypeOK

=============================================================================
