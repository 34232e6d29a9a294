------------------------------- MODULE Access -------------------------------
(***************************************************************************)
(* Who may administer a vault: the setup ceremony that makes the first     *)
(* owner (auth/setup-plugin.ts), sessions and the passkey step-up          *)
(* (auth/guards.ts), and the change of another operator's role             *)
(* (functions/settings.ts).  Each call reads the accounts, awaits, and     *)
(* writes them later without looking again; calls of several operators     *)
(* overlap.                                                                *)
(***************************************************************************)
EXTENDS Integers, FiniteSets

CONSTANTS
  User,       \* accounts; account u is the one that claim u would create
  Change,     \* role changes that may be in flight
  MaxAge,     \* for how long a passkey verification counts
  MaxTime,    \* bound: the clock stops here
  NoSession   \* stands for a user who is not signed in

ASSUME AccessAssumption ==
  /\ MaxAge \in Nat
  /\ MaxTime \in Nat
  /\ NoSession \notin -1 .. MaxTime

VARIABLES
  claim,      \* a setup request: "idle", "allowed", "created" or "over"
  role,       \* D1 "user".role, "none" where there is no row
  session,    \* NoSession, or the stepUpAt of the user's session row
  passkeys,   \* users who have registered a passkey
  change,     \* the role changes in flight
  early,      \* history: the claims let in when the first account was made
  outdated,   \* history: a role was written after its writer had ceased to be an owner
  now         \* the clock

accessVars == <<claim, role, session, passkeys, change, early, outdated, now>>

Roles == {"viewer", "admin", "owner"}

Accounts == {u \in User : role[u] # "none"}

Owners == {u \in User : role[u] = "owner"}

\* stepUpAt of a session that was not made by a passkey assertion.
Never == -1

SignedIn(u) == session[u] # NoSession

Idle == [pc |-> "idle"]

ChangeState ==
  {Idle} \cup [pc : {"verify", "update"}, by : User, of : User, to : Roles]

AccessInit ==
  /\ claim = [u \in User |-> "idle"]
  /\ role = [u \in User |-> "none"]
  /\ session = [u \in User |-> NoSession]
  /\ passkeys = {}
  /\ change = [c \in Change |-> Idle]
  /\ early = {}
  /\ outdated = FALSE
  /\ now = 0

-----------------------------------------------------------------------------
(* The setup ceremony *)

\* Whether claim u goes on to create an account. No await lies between this
\* read and the check of the setup token.
\* Mutant: the token alone opens the setup.
MayClaimByToken(u, tokenGood) == tokenGood

MayClaim(u, tokenGood) == Accounts = {} /\ tokenGood

ClaimStart(u) ==
  /\ claim[u] = "idle"
  /\ \E tokenGood \in BOOLEAN :
       claim' = [claim EXCEPT ![u] = IF MayClaim(u, tokenGood) THEN "allowed"
                                                              ELSE "idle"]
  /\ UNCHANGED <<role, session, passkeys, change, early, outdated, now>>

ClaimCreate(u) ==
  /\ claim[u] = "allowed"
  /\ claim' = [claim EXCEPT ![u] = "created"]
  /\ role' = [role EXCEPT ![u] = "owner"]
  /\ early' = IF Accounts = {} THEN {w \in User : claim[w] = "allowed"} ELSE early
  /\ UNCHANGED <<session, passkeys, change, outdated, now>>

ClaimSession(u) ==
  /\ claim[u] = "created"
  /\ claim' = [claim EXCEPT ![u] = "over"]
  /\ session' = [session EXCEPT ![u] = Never]
  /\ UNCHANGED <<role, passkeys, change, early, outdated, now>>

\* The request dies at an await; what it wrote stays.
ClaimDies(u) ==
  /\ claim[u] \in {"allowed", "created"}
  /\ claim' = [claim EXCEPT ![u] = "over"]
  /\ UNCHANGED <<role, session, passkeys, change, early, outdated, now>>

-----------------------------------------------------------------------------
(* Sessions *)

\* Only a signed-in user can register a passkey.
RegisterPasskey(u) ==
  /\ SignedIn(u)
  /\ passkeys' = passkeys \cup {u}
  /\ UNCHANGED <<claim, role, session, change, early, outdated, now>>

\* A passkey assertion makes a new session, stamped at its creation.
SignIn(u) ==
  /\ u \in passkeys
  /\ session' = [session EXCEPT ![u] = now]
  /\ UNCHANGED <<claim, role, passkeys, change, early, outdated, now>>

SessionEnds(u) ==
  /\ SignedIn(u)
  /\ session' = [session EXCEPT ![u] = NoSession]
  /\ UNCHANGED <<claim, role, passkeys, change, early, outdated, now>>

IsRecentStepUp(at) == at # Never /\ now - at <= MaxAge

-----------------------------------------------------------------------------
(* The change of a role *)

\* The caller's own account is not for the caller to change.
\* Mutant: it is.
MayChangeAny(by, of) == TRUE

MayChange(by, of) == by # of

\* requireRole("owner"), on the session and role of this moment.
ChangeStart(c, by, of, to) ==
  /\ change[c] = Idle
  /\ SignedIn(by)
  /\ role[by] = "owner"
  /\ change' = [change EXCEPT
       ![c] = [pc |-> "verify", by |-> by, of |-> of, to |-> to]]
  /\ UNCHANGED <<claim, role, session, passkeys, early, outdated, now>>

\* requireRecentPasskey reads the session again, not the role.
ChangeVerify(c) ==
  /\ change[c].pc = "verify"
  /\ LET x == change[c]
         passes == /\ SignedIn(x.by)
                   /\ IsRecentStepUp(session[x.by])
                   /\ MayChange(x.by, x.of)
     IN  change' = [change EXCEPT ![c] =
                      IF passes THEN [x EXCEPT !.pc = "update"] ELSE Idle]
  /\ UNCHANGED <<claim, role, session, passkeys, early, outdated, now>>

\* An UPDATE of a row that does not exist changes nothing.
ChangeUpdate(c) ==
  /\ change[c].pc = "update"
  /\ change' = [change EXCEPT ![c] = Idle]
  /\ role' = [role EXCEPT ![change[c].of] = IF @ = "none" THEN @ ELSE change[c].to]
  /\ outdated' = (outdated \/ role[change[c].by] # "owner")
  /\ UNCHANGED <<claim, session, passkeys, early, now>>

ClockTicks ==
  /\ now < MaxTime
  /\ now' = now + 1
  /\ UNCHANGED <<claim, role, session, passkeys, change, early, outdated>>

AccessNext ==
  \/ \E u \in User : ClaimStart(u) \/ ClaimCreate(u) \/ ClaimSession(u) \/ ClaimDies(u)
  \/ \E u \in User : RegisterPasskey(u) \/ SignIn(u) \/ SessionEnds(u)
  \/ \E c \in Change :
       \/ \E by, of \in User, to \in Roles : ChangeStart(c, by, of, to)
       \/ ChangeVerify(c)
       \/ ChangeUpdate(c)
  \/ ClockTicks

-----------------------------------------------------------------------------
(* Properties *)

AccessTypeOK ==
  /\ claim \in [User -> {"idle", "allowed", "created", "over"}]
  /\ role \in [User -> Roles \cup {"none"}]
  /\ session \in [User -> {NoSession} \cup (-1 .. MaxTime)]
  /\ passkeys \subseteq User
  /\ change \in [Change -> ChangeState]
  /\ early \subseteq User
  /\ outdated \in BOOLEAN
  /\ now \in 0 .. MaxTime

\* Setup makes accounts only for claims that were let in before the first one
\* existed: from then on the door stays closed whatever becomes of that account,
\* and claims that do not overlap make a single owner.
SetupCloses == Accounts \subseteq early

\* Once the vault has an account it keeps an owner, however many there are, whatever
\* changes overlap and whoever they promote or demote in between: an owner's own
\* account is out of the owner's reach. The one way to lose the last owner is a
\* change written for somebody who was an owner when let in and is none any more,
\* which the second guard does not look at: two owners who demote each other.
OwnerRemains == Accounts # {} /\ ~outdated => Owners # {}

=============================================================================
