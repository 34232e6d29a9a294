# keevault: specifications of the vault

keevault keeps the secrets of environments under two levels of keys and releases them to a
workload only after an operator approved that workload's *boot*. A workload connects over a
WebSocket with a bootstrap token, opens a boot with its public keys, waits, and receives one
sealed payload. The decision is taken in one Cloudflare Durable Object per environment; the
keys and secrets are in D1 and are written by Worker requests that share no lock; the
dashboard and the Go client look at all of it from outside. These modules specify those
parts, check them with TLC on small instances, and prove what makes them safe with TLAPS,
for instances of any size.

## The system

| Component | State | Operations | What makes it correct | Module |
|---|---|---|---|---|
| Boot state machine (`packages/protocol/src/state.ts`) | none: a table | `transition`, `isTerminal` | a terminal status is final | `BootStatus`, `BootLifecycle` |
| Boot session core (`durable-objects/boot-session-core.ts`) | SQLite tables `boots`, `challenges`, `approval_contexts` | `boot.hello`, `boot.resume`, `boot.challenge_response`, `boot.received`, `prepareApproval`, `completeApproval`, `decline`, `cancelBoot`, `cancel`, `cancelForToken`, `onAlarm` | one decision, one payload, one receiver; deadlines; the kill switch; limits | `BootSession`, `BootRelease` |
| Durable Object shell (`environment-session.ts`) | sockets and attachments, accepted identity, alarm | `fetch`, `webSocketMessage/Close/Error`, `alarm`, RPC forwarding | the alarm covers every live boot; a socket belongs to one workload | `BootSession` |
| Vault keys, secrets, rotation (`vault/rotation.ts`, `keys.ts`, `secrets.ts`, `projects.ts`) | D1 `projects`, `project_keys`, `environments`, `environment_keys`, `secrets` | write, remove, rotate at both levels, create, delete | every stored key opens; no acknowledged write is lost outside one race | `VaultKeys` |
| Cloud approval (`vault/cloud-approval.ts`, `vault/key-release.ts`) | none | prepare, collect the secrets, build the envelope, complete | what is released is what was prepared, from one consistent state | `Prepare`, `Complete` in `BootSession`; `StartApprove` to `Complete` in `VaultKeys` |
| Go client (`apps/env-client/internal/client`) | session: keys, boot id, retries | session loop, resume, open, acknowledge, launch | starts the process once, with the approved payload; gives up for cause | `EnvClient`, `Wire`, `BootService`, `ClientSystem` |
| Go runner (`internal/run/env.go`) | none | `BuildEnv` | a released secret always wins | `ChildEnv` |
| Upgrade and token authentication (`bootstrap/upgrade.ts`, `vault/bootstrap-auth.ts`, `crypto/src/cidr.ts`) | reads D1 | accept or refuse a socket | exactly the addresses in the ranges that were read are let past them. The token may die between the check and the hand-over of the socket; what counts then is that nothing is released for it (`KillSwitch`) | `TokenGate`; `Connect` in `BootSession` |
| Bootstrap tokens (`vault/tokens.ts`) | D1 `bootstrap_tokens` | create, revoke, CIDR update | nothing is released for a revoked token | `BootSession`, `TokenGate` |
| Dashboard boot functions (`functions/boots.ts`) | calls in flight | approve, decline, cancel; the pending list and the boot page, which repair the index; the history | the index follows the object; no boot is missing from the history | `BootIndex`, `HistoryPages` |
| D1 index and approvals (`boot-requests.ts`, `boot-approvals.ts`) | `boot_requests`, `boot_approvals` | insert, status update, paged history | one approval row per boot, of the released contents | `BootSession`, `BootIndex`, `HistoryPages` |
| Provenance (`provenance/*.ts`, `functions/boots.ts`) | D1 policies, trusted signers, enforcement mode | verify, evaluate, review | what is approved is what was reviewed; a required source is verified | `Provenance` |
| Owner setup, roles, step-up (`auth/setup-*.ts`, `auth/guards.ts`, `functions/settings.ts`) | accounts, sessions | claim, sign in, step up, change a role | setup closes for good; an owner remains, unless a change is written for a former owner | `Access` |
| Release catalog (`releases/catalog.ts`) | D1 releases | publish, list, newest | the newest is the greatest in SemVer's order; a published binary never changes | `Releases` |
| Audit log (`vault/audit-log.ts`, `audit-events.ts`) | D1 `audit_events` | append, list by page | a reader misses nothing | `AuditPages` |
| Protocol parsing, cryptography, store plumbing, configuration, UI | | | | not modelled, see below |

The components interact in four ways: frames over sockets, RPC calls into the object, D1
reads and writes, and the object's alarm. Three places are hard.

*The object.* Its handlers are `async`; its own storage is synchronous, but at each `await`
on D1 or on `crypto.subtle` another event may be delivered, and the code neither takes a
lock nor calls `blockConcurrencyWhile` around a handler. So a handler that resumes works
with a row it read before, next to handlers that changed it since. On top of that come
restarts, D1 errors, peers that leave, tokens that die and vault contents that change.

*The vault.* A request reads a key, seals or rewraps, and writes; D1 makes one statement or
one batch atomic and nothing more. A rotation that takes six calls crosses writes, other
rotations, creations and deletions at each of them, and may stop between any two.

*The network.* The client and the object each go on alone after a connection is cut, and
each learns of it late; every frame that matters can be the one that was lost.

## Modules

The boot object:
- `BootStatus`: statuses, events and the transition table, translated from `state.ts`.
- `BootLifecycle`: abstract specification of a status: it moves along the table only.
- `BootRelease`: abstract specification of a release: a boot is opened for one key, decided
  once, and if a payload is released it stays that payload and goes only to that key.
- `BootSession`: the object.
- `BootSessionProps`: its properties, the two refinement mappings, the inductive invariant.
- `BootSessionProofs`: the inductive invariant; `BootReleaseProofs`: the refinement of
  `BootRelease`, the record of an approval and the kill switch;
  `BootSerialProofs`: what holds as long as handlers do not overlap.

The vault:
- `VaultKeys`: both levels of keys, the secrets, and every call that touches them.
- `VaultKeysProps`: its properties and its inductive invariant.
- `VaultKeysProofs`: its proofs.

The client and the object, composed:
- `Wire`: connections that lose what was on its way; extended by the next two.
- `EnvClient`: the Go session loop.
- `BootService`: the object as one client sees it.
- `ClientSystem`: the composition, its fairness and its properties.
- `BootHandover`: abstract specification of one start: open, consume, start.
- `ClientProofs`: the invariant of the composition and the refinement of `BootHandover`.

The operators' side:
- `Access`, `BootIndex` (over `BootStatus`), `HistoryPages`, `Provenance`, `TokenGate`,
  `Releases`, `AuditPages`, `ChildEnv`: one module per part.
- `Console`: all of them under one specification. The parts share no state and none calls
  another, so a behaviour lets one part move, chosen at the start (`part`), and the state
  spaces add instead of multiplying.
- `PagesProofs`: the proofs about the two paged lists; `LoopProofs`: what the loops of the
  address match, of `BuildEnv` and of `compareVersions` compute; `ConsoleProofs`: every other
  part, and the invariant of the whole.

`MCBootSession`, `MCVaultKeys`, `MCClientSystem` and `MCConsole` with the `.cfg` files are the
instances TLC checks. A definition named in `PROJECT.json` under "mutants", placed right
before the definition it would replace, is a plausible bug; it is used by nothing.

### How BootSession corresponds to the code

`boots`, `challenges` and `contexts` are the three SQLite tables; `alarm` is the storage
alarm; `conns` the accepted sockets with their attachment (`att`) and the workload that opened
them; `index` and `records` are the D1 tables `boot_requests`
and `boot_approvals`; `revoked` and `rev` what other parts of the system change in D1.
`tasks` holds the handlers in flight, each with the await it stands at (`pc`) and the locals
it will use again: the row it read (`snap`), the list of a loop (`queue`), what it saw of the
token (`tok`), of the proof (`proof`) and of the vault (`rev`), its prepared context (`ctx`).

An action is one stretch of a handler between two awaits: `Hello`, `Resume`, ... up to the first
one, `HelloMake`, `HelloInsert`, `ChallengeVerified`, `CompleteCheck`, `Approve`, ... after it,
and `Mirror`, `Record`, `AfterExpire`, `AfterCancel`, `AfterDecline`, `AfterConsume`,
`AfterApprove`, `AfterDelivery` for the D1 writes that follow each transition and what comes
after them. The operators above the actions (`Close`, `NextInQueue`, `Deliver`,
`ChallengeDecide`, `Rearm`, ...) are the private methods the handlers share.

Choices a reader should know:

- Awaits with no synchronous code of interest between them are one await (the D1 reads of
  `#approvalState`; the update and the audit row are two, since the index is visible between
  them). The environment, policy and secret reads of an approval yield one revision of the vault
  somewhere between the start of the handler and its continuation (`VaultKeys` has those
  reads one by one). Storage calls that set the alarm are under the object's input gate and
  do not yield.
- A token read sees the token at some moment since the handler was suspended: `tok` is what
  it was then, and revocation is final, so a token that is dead on resumption may have been
  read alive or dead.
- A policy, evidence, key-version, identity or missing-environment refusal is
  nondeterministic (`ApprovalRefused`, the first branch of `HelloMake`).
- A row gets its times in `HelloMake`, before its keys' fingerprints are hashed, and is stored
  in `HelloInsert`: it may be old by then, even past its own deadline.
- A payload and its digest are both named by the revision of the vault they were made from.
  Only a workload the payload reached can acknowledge its digest.
- A challenge belongs to a boot and to the workload it reached; that workload may answer it
  on any of its sockets, as `verifyResume` looks at the signature only. An answer that signs
  the stored challenge is one the workload that has both it and the key can give (`ProofHolds`);
  any workload can send another one.
- A socket the object closed while a handler is suspended on it is `"shut"`: a later send on
  it throws. A socket whose peer has gone is `"closed"`: what is sent to it is lost.
- Nothing makes a client wait for the answer to one frame before it sends the next: two
  handlers may be suspended on one socket. The Go client is in lock step (`EnvClient`); the object
  does not ask for it.
- The dashboard reaches a boot only through its index row (`Indexed`).
- `Throw` ends a handler at any await with the writes made so far; `Restart` ends them all
  and drops the sockets. The runtime runs an alarm handler that failed again (`RetryAlarm`).
- Left out here: the index rows' cascade when an environment is deleted; the dashboard's
  repair of the index (`BootIndex` has it); close codes, messages, rate limit wording, audit
  contents.

### How VaultKeys corresponds to the code

`project` is the row of one project, `envs` the rows of its environments, each with its
current key version; `projectKeys`, `envKeys` and `secrets` are the three tables below them.
`job` holds the calls in flight: the D1 call each waits for (`pc`) and what it read before.
An action is one D1 statement or one batch with the code up to the next; a conditional
statement that changes no row is the error path the code takes from it. A job may stop at any
call and never go on, which is a Worker that died or a D1 call that failed. `acked` and
`raced` are history: the last acknowledged value of a name, and the names whose value a
rotation and a write both held at one time.

Keys, row ids and values are named by the job that made them (`Genesis` for what was there
at the start). A wrapped key is [key it is under, key inside]; a ciphertext is the key it is
under with what its additional data authenticates (row, environment or slug, key version),
so opening it is comparing those with the row it is read from. A Cold environment keeps its
key outside the vault: it has a row and no keys or secrets here. Master-key rotation is a
change of configuration and is not a job.

### How the client system corresponds to the code

`client` is the Go `Session` (`bootID`, `pendingFor`, `approved`, the reason of an exit) with
the point of `Run` it is at; `Run` is one action: dial, send, read a frame and handle it, back
off, open and launch. `boots` are the rows of the object with their challenge; `Serve(c)` is
one handler of `BootService`, whole, or up to a D1 call that rejects (`faults`): what it
stored and sent stays, the rest does not happen. `BootSession` is where handlers interleave;
here the question is what the two sides do to each other through the network.

`wire[c]` has the frames of both directions and which ends still hold the connection. A cut
keeps a prefix of what was on its way, in either direction, and drops the rest; each end
notices after it has read that prefix (`Detect`: a read error or the keepalive). A connection
id is free again when both ends let go, so a proof sent on the old one can be read after the
client is back on a new one. Time is left out: a deadline, the client's `PendingTimeout` or a
retry interval may have passed whenever it is looked at. A payload is named by what opening
it shows (`good`, `broken`, `incomplete`), a challenge by the connection it was sent on.

### How the operators' side corresponds to the code

- `Access`: accounts and roles, sessions with the time of their step-up, setup claims and
  role changes in flight; each reads, awaits and writes without looking again. `ClaimDies` is
  the claim cut off after the account was created.
- `BootIndex`: `held` is the object's status, `row` the index, `mirror` the writes under way
  from the object, `viewers` the dashboard calls: the list of rows, one status request per
  row, one update per difference.
- `HistoryPages`, `AuditPages`: a table, a reader between two pages with its cursor, and
  rows that appear, change and vanish meanwhile. What the reader should have seen is a history
  variable taken when it began. Audit ids come from several clocks with no counter, so an
  event may be appended below one that is there.
- `Provenance`: the evidence of one boot, the mode, the policy rows and the trusted
  fingerprints; an approval goes from the screen over `prepareApproval` to `completeApproval`.
- `TokenGate`: a request between the read of its token and its hand-over to the object, next to
  revocations and changes of its ranges, neither of which stops a request that has passed;
  `inCidr` byte by byte, with the mask of the last one, against the interval of numbers a range
  stands for.
- `Releases`: `compareVersions` branch by branch on parsed versions, the first of the sorted
  list and the batch that publishes both architectures; next to it the order of SemVer 2.0.0,
  section 11, clause by clause (`LowerPrecedence`), which shares nothing with it.
- `ChildEnv`: `BuildEnv` in one step over every input within the bounds, against a
  definition of what the workload should see.

## What TLC checks

| Run | Instance | Shows |
|---|---|---|
| `serial_one_boot` | 1 boot, 2 sockets, 1 handler, a token that lapses at 2, fairness | `ImplementsLifecycle` (status moves along the table), `IndexAgrees`, `AttachedIsDelivered`, `BootEnds` |
| `serial_two_boots` | 2 boots, limit 1, 1 handler | `PendingWithinLimit` (overdue boots are swept before the limit is judged), `AlarmCovers` with two deadlines |
| `interleaved_sockets` | 1 boot, 2 sockets, 2 workloads sharing a token, 2 handlers | `TypeOK`, `PayloadHeldWhileLive`, `AttachedToOwner`, `PayloadOnlyToOwner`, `ImplementsRelease` |
| `interleaved_faults` | 1 boot, 1 socket, 2 workloads, 2 handlers, 2 vault revisions, 1 fault | `IInv`, `RedeliversSamePayload`, `RecordNamesPayload`, `ApprovedInTime`, `KillSwitch` |
| `vault` | 3 jobs, 2 environments (one Cloud, one Cold, sharing a slug), 2 names, 3 key versions | `TypeOK`, `KeysOpen`, `CurrentKeyActive`, `SealedUnderStoredKey`, `NothingLost`, `DeliveredUnderOneKey`, `IInv`, `KeysOnlyGrow` |
| `client` | 2 boots, 2 connections, 2 cuts, 1 pending boot allowed, 1 fault, fairness | `TypeOK`, `ExitsForCause`, `ImplementsHandover`, `ApprovalArrives` |
| `console` | see below | `TypeOK`, `SetupCloses`, `OwnerRemains` (`Access`); `PendingRowRepaired` (`BootIndex`); `NothingSkipped` (`HistoryPages`); `EveryEventListed` (`AuditPages`); `LatestIsGreatest`, `PublishedStays` (`Releases`); `AdmittedFromRange` (`TokenGate`); `ApprovedAsReviewed`, `RequiredIsVerified` (`Provenance`); `SecretsWin` (`ChildEnv`) |
| `terminal_overwritten` | 2 handlers | finding: `TerminalIsFinal` fails |
| `pending_limit_raced` | 2 boots, 2 handlers | finding: `PendingWithinLimit` fails |
| `attached_not_sent` | 2 handlers | finding: `AttachedIsDelivered` fails |
| `pending_never_ends` | 1 handler, 1 fault, fairness | finding: `PendingEnds` fails |
| `vault_mixture` | 2 jobs | finding: `NeverMixture` fails |

The serial runs take the sentence of `docs/architecture.md:61`, "The Durable Object
serializes boot decisions", at its word: one handler in flight. The interleaved runs take the
code at its word: two handlers interleave at every await.

**Bounds.** All are constants, named where they are declared.

- `BootSession`: `Tasks` (handlers in flight), `LastHello` (no boot is opened after it),
  `MaxTime`, `MaxRev` (vault revisions), `MaxFaults` (D1 errors plus restarts). Lifetimes are 1
  to 3 ticks, enough for each deadline to fall before, at and after each await of the handler
  that looks at it. Two handlers are enough for every pairwise race; what is proved holds for
  any number.
- `VaultKeys`: three jobs are the least in which a project rotation crosses an environment
  rotation while a write is open; three key versions let a level be rotated twice. The two
  environments share a slug, since the additional data of a value names the slug, and a
  deleted environment's slug can be used again. Everything is proved for any numbers.
- `ClientSystem`: two cuts lose a frame in the first session and one in the session that
  resumes it; two boots, because a client that never learned its boot id opens a second one,
  which the limit of one pending boot then refuses. No run has more than one fault: what a
  fault can add is an object that stored and did not send, once.
- `Console`: two actors per race (claims, role changes, dashboard calls, approvals), one failure
  of the index writes; tables of 6 rows (2 times, 3 ids) read one per page and 4 events read two
  per page, so that a page can end at, before and after the end of the table and between rows of
  one time; thirteen versions, the examples of SemVer's section 11 with, around them, cores that
  differ in each of the three numbers, in numbers of one digit and of two, and a prerelease of a
  later core, so that every branch of the comparison is taken in both directions, published up
  to three at a time; addresses of one and two bytes of 2 bits, so that a prefix ends inside a
  byte, at a byte, at zero, and a range meets an address of the other length; a client
  environment of up to 4 entries over 3 names, so that a name can occur twice around another.

Deadlock checking is off: the clock, the jobs and the actors are bounded, and a client that
has started or exited is done, so these systems do stop. Symmetry (jobs, names) is used only
in `vault`, where nothing is temporal but an action property.

**Fairness.**

- `BootSession` (`FairSpec`): weak fairness of the clock and of every continuation (an await
  returns), and strong fairness of a due alarm: the runtime delivers alarms, and that an alarm
  waits for a free task is a bound of the model, so it must not be able to lose to other
  handlers forever. Nothing is asked of clients and operators.
- `ClientSystem`: weak fairness of the client's loop, of the object's handling of a frame
  that arrived, and of each end's detection of a dead connection (both sides keep alive).
  Nobody has to decide, no deadline and no timeout has to pass, and no launch is refused.
  `ApprovalArrives` has the premise `[](faults = 0)`: a handler that fails has no retry of its
  own.
- `Console`: weak fairness of a dashboard call in flight. `PendingRowRepaired` says itself
  that somebody keeps opening the list.
- `VaultKeys` has none: a job may always stop.

## Findings

1. *A terminal status is not final* (`terminal_overwritten`). `#apply` asks the transition
   table about the row its caller read, then writes to the row as it is now. Where an await
   lies between, a decline can be overwritten with CANCELED, or a canceled boot by DELIVERED.
   The payload itself is safe: `PayloadHeldWhileLive` and `ImplementsRelease` hold, since
   every closing write erases the payload and the approval re-reads the row. With two
   handlers in flight `ImplementsLifecycle`, `IndexAgrees` and `AlarmCovers` fail for the same
   reason.
2. *The pending limit can be exceeded* (`pending_limit_raced`): check and insert are separated
   by awaits. Two hellos pass the check together, on two sockets or one after the other on one.
3. *An attached client may not be sent its payload on approval* (`attached_not_sent`): a boot
   is approvable from its index row on, before its own hello handler attaches the socket.
4. *A boot can stay pending forever* (`pending_never_ends`): the alarm is armed at the end of
   hello, after the D1 writes.
5. *A rotation and a write can leave a mixture* (`vault_mixture`). `rotation.ts:7` says that
   "The rewrites and the version switch go into one store batch, so a reader sees either the
   old key with the old ciphertext or the new key with the new ciphertext, never a mixture."
   But `rotateEnvironmentKey` lists the secrets and writes the batch later with no condition on
   the rows it read, and `writeSecret` is conditional on the secret's version only. A write that
   lands between the two is overwritten by the older value, under a ciphertext that
   authenticates the older version: an acknowledged value is lost and the row opens for nobody.
   A write that lands after the batch is stored under the retired key: approvals of the
   environment are refused. Either way the next rotation fails, until the secret is written
   again. That is the exact reach of the race: `NothingLost`, proved, says that any other value
   is kept, and `SealedUnderStoredKey` that a row and its ciphertext agree about the key.

Also seen, without a run of their own:

- `protocol/websocket-v1.md` says that the approved payload's TTL starts at approval; the code
  fixes `payload_expires_at` when the approval is prepared.
- `protocol/websocket-v1.md:318` lets a client open a new connection after close code 4400; the
  Go client treats it as fatal.
- A proof that was sent on a connection since cut can arrive after the client is back on a
  new one and spend the challenge of the new one (`boot-session-core.ts:697`); the client has to
  start over. `ApprovalArrives` holds because it does.
- When `boot.pending` is lost the client says hello again. The first boot stays pending and
  holds a slot of the limit, so the second hello may be refused with 4409, which the client
  takes as the end.
- A key version is inserted before the batch that switches to it (`rotation.ts:132`, `:237`). A
  Worker that dies in between leaves it, and every later rotation of that level fails on the
  same primary key, for good. No property covers that: one that says a rotation succeeds again
  would fail. `CurrentKeyActive`, `KeysOpen` and `SealedUnderStoredKey` cover the rest: the version
  in force stays active with at most that one key above it, and everything stored still opens.
- A setup cut off after the account was created (`setup-plugin.ts:75`) has closed setup for good
  with an owner who has no session and no passkey (`ClaimDies`).
- The approval screen shows the evidence result stored at hello. After a change of the signers
  the recomputed result differs, the approval is refused with "Review it again", and the screen
  still shows the stored one: that boot cannot be approved any more (`boots.ts:298`,
  `boot-session-core.ts:1160`). No property covers that refusal; `ApprovedAsReviewed` is its
  safe side, that nothing else is approved instead.
- A dashboard refresh can write an older status over a newer one when both are past PENDING,
  and no list looks at such a row again (`boots.ts:239`, `:290`). `PendingRowRepaired` is what is
  left: a row that says PENDING does not say so forever.
- Two owners can demote each other, both past their checks before either writes
  (`settings.ts:84`). `OwnerRemains` says that this is the only way: whatever changes, sign-ins
  and setups overlap, an owner remains unless a change was written for somebody who had ceased to
  be an owner by then (`outdated`).
- Deleting an environment sets the `environment_id` of its audit events to NULL, so they leave
  its filtered log and stay in the whole one.
- `docs/audit-2026-09-09.md:18` asks to coordinate a project rotation with the creation and
  rotation of environments. The environment's key may then stay under the retired project
  key; `KeysOpen`, proved, shows that it opens all the same.

## What is proved

Every safety property a passing run checks is proved for every value of the constants: the
runs show them on small instances first, the proofs for any number of boots, sockets, handlers,
calls, rows and failures, for addresses and lists of any length. The premises are the
assumptions the modules state about their constants (`BootAssumption`, `VaultAssumption`,
`WireAssumption`, ...: bounds are numbers, `NULL` is no boot, every token has a workload, and
the like), and one that is named in its theorems: `Serialized`.

### The boot object

| Theorem | Statement | In |
|---|---|---|
| `BootInvariant` | `Spec => []IInv` | `BootSessionProofs` |
| `TypeCorrect`, `PayloadHeld`, `SamePayload`, `AttachedOwner`, `PayloadOwner` | `Spec => []` of `TypeOK`, `PayloadHeldWhileLive`, `RedeliversSamePayload`, `AttachedToOwner`, `PayloadOnlyToOwner` | `BootSessionProofs` |
| `OneRelease` | `Spec => ImplementsRelease` | `BootReleaseProofs` |
| `InTime` | `Spec => ApprovedInTime` | `BootReleaseProofs` |
| `ReleaseInvariant`, `RecordNames` | `Spec => []` of `ReleaseInv`, `RecordNamesPayload` | `BootReleaseProofs` |
| `KillSwitchHolds` | `Spec => KillSwitch` | `BootReleaseProofs` |
| `SerialInvariant`, `PendingLimitHolds`, `IndexAgreesHolds`, `AttachedIsDeliveredHolds`, `AlarmCoversHolds` | `Spec /\ Serialized => []` of `SerialInv`, `PendingWithinLimit`, `IndexAgrees`, `AttachedIsDelivered`, `AlarmCovers` | `BootSerialProofs` |
| `ImplementsLifecycleHolds`, `TerminalIsFinalHolds` | `Spec /\ Serialized =>` `ImplementsLifecycle`, `TerminalIsFinal` | `BootSerialProofs` |
| `OneTaskSerialized` | with one task, `Spec => Serialized` | `BootSerialProofs` |

**Argument.** None of the properties is inductive, because a handler writes on what it read
before an await. `IInv` says what a suspended handler still knows: its boot has a row
(`TaskInv`), a bound socket belongs to the key of the boot (`ConnInv`), a snapshot with a
payload carries the stored digest, and the row itself relates status, payload and digest
(`RowInv`). Other handlers keep this because three things never go back: a row, its key, and its
digest once set (`RowsKept`). A step of handler `t` is split into its effect on rows, sockets,
its task and the rest (`RowsOK`, `ConnsOK`, `TasksOK`, `RestOK`); `Combine` puts them together,
and there is a lemma for each action.

*The release.* `NextRows` shows that any step opens, closes, approves or delivers one
row, or leaves the rows alone. Under the mapping a digest is the decision: closing a boot
refuses it only if it was pending (otherwise it is a stutter, also when a stale handler
writes the status of an already released boot), a delivery needs a digest, and an approval
is only written on a row that is pending *now* and so has none.

*The record and the kill switch.* An approval is suspended three times between the contents
it prepared and the row it leaves in D1. `ReleaseInv` follows one number through it: the
revision that was hashed is the one that was prepared, the digest on the row is the one that
was hashed, and the record will name the one on the row. The same invariant keeps that a
handler which approves or delivers saw the token alive, so once the handlers that saw it are
gone (the premise of `KillSwitch`) none of them is left to do it. Handlers that carry nothing
of this (`Plain`) keep it for free; the lemmas are about the few that do.

*Serialized executions.* `Serialized` says that a handler begins only when none is in flight,
for any number of handlers there might be. It is what `docs/architecture.md:61` says and what
nothing in the code enforces: `terminal_overwritten`, `pending_limit_raced` and
`attached_not_sent` are the same statements violated without it. `OneTaskSerialized` makes the
serial runs instances of these theorems. Under it, what a handler read is what is there
(`Current`), a hello still finds its socket open and bound to nothing when it binds it
(`SocketWaits`), so that each status it writes is a row of the table, and each admission counts
what is there; this holds with failures and restarts too. As long as nothing failed, every
difference is owed by the one handler in flight, for the boot it works on: an index row that
lags (`IndexFollows`), an attached client without its payload (`SocketsServed`), a deadline
before the alarm (`AlarmSet`). Between handlers nobody owes anything, which is what the
properties say. Each action is one of a few shapes (reading, closing, inserting, approving,
sending, a D1 write that lands or not), and the shapes keep the invariant.

### The vault

| Theorem | Statement |
|---|---|
| `VaultInvariant` | `Spec => []IInv` |
| `TypeCorrect`, `EveryKeyOpens`, `CurrentIsActive`, `SealedUnderItsKey`, `AcknowledgedIsKept`, `OneKeyDelivered` | `Spec => []` of `TypeOK`, `KeysOpen`, `CurrentKeyActive`, `SealedUnderStoredKey`, `NothingLost`, `DeliveredUnderOneKey` |
| `KeysStay` | `Spec => KeysOnlyGrow` |

**Argument** (`VaultKeysProofs`). Here too a job writes on what it read, and the invariant says
what of that is still true. A key that was read is still stored as it was read, whatever
rotates, because rows of keys are added and retired but not removed while their environment
lives (`RowHeld`, `WrapperHeld`); a key version that a job is about to switch to was inserted by
that job, and a key that waits for its switch has one maker (`SwitchHeld`, `OneCreator`); the
list a rotation read is of values that open under the versions they record (`ListHeld`,
`ValuesHeld`); a creation has inserted what its next step needs (`CreateHeld`); a version that
was seen is never above the current one, and environments live only in a project (`Progress`,
`Nested`). A step changes the project's rows, the environments' rows, the secrets or one job;
`ProjectKept`, `EnvsKept` and `OtherKept` say what each kind of change leaves in force for the
jobs that did not move, so that each action has to account only for its own job and the rows
it writes.

### The client and the object

| Theorem | Statement |
|---|---|
| `ClientInvariant` | `Spec => []ClientInv` |
| `ClientTypeOK`, `ExitsForCauseHolds` | `Spec => []` of `TypeOK`, `ExitsForCause` |
| `ImplementsHandoverHolds` | `Spec => ImplementsHandover` |

**Argument** (`ClientProofs`). What either side knows of the other is in frames that may be
read late or never, so the invariant is about the frames. `Talk` says that a frame stays true
while it is on its way (`FramesTrue`: ends and payloads of a boot stay, and a frame says nothing
else for good), that all of a connection is about one boot once the client knows its boot
(`OneBoot`), that the object closes a connection only behind a frame that ends the session
(`ClosesLast`), and that an acknowledgement, wherever it is, is of the payload the client opened
(`ReceivedTrue`, `Acknowledged`). It holds whatever is cut, lost or fails. `ExitsForCause` has
exits that can only happen without cuts and failures, and for those `CalmTalk` adds that the
first connection is the only one. A handler of the object replies and moves boots forward
(`ServerKeepsTalk`), the client leaves its connection (`LeaveKeepsTalk`) or takes one frame off
it (`ReadKeepsTalk`).

For the refinement, a boot is consumed only by a handler that read an acknowledgement, which
says that this client opened its payload; the client starts only in the session that read the
`consumed` of its own boot. On the way the proof shows that two of the client's checks never
fire against this object: a frame for another boot than its own, and a `resumed` with CONSUMED.

### The operators' side

| Theorem | Statement |
|---|---|
| `ConsoleInvariant` | `Spec => []OperatorsInv` |
| `ConsoleTypeOK`, `SetupClosesHolds`, `OwnerRemainsHolds`, `NothingSkippedHolds`, `EveryEventListedHolds`, `ApprovedAsReviewedHolds`, `RequiredIsVerifiedHolds`, `AdmittedFromRangeHolds`, `SecretsWinHolds` | `Spec => []` of the property of that name |
| `ComparesBySemVer` (`LoopProofs`) | for all `v`, `w` in `SemanticVersion`, `compareVersions(v, w)` is negative, zero or positive exactly if `LowerPrecedence(v, w)`, `v = w` or `LowerPrecedence(w, v)` |
| `LatestIsGreatestHolds` | `Spec => []LatestIsGreatest` |
| `PublishedStaysHolds` | `Spec => PublishedStays` |

**Argument** (`ConsoleProofs`). Each part has an invariant that its own steps keep, and a step of
`Console` moves one part. For the setup, a claim still on its way when an account exists was
let in before it did (`ClaimsInEarly`); for the roles, a change past its check is of another
account than its caller's (`VerifiedCaller`), so a caller who is still an owner when it is written
is one after it. An approval
between its two reads of the signers knows every fingerprint trusted now, and one past its last
check has verified, under the mode and the signers it read, the result it shows
(`ApprovalInv`). The first of the sorted list is the greatest because the comparison is a
strict order (`ComparesBySemVer`), and a finite set has a greatest element in one.

`PagesProofs` proves the two paged lists. A page is the lowest rows of a set in a strict order
(`Lowest`), put in sequence. Counting what comes before a row (`Rank`) numbers a finite set
from 0 without a gap, by which the sequence exists and is closed under what comes before its
rows; so nothing that stayed lies between the cursor and the rows after it, whatever
comes and goes between two pages.

`LoopProofs` is about what three loops compute, for every input. The library's induction takes
an operator as a parameter, which no prover here can instantiate; so the induction is had from
the least element of a set of numbers (`LeastNat`, `Upwards`), and `Pow2`, `Value` and `Overlay`
are recursive functions, each with a lemma that its equation has a solution. For the *address
match* (`PrefixIsBlock`): each further byte two addresses share refines the interval their
numbers are in by the base of a byte (`Refines`), the masked byte refines it by the bits the
mask keeps, and the number of an interval is the quotient by its size (`Quotient`), which is how
a range is a block. That a list has well-formed ranges only (`GateAssumption`) is what
`assertCidrs` sees to when a token is created or its ranges change (`tokens.ts:28`). For the
*environment* (`BuildAmounts`): at every stage of either loop the entries amount to those taken
so far, under each name the last of them, in the order of the first (`Amounts`, kept by
`PutAmounts`); as a secret is never stripped and comes after what was inherited, it wins
(`AmountsWin`). For the *versions* (`ComparesBySemVer`): a loop that returns at its first result
that is not 0 is the first difference of two lists, and running out of identifiers is the proper
beginning of the reference's order (`LoopCompares`); numbers and identifiers are ordered in the
same way on either side (`IdentifiersOrdered`).

### Only model-checked

- Liveness under fairness, and ENABLED, which are outside the prover's reach: `BootEnds`,
  `ApprovalArrives`, `PendingRowRepaired` (and `PendingEnds`, which fails).
- That `LowerPrecedence` is the order SemVer's document means is for a reader to compare; the run
  `console` checks it on that document's examples (`ExamplesAscend`).

## Not modelled

- *Protocol parsing* (`packages/protocol`): schemas of frames, without control. A frame that
  does not parse closes the socket, which the disconnects of `BootSession` and `Wire` cover.
- *Cryptography* (`packages/crypto`, `internal/crypto`): primitives and encodings. The modules
  assume what they provide: only the holder of a key signs or opens for it, and a ciphertext
  opens only with the data it authenticates.
- *Store plumbing and migrations*: statement building and row parsing. The effect of each
  statement, its conditions, uniqueness and cascades, is in the action that runs it.
- *Dashboard and marketing UI*: rendering, the largest part of the control plane by lines.
  Every state change goes through the server functions above. The one piece of control there,
  the replay of a refused action after a step-up (`use-vault-action.tsx`), repeats the call as
  it was first made, with the digest that was on the screen.
- *Build, lint and agent tooling* (`tools/`, `.agents/`): not part of the running system.
- *Sessions*, in part: cookies, WebAuthn and session storage belong to Better Auth. The skew
  the step-up check allows compares two clocks, and `Access` has one.
- *Go runner and configuration*, in part: parsing of flags, dotenv files and URLs is a
  sequential reading of text; `ChildEnv` has the one result that matters, and `EnvClient` the
  launch.
- A fingerprint registered twice stays trusted until both its rows are revoked; `Provenance`
  has one row per fingerprint. IPv4-mapped IPv6 ranges are reduced to IPv4 before they reach
  `TokenGate`.

## Plan

1. The two clocks of the step-up's skew allowance, and the replay of an action after it.
2. What of the serialized promises outlives a failure: after `Throw` an index row that lags is
   repaired by whoever looks (`BootIndex`), and the boot without an alarm waits for the next one.
