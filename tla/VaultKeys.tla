------------------------------ MODULE VaultKeys ------------------------------
(***************************************************************************)
(* The vault of one project: its key hierarchy, the secrets sealed under   *)
(* it and every server operation that reads or changes them (rotation.ts,  *)
(* keys.ts, secrets.ts, projects.ts, key-release.ts, and the D1            *)
(* repositories they write through).                                       *)
(*                                                                         *)
(* A server function is a chain of awaits on D1 with no transaction around *)
(* it: only one statement, or one batch, is atomic. A call in flight is a  *)
(* job: pc names the await it is suspended at and the other fields are the *)
(* rows it read before. Reads that nothing can tell apart are one action:  *)
(* an existence check and the read it precedes, or the two reads of one    *)
(* immutable row. A job may stay at its pc forever, which is a Worker that *)
(* was evicted, and also a D1 call that threw: either way what was written *)
(* stays written.                                                          *)
(*                                                                         *)
(* A key, a secret id and a secret value are named by the job that made    *)
(* them. A ciphertext is what its AAD authenticates: see Seal.             *)
(***************************************************************************)
EXTENDS Naturals, FiniteSets

CONSTANTS
  Job,          \* calls of the server functions, each of which runs once
  Env,          \* environment ids that can be minted
  Name,         \* secret names
  ModeOf,       \* [Env -> {"CLOUD", "COLD"}]: the key mode it is created with
  SlugOf,       \* [Env -> slugs]: the slug it is created with
  MaxVersion,   \* bound: key versions of one hierarchy level
  Genesis,      \* made what is in the vault before the first job
  NULL

ASSUME VaultAssumption ==
  /\ ModeOf \in [Env -> {"CLOUD", "COLD"}]
  /\ MaxVersion \in Nat \ {0}
  /\ NULL \notin Job \cup Env \cup Name \cup {Genesis}
  /\ Genesis \notin Job

VARIABLES
  project,      \* D1: the row of projects
  projectKeys,  \* D1: project_keys by version
  envs,         \* D1: the rows of environments
  envKeys,      \* D1: environment_keys by environment and version
  secrets,      \* D1: secrets by environment and name
  job,          \* the calls in flight
  acked,        \* history: the last write of each secret that was acknowledged
  raced         \* history: secrets whose last write crossed a key rotation

keys == <<project, projectKeys, envs, envKeys>>
history == <<acked, raced>>
vars == <<project, projectKeys, envs, envKeys, secrets, job, acked, raced>>

-----------------------------------------------------------------------------
(* Rows, and what is missing where there is none *)

Maker == Job \cup {Genesis}
Version == 1 .. MaxVersion
Stage == {"none", "live", "gone"}

\* A row of projects or environments with its current key version, 0 at first.
Holder == [stage : Stage, current : 0 .. MaxVersion]

ProjectKey == [key : Maker, status : {"active", "retired"}]
NoProjectKey == [key |-> NULL, status |-> "none"]

\* dek is wrapped under version under of the project key, which is key by.
EnvKey == [dek : Maker, by : Maker, under : Version,
           status : {"active", "retired"}]
NoEnvKey == [dek |-> NULL, by |-> NULL, under |-> 0, status |-> "none"]

\* encryptSecret: the id, the two versions and the key it authenticates with.
Seal(id, version, keyVersion, dek, value) ==
  [id |-> id, version |-> version, keyVersion |-> keyVersion, dek |-> dek,
   value |-> value]

Box == [id : Maker, version : Nat, keyVersion : Version, dek : Maker,
        value : Maker]

Secret == [id : Maker, version : Nat, keyVersion : Version, box : Box]
NoSecret == [id |-> NULL, version |-> 0, keyVersion |-> 0, box |-> NULL]

\* decryptSecret authenticates a row's ciphertext with the row's own columns.
Opens(s, dek) ==
  s.box = Seal(s.id, s.version, s.keyVersion, dek, s.box.value)

Kinds == {"none", "write", "remove", "rotateEnv", "rotateProject",
          "createProject", "createEnv", "deleteProject", "deleteEnv", "approve"}

PCs == {"idle", "open", "wrap", "read", "write", "remove", "list", "insertRow",
        "insertKey", "switch", "listKeys", "insertProject", "insertProjectKey",
        "switchProject", "deleteEnv", "deleteProject", "snapshot", "release",
        "recheck", "complete", "hash", "delivered", "done"}

JobState == [pc : PCs, kind : Kinds, env : Env \cup {NULL}, todo : SUBSET Name,
             name : Name \cup {NULL}, version : 0 .. MaxVersion,
             row : EnvKey \cup {NoEnvKey},
             wrapper : [version : 0 .. MaxVersion, key : Maker \cup {NULL}],
             snap : [Name -> Secret \cup {NoSecret}],
             keys : [Env -> [Version -> EnvKey \cup {NoEnvKey}]],
             release : 0 .. MaxVersion]

NoJob == [pc |-> "idle", kind |-> "none", env |-> NULL, todo |-> {},
          name |-> NULL, version |-> 0, row |-> NoEnvKey,
          wrapper |-> [version |-> 0, key |-> NULL],
          snap |-> [n \in Name |-> NoSecret],
          keys |-> [e \in Env |-> [v \in Version |-> NoEnvKey]],
          release |-> 0]

-----------------------------------------------------------------------------
(* Steps shared by several calls *)

Live(e) == envs[e].stage = "live"

\* getCurrentEnvironmentKey finds a row.
HasKey(e) == Live(e) /\ envs[e].current # 0

At(j, pc) == job[j].pc = pc

Begin(j, kind, pc, e) ==
  [NoJob EXCEPT !.kind = kind, !.pc = pc, !.env = e]

\* The call returns, or throws after an answer it cannot go on with.
End(j) == job' = [job EXCEPT ![j] = [NoJob EXCEPT !.pc = "done"]]

Fail(j) == End(j) /\ UNCHANGED <<keys, secrets, history>>

Goto(j, pc) == job' = [job EXCEPT ![j].pc = pc]

\* A rotation of e holds a snapshot of its secrets that it will write back.
Resealing(e) ==
  \E r \in Job : /\ job[r].kind = "rotateEnv" /\ job[r].env = e
                 /\ job[r].pc \in {"insertKey", "switch"}

-----------------------------------------------------------------------------
(* Opening an environment key: master -> project -> environment *)

AfterOpen == [write |-> "read", rotateEnv |-> "wrap", approve |-> "recheck"]

\* unwrapProjectKeyVersion for the version the row records, then
\* unwrapEnvironmentKey: the row authenticates under that key only.
Unwraps(row) ==
  /\ project.stage = "live"
  /\ projectKeys[row.under].key = row.by

OpenProject(j) ==
  /\ At(j, "open")
  /\ IF Unwraps(job[j].row)
       THEN /\ Goto(j, AfterOpen[job[j].kind])
            /\ UNCHANGED <<keys, secrets, history>>
       ELSE Fail(j)

\* unwrapProjectKey: the key the project wraps new environment keys with.
Wrap(j) ==
  /\ At(j, "wrap")
  /\ IF project.stage = "live" /\ project.current # 0
       THEN /\ job' = [job EXCEPT
                 ![j].wrapper = [version |-> project.current,
                                 key |-> projectKeys[project.current].key],
                 ![j].pc = IF job[j].kind = "createEnv" THEN "insertRow"
                                                        ELSE "list"]
            /\ UNCHANGED <<keys, secrets, history>>
       ELSE Fail(j)

-----------------------------------------------------------------------------
(* Secrets: putSecret and importDotenv write names one by one *)

StartWrite(j, e, names) ==
  /\ At(j, "idle") /\ HasKey(e) /\ ModeOf[e] = "CLOUD"
  /\ job' = [job EXCEPT ![j] =
       [Begin(j, "write", "open", e) EXCEPT !.todo = names,
          !.version = envs[e].current, !.row = envKeys[e][envs[e].current]]]
  /\ UNCHANGED <<keys, secrets, history>>

ReadSecret(j, n) ==
  /\ At(j, "read") /\ n \in job[j].todo
  /\ job' = [job EXCEPT ![j].pc = "write", ![j].name = n,
                        ![j].snap[n] = secrets[job[j].env][n]]
  /\ UNCHANGED <<keys, secrets, history>>

\* Mutant: the replacement is not conditional on the version that was read.
ReplacesAny(old, seen) == (seen = NoSecret) <=> (old = NoSecret)

\* upsertSecretReplace: an insert where no row was seen, else a replacement of
\* the row and version that was seen.
Replaces(old, seen) == old.id = seen.id /\ old.version = seen.version

\* The row a write leaves: its version counts up in the database, and its
\* ciphertext names the version that was read, under the key opened at first.
Written(j, old, seen) ==
  LET id == IF seen = NoSecret THEN j ELSE seen.id
  IN  [id |-> id, version |-> old.version + 1, keyVersion |-> job[j].version,
       box |-> Seal(id, seen.version + 1, job[j].version, job[j].row.dek, j)]

WriteSecret(j) ==
  /\ At(j, "write")
  /\ LET e == job[j].env
         n == job[j].name
         seen == job[j].snap[n]
     IN  IF Live(e) /\ Replaces(secrets[e][n], seen)
           THEN /\ secrets' = [secrets EXCEPT ![e][n] = Written(j, secrets[e][n], seen)]
                /\ acked' = [acked EXCEPT ![e][n] = j]
                /\ raced' =
                     IF job[j].version = envs[e].current /\ ~Resealing(e)
                       THEN raced \ {<<e, n>>} ELSE raced \cup {<<e, n>>}
                /\ job' = [job EXCEPT ![j] =
                     IF job[j].todo = {n} THEN [NoJob EXCEPT !.pc = "done"]
                     ELSE [job[j] EXCEPT !.pc = "read", !.todo = job[j].todo \ {n}]]
                /\ UNCHANGED keys
           ELSE Fail(j)

StartRemove(j, e, n) ==
  /\ At(j, "idle") /\ Live(e) /\ secrets[e][n] # NoSecret
  /\ job' = [job EXCEPT ![j] =
               [Begin(j, "remove", "remove", e) EXCEPT !.name = n]]
  /\ UNCHANGED <<keys, secrets, history>>

\* DELETE by environment and name, whatever row is there by now.
RemoveSecret(j) ==
  /\ At(j, "remove")
  /\ LET e == job[j].env
         n == job[j].name
     IN  /\ secrets' = [secrets EXCEPT ![e][n] = NoSecret]
         /\ acked' = [acked EXCEPT ![e][n] = NULL]
         /\ raced' = raced \ {<<e, n>>}
  /\ End(j)
  /\ UNCHANGED keys

-----------------------------------------------------------------------------
(* rotateEnvironmentKey; createEnvironment ends with the same two writes *)

StartRotateEnv(j, e) ==
  /\ At(j, "idle") /\ HasKey(e) /\ ModeOf[e] = "CLOUD"
  /\ envs[e].current < MaxVersion
  /\ job' = [job EXCEPT ![j] =
       [Begin(j, "rotateEnv", "open", e) EXCEPT
          !.version = envs[e].current, !.row = envKeys[e][envs[e].current]]]
  /\ UNCHANGED <<keys, secrets, history>>

\* listSecretsForDelivery; every value must open under the retiring key.
ListSecrets(j) ==
  /\ At(j, "list")
  /\ LET rows == secrets[job[j].env]
     IN  IF \A n \in Name : rows[n] = NoSecret \/ Opens(rows[n], job[j].row.dek)
           THEN /\ job' = [job EXCEPT ![j].pc = "insertKey", ![j].snap = rows]
                /\ UNCHANGED <<keys, secrets, history>>
           ELSE Fail(j)

StartCreateEnv(j, e) ==
  /\ At(j, "idle") /\ project.stage = "live"
  /\ envs[e].stage = "none"
  /\ \A i \in Job : ~(job[i].kind = "createEnv" /\ job[i].env = e)
  /\ \A f \in Env : Live(f) => SlugOf[f] # SlugOf[e]
  /\ job' = [job EXCEPT ![j] =
       Begin(j, "createEnv", IF ModeOf[e] = "COLD" THEN "insertRow" ELSE "wrap",
             e)]
  /\ UNCHANGED <<keys, secrets, history>>

\* INSERT INTO environments: the project is there and the slug still free.
InsertEnv(j) ==
  /\ At(j, "insertRow")
  /\ LET e == job[j].env
     IN  IF /\ project.stage = "live"
            /\ \A f \in Env : Live(f) => SlugOf[f] # SlugOf[e]
           THEN /\ envs' = [envs EXCEPT ![e].stage = "live"]
                /\ IF ModeOf[e] = "COLD" THEN End(j) ELSE Goto(j, "insertKey")
                /\ UNCHANGED <<project, projectKeys, envKeys, secrets, history>>
           ELSE Fail(j)

\* Mutant: a key version that is there already is overwritten.
MayInsertAnyKey(e, v) == Live(e)

\* The primary key and the foreign key of environment_keys.
MayInsertKey(e, v) == Live(e) /\ envKeys[e][v] = NoEnvKey

\* Mutant: the row records the version before the one that wrapped it.
InsertedUnderOlder(j) ==
  [dek |-> j, by |-> job[j].wrapper.key,
   under |-> job[j].wrapper.version - 1, status |-> "active"]

Inserted(j) ==
  [dek |-> j, by |-> job[j].wrapper.key, under |-> job[j].wrapper.version,
   status |-> "active"]

InsertEnvKey(j) ==
  /\ At(j, "insertKey")
  /\ LET e == job[j].env
         v == job[j].version + 1
     IN  IF MayInsertKey(e, v)
           THEN /\ envKeys' = [envKeys EXCEPT ![e][v] = Inserted(j)]
                /\ Goto(j, "switch")
                /\ UNCHANGED <<project, projectKeys, envs, secrets, history>>
           ELSE Fail(j)

\* Mutant: the rewrites keep the key version they were sealed under before.
ReencryptKeepingVersion(s, seen, v, dek) ==
  IF seen # NoSecret /\ s.id = seen.id
    THEN [s EXCEPT !.box = Seal(seen.id, seen.version, v, dek, seen.box.value)]
    ELSE s

\* buildReencryptSecretStatement: UPDATE ... WHERE id = ?, with the value and
\* the secret version the rotation listed.
Reencrypt(s, seen, v, dek) ==
  IF seen # NoSecret /\ s.id = seen.id
    THEN [s EXCEPT !.keyVersion = v,
            !.box = Seal(seen.id, seen.version, v, dek, seen.box.value)]
    ELSE s

\* Mutant: the previous key row is left active.
SwitchKeepingActive(rows, v) ==
  [w \in Version |-> IF w = v THEN [rows[w] EXCEPT !.status = "active"]
                     ELSE rows[w]]

\* buildSwitchCurrentEnvironmentKeyStatements, the two status updates.
SwitchRows(rows, v) ==
  [w \in Version |->
     IF w = v THEN [rows[w] EXCEPT !.status = "active"]
     ELSE IF w + 1 = v THEN [rows[w] EXCEPT !.status = "retired"]
     ELSE rows[w]]

SwitchEnvKey(j) ==
  /\ At(j, "switch")
  /\ LET e == job[j].env
         v == job[j].version + 1
     IN  IF Live(e)
           THEN /\ secrets' = [secrets EXCEPT ![e] = [n \in Name |->
                     Reencrypt(secrets[e][n], job[j].snap[n], v, j)]]
                /\ envKeys' = [envKeys EXCEPT ![e] = SwitchRows(@, v)]
                /\ envs' = [envs EXCEPT ![e].current = v]
           ELSE UNCHANGED <<secrets, envKeys, envs>>
  /\ End(j)
  /\ UNCHANGED <<project, projectKeys, history>>

-----------------------------------------------------------------------------
(* rotateProjectKey; createProject ends with the same two writes *)

StartRotateProject(j) ==
  /\ At(j, "idle") /\ project.stage = "live"
  /\ project.current \in 1 .. (MaxVersion - 1)
  /\ job' = [job EXCEPT ![j] =
       [Begin(j, "rotateProject", "listKeys", NULL) EXCEPT
          !.version = project.current]]
  /\ UNCHANGED <<keys, secrets, history>>

ToRewrap(e, v) == IF ModeOf[e] = "CLOUD" THEN envKeys[e][v] ELSE NoEnvKey

\* listEnvironmentKeysByProject; every row must open under its recorded key.
ListEnvKeys(j) ==
  /\ At(j, "listKeys")
  /\ IF \A e \in Env, v \in Version :
          envKeys[e][v] = NoEnvKey \/ Unwraps(envKeys[e][v])
       THEN /\ job' = [job EXCEPT ![j].pc = "insertProjectKey",
                 ![j].keys = [e \in Env |-> [v \in Version |-> ToRewrap(e, v)]]]
            /\ UNCHANGED <<keys, secrets, history>>
       ELSE Fail(j)

StartCreateProject(j) ==
  /\ At(j, "idle") /\ project.stage = "none"
  /\ job' = [job EXCEPT ![j] =
               Begin(j, "createProject", "insertProject", NULL)]
  /\ UNCHANGED <<keys, secrets, history>>

\* INSERT INTO projects: the slug is still free. Another id is another project.
InsertProject(j) ==
  /\ At(j, "insertProject")
  /\ IF project.stage = "none"
       THEN /\ project' = [project EXCEPT !.stage = "live"]
            /\ Goto(j, "insertProjectKey")
            /\ UNCHANGED <<projectKeys, envs, envKeys, secrets, history>>
       ELSE Fail(j)

InsertProjectKey(j) ==
  /\ At(j, "insertProjectKey")
  /\ LET v == job[j].version + 1
     IN  IF project.stage = "live" /\ projectKeys[v] = NoProjectKey
           THEN /\ projectKeys' = [projectKeys EXCEPT
                     ![v] = [key |-> j, status |-> "active"]]
                /\ Goto(j, "switchProject")
                /\ UNCHANGED <<project, envs, envKeys, secrets, history>>
           ELSE Fail(j)

\* Mutant: the row keeps the project key version it had.
RewrapKeepingVersion(now, seen, v, key) ==
  IF seen # NoEnvKey /\ now # NoEnvKey
    THEN [now EXCEPT !.dek = seen.dek, !.by = key] ELSE now

\* buildRewrapEnvironmentKeyStatement: the listed DEK under the new key.
Rewrap(now, seen, v, key) ==
  IF seen # NoEnvKey /\ now # NoEnvKey
    THEN [now EXCEPT !.dek = seen.dek, !.by = key, !.under = v] ELSE now

SwitchProjectKey(j) ==
  /\ At(j, "switchProject")
  /\ LET v == job[j].version + 1
     IN  IF project.stage = "live"
           THEN /\ envKeys' = [e \in Env |-> [w \in Version |->
                     Rewrap(envKeys[e][w], job[j].keys[e][w], v, j)]]
                /\ projectKeys' = [w \in Version |->
                     IF w + 1 = v THEN [projectKeys[w] EXCEPT !.status = "retired"]
                     ELSE projectKeys[w]]
                /\ project' = [project EXCEPT !.current = v]
           ELSE UNCHANGED <<project, projectKeys, envKeys>>
  /\ End(j)
  /\ UNCHANGED <<envs, secrets, history>>

-----------------------------------------------------------------------------
(* Deletion: check, audit, cancel the live boots, then one cascading DELETE *)

StartDeleteEnv(j, e) ==
  /\ At(j, "idle") /\ Live(e)
  /\ job' = [job EXCEPT ![j] = Begin(j, "deleteEnv", "deleteEnv", e)]
  /\ UNCHANGED <<keys, secrets, history>>

StartDeleteProject(j) ==
  /\ At(j, "idle") /\ project.stage = "live"
  /\ job' = [job EXCEPT ![j] = Begin(j, "deleteProject", "deleteProject", NULL)]
  /\ UNCHANGED <<keys, secrets, history>>

NoRows == [v \in Version |-> NoEnvKey]

\* ON DELETE CASCADE from the rows of the environments in gone.
Cascade(gone) ==
  /\ envs' = [e \in Env |-> IF e \in gone /\ Live(e)
                              THEN [stage |-> "gone", current |-> 0] ELSE envs[e]]
  /\ envKeys' = [e \in Env |-> IF e \in gone THEN NoRows ELSE envKeys[e]]
  /\ secrets' = [e \in Env |-> IF e \in gone THEN [n \in Name |-> NoSecret]
                               ELSE secrets[e]]
  /\ acked' = [e \in Env |-> IF e \in gone THEN [n \in Name |-> NULL] ELSE acked[e]]
  /\ raced' = {en \in raced : en[1] \notin gone}

DeleteEnv(j) ==
  /\ At(j, "deleteEnv")
  /\ Cascade({job[j].env})
  /\ End(j)
  /\ UNCHANGED <<project, projectKeys>>

DeleteProject(j) ==
  /\ At(j, "deleteProject")
  /\ Cascade(Env)
  /\ project' = [stage |-> "gone", current |-> 0]
  /\ projectKeys' = [v \in Version |-> NoProjectKey]
  /\ End(j)

-----------------------------------------------------------------------------
(* approveCloudBoot: prepare in the boot's object, release the key here,   *)
(* complete in the object                                                  *)

StartApprove(j, e) ==
  /\ At(j, "idle") /\ HasKey(e)
  /\ job' = [job EXCEPT ![j] =
       [Begin(j, "approve", "snapshot", e) EXCEPT !.release = envs[e].current]]
  /\ UNCHANGED <<keys, secrets, history>>

\* Mutant: a secret under another key version does not stop the approval.
AllListed(rows, v) == TRUE

\* approvalState: every secret is under the key version read before it.
AllUnder(rows, v) ==
  \A n \in Name : rows[n] = NoSecret \/ rows[n].keyVersion = v

PrepareSnapshot(j) ==
  /\ At(j, "snapshot")
  /\ LET rows == secrets[job[j].env]
     IN  IF AllUnder(rows, job[j].release)
           THEN /\ job' = [job EXCEPT ![j].pc = "release", ![j].snap = rows]
                /\ UNCHANGED <<keys, secrets, history>>
           ELSE Fail(j)

\* createCloudKeyRelease: the version asked for is still current.
Release(j) ==
  /\ At(j, "release")
  /\ LET e == job[j].env
     IN  IF HasKey(e) /\ envs[e].current = job[j].release /\ ModeOf[e] = "CLOUD"
           THEN /\ job' = [job EXCEPT ![j].pc = "open",
                     ![j].version = envs[e].current,
                     ![j].row = envKeys[e][envs[e].current]]
                /\ UNCHANGED <<keys, secrets, history>>
           ELSE Fail(j)

\* The key that was opened is the one asked for, and is still current.
StillCurrent(j) ==
  /\ job[j].version = job[j].release
  /\ HasKey(job[j].env)
  /\ envs[job[j].env].current = job[j].release

\* The envelope is made here (recheck), and the object then reads the
\* environment again (complete).
Recheck(j) ==
  /\ \/ At(j, "recheck") /\ StillCurrent(j) /\ Goto(j, "complete")
     \/ At(j, "complete") /\ StillCurrent(j) /\ Goto(j, "hash")
     \/ At(j, "recheck") /\ ~StillCurrent(j) /\ End(j)
     \/ At(j, "complete") /\ ~StillCurrent(j) /\ End(j)
  /\ UNCHANGED <<keys, secrets, history>>

\* request.secretsDigest = secretsDigest.
SameSecrets(rows, seen) == rows = seen

\* completeApproval delivers the rows it reads with the envelope it was given.
Complete(j) ==
  /\ At(j, "hash")
  /\ LET rows == secrets[job[j].env]
     IN  IF AllUnder(rows, job[j].release) /\ SameSecrets(rows, job[j].snap)
           THEN /\ job' = [job EXCEPT ![j].pc = "delivered", ![j].snap = rows]
                /\ UNCHANGED <<keys, secrets, history>>
           ELSE Fail(j)

-----------------------------------------------------------------------------
(* The specification *)

\* What one environment holds once createEnvironment and a putSecret ended.
FirstSecret(n) ==
  [id |-> Genesis, version |-> 1, keyVersion |-> 1,
   box |-> Seal(Genesis, 1, 1, Genesis, Genesis)]

\* An empty deployment, or a project with its first key; environments in
\* populated hold a first key, and the secrets in set.
Start(hasProject, populated, set) ==
  /\ project = IF hasProject THEN [stage |-> "live", current |-> 1]
               ELSE [stage |-> "none", current |-> 0]
  /\ projectKeys = [v \in Version |->
       IF hasProject /\ v = 1 THEN [key |-> Genesis, status |-> "active"]
       ELSE NoProjectKey]
  /\ envs = [e \in Env |-> IF e \in populated THEN [stage |-> "live", current |-> 1]
                           ELSE [stage |-> "none", current |-> 0]]
  /\ envKeys = [e \in Env |-> [v \in Version |->
       IF e \in populated /\ v = 1
         THEN [dek |-> Genesis, by |-> Genesis, under |-> 1, status |-> "active"]
       ELSE NoEnvKey]]
  /\ secrets = [e \in Env |-> [n \in Name |->
       IF e \in populated /\ n \in set THEN FirstSecret(n) ELSE NoSecret]]
  /\ acked = [e \in Env |-> [n \in Name |->
       IF e \in populated /\ n \in set THEN Genesis ELSE NULL]]
  /\ raced = {}
  /\ job = [j \in Job |-> NoJob]

CloudEnvs == {e \in Env : ModeOf[e] = "CLOUD"}

Init ==
  \/ Start(FALSE, {}, {})
  \/ Start(TRUE, {}, {})
  \/ \E e \in CloudEnvs, set \in SUBSET Name : Start(TRUE, {e}, set)

Next ==
  \E j \in Job :
    \/ \E e \in Env :
         \/ \E names \in (SUBSET Name) \ {{}} : StartWrite(j, e, names)
         \/ \E n \in Name : StartRemove(j, e, n)
         \/ StartRotateEnv(j, e)
         \/ StartCreateEnv(j, e)
         \/ StartDeleteEnv(j, e)
         \/ StartApprove(j, e)
    \/ \E n \in Name : ReadSecret(j, n)
    \/ StartRotateProject(j)
    \/ StartCreateProject(j)
    \/ StartDeleteProject(j)
    \/ OpenProject(j)
    \/ Wrap(j)
    \/ WriteSecret(j)
    \/ RemoveSecret(j)
    \/ ListSecrets(j)
    \/ InsertEnv(j)
    \/ InsertEnvKey(j)
    \/ SwitchEnvKey(j)
    \/ ListEnvKeys(j)
    \/ InsertProject(j)
    \/ InsertProjectKey(j)
    \/ SwitchProjectKey(j)
    \/ DeleteEnv(j)
    \/ DeleteProject(j)
    \/ PrepareSnapshot(j)
    \/ Release(j)
    \/ Recheck(j)
    \/ Complete(j)

Spec == Init /\ [][Next]_vars

=============================================================================
