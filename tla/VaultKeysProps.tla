---------------------------- MODULE VaultKeysProps ----------------------------
(* What the vault promises, whatever calls overlap and wherever one stops. *)
EXTENDS VaultKeys

\* Every variable holds a value of its type.
TypeOK ==
  /\ project \in Holder
  /\ projectKeys \in [Version -> ProjectKey \cup {NoProjectKey}]
  /\ envs \in [Env -> Holder]
  /\ envKeys \in [Env -> [Version -> EnvKey \cup {NoEnvKey}]]
  /\ secrets \in [Env -> [Name -> Secret \cup {NoSecret}]]
  /\ job \in [Job -> JobState]
  /\ acked \in [Env -> [Name -> Maker \cup {NULL}]]
  /\ raced \subseteq Env \X Name

\* An environment key that is stored, current or retired, still opens: the
\* project key version it records is stored and is the key that wrapped it. A
\* project rotation may cross a rotation or a creation of an environment.
KeysOpen ==
  \A e \in Env, v \in Version :
    envKeys[e][v] # NoEnvKey =>
      projectKeys[envKeys[e][v].under].key = envKeys[e][v].by

\* Versions and statuses of one hierarchy level: the current version is stored
\* and active, the older ones are retired, and at most the next one is waiting
\* for its switch.
Ladder(current, has, status) ==
  /\ \A v \in Version : has[v] => v <= current + 1
  /\ \A v \in Version : v <= current => has[v]
  /\ \A v \in Version : has[v] =>
       status[v] = IF v < current THEN "retired" ELSE "active"

\* Both levels of the hierarchy are a ladder at every moment of every rotation:
\* no version is skipped, none comes back, and the one new values are sealed
\* under is never a retired one.
CurrentKeyActive ==
  /\ Ladder(project.current, [v \in Version |-> projectKeys[v] # NoProjectKey],
            [v \in Version |-> projectKeys[v].status])
  /\ \A e \in Env :
       Ladder(envs[e].current, [v \in Version |-> envKeys[e][v] # NoEnvKey],
              [v \in Version |-> envKeys[e][v].status])

\* The key version a secret's row records is stored, and is the key its
\* ciphertext is under: no rotation that raced a write leaves a row whose
\* column and ciphertext disagree about the key, or whose key is gone.
SealedUnderStoredKey ==
  \A e \in Env, n \in Name :
    LET s == secrets[e][n]
    IN  s # NoSecret => /\ s.box.id = s.id
                        /\ s.box.keyVersion = s.keyVersion
                        /\ s.box.dek = envKeys[e][s.keyVersion].dek

\* A write that was acknowledged is not lost: unless it crossed a rotation of
\* the environment key, the row holds the last acknowledged value and opens
\* under the key version it records.
NothingLost ==
  \A e \in Env, n \in Name :
    <<e, n>> \notin raced =>
      /\ (secrets[e][n] = NoSecret) <=> (acked[e][n] = NULL)
      /\ secrets[e][n] # NoSecret =>
           /\ Opens(secrets[e][n], envKeys[e][secrets[e][n].keyVersion].dek)
           /\ secrets[e][n].box.value = acked[e][n]

\* The secrets delivered with an approval are all sealed under the key in its
\* envelope: the reads of the environment, the key and the secrets are apart,
\* and rotations run between any two of them.
DeliveredUnderOneKey ==
  \A j \in Job : job[j].pc = "delivered" =>
    \A n \in Name : job[j].snap[n] # NoSecret =>
      /\ job[j].snap[n].keyVersion = job[j].version
      /\ job[j].snap[n].box.dek = job[j].row.dek

\* A stored environment key is only ever replaced by a wrapping of the same DEK,
\* and a current version only moves on to the next one: what is sealed under a
\* key stays readable until its environment is deleted.
KeysOnlyGrow ==
  [][\A e \in Env : Live(e) /\ Live(e)' =>
       /\ envs'[e].current \in {envs[e].current, envs[e].current + 1}
       /\ \A v \in Version : envKeys[e][v] # NoEnvKey =>
            envKeys'[e][v].dek = envKeys[e][v].dek]_vars

\* rotation.ts:7 says a reader sees either the old key with the old ciphertext
\* or the new key with the new ciphertext, never a mixture: every stored secret
\* opens under the environment's current key.
NeverMixture ==
  \A e \in Env, n \in Name :
    Live(e) /\ secrets[e][n] # NoSecret =>
      Opens(secrets[e][n], envKeys[e][envs[e].current].dek)

-----------------------------------------------------------------------------
(* The inductive invariant: the properties above are about the rows; a call  *)
(* writes on rows it read before, so IInv ties each call in flight to what   *)
(* the rows still are. A key row keeps its DEK, an environment that is gone  *)
(* stays gone, and versions only count up: that much no other call undoes.   *)

\* The environment key a call read is still that version's key, unless its
\* environment is gone.
RowHeld(j) ==
  LET c == job[j]
  IN  c.row # NoEnvKey =>
        /\ c.env \in Env /\ c.version \in Version /\ envs[c.env].stage # "none"
        /\ Live(c.env) => /\ c.version <= envs[c.env].current
                          /\ envKeys[c.env][c.version] # NoEnvKey
                          /\ envKeys[c.env][c.version].dek = c.row.dek

\* The project key a call wraps with is still stored.
WrapperHeld(j) ==
  LET w == job[j].wrapper
  IN  w.version # 0 =>
        /\ w.key \in Maker /\ project.stage # "none"
        /\ project.stage = "live" => projectKeys[w.version].key = w.key

\* Every environment key a project rotation listed still has its DEK.
ListHeld(j) ==
  \A e \in Env, v \in Version :
    LET seen == job[j].keys[e][v]
    IN  seen # NoEnvKey =>
          /\ envs[e].stage # "none"
          /\ Live(e) => envKeys[e][v] # NoEnvKey /\ envKeys[e][v].dek = seen.dek

\* A call that inserted a key version is the only one to switch to it: the next
\* version is its own, and the current one is still the one it read.
SwitchHeld(j) ==
  LET c == job[j]
  IN  /\ c.pc \in {"insertKey", "switch"} =>
           /\ envs[c.env].stage # "none"
           /\ Live(c.env) => c.version <= envs[c.env].current
      /\ c.pc = "switch" /\ Live(c.env) =>
           /\ envs[c.env].current = c.version
           /\ envKeys[c.env][c.version + 1].dek = j
      /\ c.pc \in {"listKeys", "insertProjectKey", "switchProject"} =>
           /\ project.stage # "none"
           /\ project.stage = "live" => c.version <= project.current
      /\ c.pc = "switchProject" /\ project.stage = "live" =>
           /\ project.current = c.version
           /\ projectKeys[c.version + 1].key = j

\* The values a key rotation will write back are the ones stored, but for the
\* secrets a write crossed.
ValuesHeld(j) ==
  LET c == job[j]
  IN  c.kind = "rotateEnv" /\ c.pc \in {"insertKey", "switch"} =>
        \A n \in Name :
          LET s == secrets[c.env][n]
          IN  /\ <<c.env, n>> \notin raced
              /\ c.snap[n] # NoSecret /\ s # NoSecret /\ s.id = c.snap[n].id
              => s.version = c.snap[n].version /\ s.box.value = c.snap[n].box.value

\* An environment id that is being created has no row before its INSERT, and
\* nothing to reseal.
CreateHeld(j) ==
  LET c == job[j]
  IN  c.kind = "createEnv" =>
        /\ c.env \in Env
        /\ c.pc \in {"wrap", "insertRow"} => envs[c.env].stage = "none"
        /\ \A n \in Name : c.snap[n] = NoSecret

OneCreator ==
  \A i, j \in Job :
    /\ job[i].kind = "createEnv" /\ job[j].kind = "createEnv"
    /\ job[i].env = job[j].env
    => i = j

\* What a call has read by the await it is suspended at.
Progress(j) ==
  LET c == job[j]
      opened == c.env \in Env /\ c.row # NoEnvKey
      wrapped == c.env \in Env /\ c.wrapper.version # 0
  IN  /\ c.pc = "open" => opened /\ c.kind \in {"write", "rotateEnv", "approve"}
      /\ c.pc = "wrap" => c.kind = "createEnv" \/ (c.kind = "rotateEnv" /\ opened)
      /\ c.pc \in {"read", "write", "recheck", "complete", "hash"} => opened
      /\ c.pc \in {"read", "write"} => c.kind = "write"
      /\ c.pc = "list" => opened /\ wrapped /\ c.kind = "rotateEnv"
      /\ c.pc = "insertRow" =>
           /\ c.kind = "createEnv" /\ c.env \in Env
           /\ ModeOf[c.env] = "CLOUD" => c.wrapper.version # 0
      /\ c.pc = "insertKey" =>
           /\ wrapped
           /\ c.kind = "createEnv" \/ (c.kind = "rotateEnv" /\ opened)
      /\ c.pc \in {"remove", "switch", "deleteEnv", "snapshot", "release"} =>
           c.env \in Env
      /\ c.pc \in {"write", "remove"} => c.name \in Name
      /\ c.kind \in {"createEnv", "createProject"} => c.version = 0
      /\ c.kind \in {"rotateEnv", "rotateProject"} => c.version < MaxVersion
      /\ c.pc \in {"insertKey", "switch"} => c.kind \in {"createEnv", "rotateEnv"}
      /\ c.pc = "insertProject" => c.kind = "createProject"
      /\ c.pc = "listKeys" => c.kind = "rotateProject"
      /\ c.pc \in {"insertProjectKey", "switchProject"} =>
           c.kind \in {"createProject", "rotateProject"}
      /\ c.pc \in {"snapshot", "release", "recheck", "complete", "hash"} =>
           c.kind = "approve"
      /\ c.pc \in {"complete", "hash"} => c.version = c.release

JobInv(j) ==
  /\ Progress(j) /\ RowHeld(j) /\ WrapperHeld(j) /\ ListHeld(j)
  /\ SwitchHeld(j) /\ ValuesHeld(j) /\ CreateHeld(j)

\* Nothing is stored below a row that is not there.
Nested ==
  /\ project.stage # "live" =>
       /\ project.current = 0
       /\ \A v \in Version : projectKeys[v] = NoProjectKey
       /\ \A e \in Env : ~Live(e)
  /\ \A e \in Env : ~Live(e) =>
       /\ envs[e].current = 0
       /\ \A v \in Version : envKeys[e][v] = NoEnvKey
       /\ \A n \in Name : secrets[e][n] = NoSecret

\* The rows fit each other, and every call in flight fits the rows.
IInv ==
  /\ TypeOK /\ Nested /\ KeysOpen /\ CurrentKeyActive /\ SealedUnderStoredKey
  /\ NothingLost /\ DeliveredUnderOneKey /\ OneCreator
  /\ \A j \in Job : JobInv(j)

=============================================================================
