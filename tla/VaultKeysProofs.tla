--------------------------- MODULE VaultKeysProofs ---------------------------
(***************************************************************************)
(* Proof that IInv is an invariant of VaultKeys for every number of calls, *)
(* environments, secrets and key versions, wherever a call stops, and the  *)
(* promises of VaultKeysProps that follow from it.                         *)
(*                                                                         *)
(* A step of call j is taken apart into what it does to the rows, to j     *)
(* itself, and to what the other calls rely on (ProjectKept, EnvsKept,     *)
(* OtherKept): they are suspended on rows they read before. Most steps     *)
(* change nothing but j (JobOnly); the writes are proved one by one.       *)
(***************************************************************************)
EXTENDS VaultKeysProps, TLAPS

-----------------------------------------------------------------------------
(* What a step leaves the other calls *)

\* The project does not come back, its version counts up, its keys stay.
ProjectKept ==
  project.stage # "none" =>
    /\ project'.stage # "none"
    /\ project'.stage = "live" =>
         /\ project.stage = "live"
         /\ project.current <= project'.current
         /\ \A v \in Version : projectKeys[v] # NoProjectKey =>
              projectKeys'[v].key = projectKeys[v].key

\* So for the environments, whose keys keep their DEK.
EnvKept(e) ==
  envs[e].stage # "none" =>
    /\ envs'[e].stage # "none"
    /\ Live(e)' =>
         /\ Live(e)
         /\ envs'[e].current \in {envs[e].current, envs[e].current + 1}
         /\ \A v \in Version : envKeys[e][v] # NoEnvKey =>
              /\ envKeys'[e][v] # NoEnvKey
              /\ envKeys'[e][v].dek = envKeys[e][v].dek

EnvsKept == \A e \in Env : EnvKept(e)

\* A secret that no write has crossed keeps its id, version and value.
ValueKept(e, n) ==
  LET s == secrets[e][n]
      t == secrets'[e][n]
  IN  <<e, n>> \notin raced' /\ t # NoSecret =>
        /\ <<e, n>> \notin raced /\ s # NoSecret
        /\ t.id = s.id /\ t.version = s.version /\ t.box.value = s.box.value

\* A call that is about to switch is not overtaken, one that is about to create
\* finds the id free, and one that holds values finds them unchanged.
OtherKept(k) ==
  LET c == job[k]
  IN  /\ job'[k] = c
      /\ c.pc = "switch" /\ Live(c.env)' => envs'[c.env].current = envs[c.env].current
      /\ c.pc = "switchProject" /\ project'.stage = "live" =>
           project'.current = project.current
      /\ c.kind = "createEnv" /\ c.pc \in {"wrap", "insertRow"} =>
           envs'[c.env].stage = "none"
      /\ c.kind = "rotateEnv" /\ c.pc \in {"insertKey", "switch"} =>
           \A n \in Name : ValueKept(c.env, n)

\* The part of DeliveredUnderOneKey that is about call j.
Delivered(j) ==
  job[j].pc = "delivered" =>
    \A n \in Name : job[j].snap[n] # NoSecret =>
      /\ job[j].snap[n].keyVersion = job[j].version
      /\ job[j].snap[n].box.dek = job[j].row.dek

\* Call j is the only one to create its environment.
OnlyCreator(j) ==
  job'[j].kind = "createEnv" =>
    \A k \in Job \ {j} : ~(job[k].kind = "createEnv" /\ job[k].env = job'[j].env)

RowsOK ==
  /\ project' \in Holder
  /\ projectKeys' \in [Version -> ProjectKey \cup {NoProjectKey}]
  /\ envs' \in [Env -> Holder]
  /\ envKeys' \in [Env -> [Version -> EnvKey \cup {NoEnvKey}]]
  /\ secrets' \in [Env -> [Name -> Secret \cup {NoSecret}]]
  /\ acked' \in [Env -> [Name -> Maker \cup {NULL}]]
  /\ raced' \subseteq Env \X Name
  /\ Nested' /\ KeysOpen' /\ CurrentKeyActive' /\ SealedUnderStoredKey' /\ NothingLost'

CallOK(j) ==
  /\ job' \in [Job -> JobState]
  /\ JobInv(j)' /\ Delivered(j)' /\ OnlyCreator(j)

OthersOK(j) == ProjectKept /\ EnvsKept /\ \A k \in Job \ {j} : OtherKept(k)

-----------------------------------------------------------------------------
(* Types *)

\* What stands for a missing row is no row.
LEMMA Missing ==
  /\ NULL \notin Maker
  /\ NoEnvKey \notin EnvKey /\ NoProjectKey \notin ProjectKey /\ NoSecret \notin Secret
BY VaultAssumption DEF Maker, NoEnvKey, EnvKey, NoProjectKey, ProjectKey, NoSecret, Secret

\* The parts of the invariant the steps below cite.
LEMMA Parts ==
  ASSUME IInv
  PROVE  /\ project \in Holder
         /\ projectKeys \in [Version -> ProjectKey \cup {NoProjectKey}]
         /\ envs \in [Env -> Holder]
         /\ envKeys \in [Env -> [Version -> EnvKey \cup {NoEnvKey}]]
         /\ secrets \in [Env -> [Name -> Secret \cup {NoSecret}]]
         /\ job \in [Job -> JobState]
         /\ acked \in [Env -> [Name -> Maker \cup {NULL}]]
         /\ raced \subseteq Env \X Name
         /\ Nested /\ KeysOpen /\ CurrentKeyActive /\ SealedUnderStoredKey
         /\ NothingLost /\ OneCreator /\ MaxVersion \in Nat \ {0}
         /\ \A j \in Job : JobInv(j) /\ Delivered(j)
BY VaultAssumption DEF IInv, TypeOK, DeliveredUnderOneKey, Delivered

\* The fields of a call.
LEMMA CallType ==
  ASSUME NEW c \in JobState
  PROVE  /\ c.pc \in PCs /\ c.kind \in Kinds /\ c.env \in Env \cup {NULL}
         /\ c.todo \subseteq Name /\ c.name \in Name \cup {NULL}
         /\ c.version \in 0 .. MaxVersion /\ c.row \in EnvKey \cup {NoEnvKey}
         /\ c.wrapper.version \in 0 .. MaxVersion /\ c.wrapper.key \in Maker \cup {NULL}
         /\ c.snap \in [Name -> Secret \cup {NoSecret}]
         /\ c.keys \in [Env -> [Version -> EnvKey \cup {NoEnvKey}]]
         /\ c.release \in 0 .. MaxVersion
BY DEF JobState

\* No call, also one that is done, is a call.
LEMMA NoCallType ==
  NoJob \in JobState /\ [NoJob EXCEPT !.pc = "done"] \in JobState
<1>1. 0 \in 0 .. MaxVersion
  BY VaultAssumption
<1>2. [version |-> 0, key |-> NULL] \in [version : 0 .. MaxVersion, key : Maker \cup {NULL}]
  BY <1>1
<1>3. [n \in Name |-> NoSecret] \in [Name -> Secret \cup {NoSecret}]
  OBVIOUS
<1>4. [e \in Env |-> [v \in Version |-> NoEnvKey]] \in [Env -> [Version -> EnvKey \cup {NoEnvKey}]]
  OBVIOUS
<1>5. "idle" \in PCs /\ "done" \in PCs /\ "none" \in Kinds
  BY DEF PCs, Kinds
<1>6. NoJob \in JobState
  BY <1>1, <1>2, <1>3, <1>4, <1>5 DEF NoJob, JobState
<1> QED
  BY <1>5, <1>6 DEF JobState

-----------------------------------------------------------------------------
(* Putting a step together *)

\* What a call holds, it still holds after a step that keeps the rows.
LEMMA StillHolds ==
  ASSUME IInv, RowsOK, ProjectKept, EnvsKept, NEW k \in Job
  PROVE  /\ /\ job'[k].row = job[k].row /\ job'[k].env = job[k].env
            /\ job'[k].version = job[k].version
            => RowHeld(k)'
         /\ job'[k].wrapper = job[k].wrapper => WrapperHeld(k)'
         /\ job'[k].keys = job[k].keys => ListHeld(k)'
<1> DEFINE c == job[k]
<1>1. /\ JobInv(k) /\ c \in JobState /\ MaxVersion \in Nat \ {0}
      /\ c.version \in 0 .. MaxVersion /\ c.row \in EnvKey \cup {NoEnvKey}
      /\ c.wrapper.version \in 0 .. MaxVersion
  BY Parts, CallType
<1>2. ASSUME job'[k].row = job[k].row, job'[k].env = job[k].env,
             job'[k].version = job[k].version
      PROVE  RowHeld(k)'
  <2>1. CASE c.row = NoEnvKey
    BY <1>2, <2>1 DEF RowHeld
  <2>2. CASE c.row # NoEnvKey
    <3>1. /\ c.env \in Env /\ c.version \in Version /\ envs[c.env].stage # "none"
          /\ Live(c.env) => /\ c.version <= envs[c.env].current
                            /\ envKeys[c.env][c.version] # NoEnvKey
                            /\ envKeys[c.env][c.version].dek = c.row.dek
      BY <1>1, <2>2 DEF RowHeld, JobInv
    <3>2. EnvKept(c.env) /\ envs[c.env].current \in Nat
      BY <3>1, Parts DEF EnvsKept, Holder
    <3> QED
      BY <1>1, <1>2, <3>1, <3>2 DEF RowHeld, EnvKept, Live
  <2> QED
    BY <2>1, <2>2
<1>3. ASSUME job'[k].wrapper = job[k].wrapper PROVE WrapperHeld(k)'
  <2>1. c.wrapper.version # 0 => c.wrapper.version \in Version
    BY <1>1 DEF Version
  <2>2. c.wrapper.version # 0 /\ project.stage = "live" =>
          projectKeys[c.wrapper.version] # NoProjectKey
    BY <1>1, <2>1, Missing DEF JobInv, WrapperHeld, NoProjectKey
  <2> QED
    BY <1>1, <1>3, <2>1, <2>2 DEF JobInv, WrapperHeld, ProjectKept
<1>4. ASSUME job'[k].keys = job[k].keys PROVE ListHeld(k)'
  BY <1>1, <1>4 DEF JobInv, ListHeld, EnvsKept, EnvKept, Live
<1> QED
  BY <1>2, <1>3, <1>4

\* A call that is suspended is not disturbed by a step that keeps what it
\* relies on.
LEMMA OtherCalls ==
  ASSUME IInv, RowsOK, ProjectKept, EnvsKept, NEW k \in Job, OtherKept(k)
  PROVE  JobInv(k)' /\ Delivered(k)'
<1> DEFINE c == job[k]
<1>1. /\ job'[k] = job[k] /\ JobInv(k) /\ Delivered(k) /\ job[k] \in JobState
      /\ MaxVersion \in Nat \ {0}
  BY Parts DEF OtherKept
<1>2. /\ c.version \in 0 .. MaxVersion /\ c.row \in EnvKey \cup {NoEnvKey}
      /\ c.wrapper.version \in 0 .. MaxVersion
      /\ c.keys \in [Env -> [Version -> EnvKey \cup {NoEnvKey}]]
      /\ c.snap \in [Name -> Secret \cup {NoSecret}]
  BY <1>1, CallType
<1>3. Progress(k)' /\ Delivered(k)'
  BY <1>1 DEF JobInv, Progress, Delivered
<1>4. RowHeld(k)' /\ WrapperHeld(k)' /\ ListHeld(k)'
  BY <1>1, StillHolds
<1>5. SwitchHeld(k)'
  <2>1. CASE c.pc \in {"insertKey", "switch"}
    <3>1. c.env \in Env
      BY <1>1, <2>1 DEF JobInv, Progress
    <3>2. /\ envs[c.env].stage # "none"
          /\ Live(c.env) => c.version <= envs[c.env].current
          /\ c.pc = "switch" /\ Live(c.env) =>
               /\ envs[c.env].current = c.version
               /\ envKeys[c.env][c.version + 1].dek = k
      BY <1>1, <2>1 DEF JobInv, SwitchHeld
    <3>3. EnvKept(c.env) /\ envs[c.env].current \in Nat
      BY <3>1, Parts DEF EnvsKept, Holder
    <3>4. c.pc = "switch" /\ Live(c.env) =>
            c.version + 1 \in Version /\ envKeys[c.env][c.version + 1] # NoEnvKey
      BY <1>1, <1>2, <2>1, <3>2, Missing DEF JobInv, Progress, Version, NoEnvKey, Maker
    <3> QED
      BY <1>1, <1>2, <2>1, <3>1, <3>2, <3>3, <3>4 DEF SwitchHeld, EnvKept, Live, OtherKept
  <2>2. CASE c.pc \in {"listKeys", "insertProjectKey", "switchProject"}
    <3>1. /\ project.stage # "none"
          /\ project.stage = "live" => c.version <= project.current
          /\ c.pc = "switchProject" /\ project.stage = "live" =>
               /\ project.current = c.version
               /\ projectKeys[c.version + 1].key = k
      BY <1>1, <2>2 DEF JobInv, SwitchHeld
    <3>2. c.pc = "switchProject" /\ project.stage = "live" =>
            c.version + 1 \in Version /\ projectKeys[c.version + 1] # NoProjectKey
      BY <1>1, <1>2, <2>2, <3>1, Missing DEF JobInv, Progress, Version, NoProjectKey, Maker
    <3>3. project.current \in Nat /\ project'.current \in Nat
      BY Parts DEF Holder, RowsOK
    <3> QED
      BY <1>1, <1>2, <2>2, <3>1, <3>2, <3>3 DEF SwitchHeld, ProjectKept, OtherKept
  <2> QED
    BY <1>1, <2>1, <2>2 DEF SwitchHeld
<1>6. ValuesHeld(k)'
  BY <1>1 DEF JobInv, ValuesHeld, OtherKept, ValueKept
<1>7. CreateHeld(k)'
  BY <1>1 DEF JobInv, CreateHeld, OtherKept
<1> QED
  BY <1>3, <1>4, <1>5, <1>6, <1>7 DEF JobInv

\* A step of call j keeps the invariant if each of its parts does.
LEMMA Combine ==
  ASSUME IInv, NEW j \in Job, RowsOK, CallOK(j), OthersOK(j)
  PROVE  IInv'
<1>1. TypeOK'
  BY DEF TypeOK, RowsOK, CallOK
<1>2. \A k \in Job : JobInv(k)' /\ Delivered(k)'
  <2> SUFFICES ASSUME NEW k \in Job PROVE JobInv(k)' /\ Delivered(k)'
    OBVIOUS
  <2>1. CASE k = j
    BY <2>1 DEF CallOK
  <2>2. CASE k # j
    BY <2>2, OtherCalls DEF OthersOK
  <2> QED
    BY <2>1, <2>2
<1>3. OneCreator'
  <2>1. \A k \in Job \ {j} : job'[k] = job[k]
    BY DEF OthersOK, OtherKept
  <2> QED
    BY <2>1, Parts DEF OneCreator, CallOK, OnlyCreator
<1>4. DeliveredUnderOneKey'
  BY <1>2 DEF DeliveredUnderOneKey, Delivered
<1> QED
  BY <1>1, <1>2, <1>3, <1>4 DEF IInv, RowsOK

\* Rows that a step leaves alone stay as good, and keep what they kept.
LEMMA RowsSame ==
  ASSUME IInv, UNCHANGED <<keys, secrets, history>>
  PROVE  RowsOK /\ ProjectKept /\ EnvsKept
<1> USE DEF keys, history
<1>1. RowsOK
  BY Parts DEF RowsOK, Nested, KeysOpen, CurrentKeyActive, Ladder, SealedUnderStoredKey,
     NothingLost, Live
<1>2. ProjectKept
  BY Parts DEF ProjectKept, Holder
<1>3. EnvsKept
  BY Parts DEF EnvsKept, EnvKept, Live
<1> QED
  BY <1>1, <1>2, <1>3

\* A step that changes nothing but call j.
LEMMA JobOnly ==
  ASSUME IInv, NEW j \in Job, NEW new \in JobState,
         UNCHANGED <<keys, secrets, history>>, job' = [job EXCEPT ![j] = new],
         JobInv(j)', Delivered(j)', OnlyCreator(j)
  PROVE  IInv' /\ EnvsKept
<1>1. RowsOK /\ ProjectKept /\ EnvsKept
  BY RowsSame
<1>2. CallOK(j)
  BY Parts DEF CallOK
<1>3. ASSUME NEW k \in Job \ {j} PROVE OtherKept(k)
  <2>1. JobInv(k) /\ job'[k] = job[k]
    BY Parts
  <2>2. /\ project' = project /\ envs' = envs /\ secrets' = secrets /\ raced' = raced
    BY DEF keys, history
  <2> QED
    BY <2>1, <2>2 DEF OtherKept, ValueKept, JobInv, CreateHeld
<1> QED
  BY <1>1, <1>2, <1>3, Combine DEF OthersOK

-----------------------------------------------------------------------------
(* The end of a call, and steps that only read *)

LEMMA EndOK ==
  ASSUME IInv, NEW j \in Job, End(j)
  PROVE  CallOK(j) /\ \A k \in Job \ {j} : job'[k] = job[k]
<1>1. /\ job' \in [Job -> JobState] /\ \A k \in Job \ {j} : job'[k] = job[k]
      /\ job'[j] = [NoJob EXCEPT !.pc = "done"]
  BY Parts, NoCallType DEF End
<1>2. /\ job'[j].pc = "done" /\ job'[j].kind = "none" /\ job'[j].row = NoEnvKey
      /\ job'[j].wrapper.version = 0 /\ job'[j].version = 0
      /\ \A e \in Env, v \in Version : job'[j].keys[e][v] = NoEnvKey
  BY <1>1 DEF NoJob
<1>3. JobInv(j)'
  BY <1>2 DEF JobInv, Progress, RowHeld, WrapperHeld, ListHeld, SwitchHeld, ValuesHeld, CreateHeld
<1>4. Delivered(j)' /\ OnlyCreator(j)
  BY <1>2 DEF Delivered, OnlyCreator
<1> QED
  BY <1>1, <1>3, <1>4 DEF CallOK

LEMMA FailStep ==
  ASSUME IInv, NEW j \in Job, Fail(j)
  PROVE  IInv' /\ EnvsKept
<1>1. CallOK(j) /\ End(j) /\ UNCHANGED <<keys, secrets, history>>
  BY EndOK DEF Fail
<1> QED
  BY <1>1, NoCallType, JobOnly DEF End, CallOK


\* The ladders of CurrentKeyActive, spelled out.
LEMMA EnvLadder ==
  ASSUME IInv, NEW e \in Env, NEW v \in Version
  PROVE  /\ envs[e].current \in Nat /\ v \in Nat
         /\ envKeys[e][v] # NoEnvKey =>
              /\ v <= envs[e].current + 1
              /\ envKeys[e][v].status = IF v < envs[e].current THEN "retired" ELSE "active"
         /\ v <= envs[e].current => envKeys[e][v] # NoEnvKey
         /\ envKeys[e][v] # NoEnvKey => envKeys[e][v] \in EnvKey
<1> DEFINE has == [w \in Version |-> envKeys[e][w] # NoEnvKey]
<1>1. Ladder(envs[e].current, has, [w \in Version |-> envKeys[e][w].status])
  BY Parts DEF CurrentKeyActive
<1>2. has[v] <=> envKeys[e][v] # NoEnvKey
  OBVIOUS
<1> QED
  BY <1>1, <1>2, Parts DEF Ladder, Holder, Version

LEMMA ProjectLadder ==
  ASSUME IInv, NEW v \in Version
  PROVE  /\ project.current \in Nat /\ v \in Nat
         /\ projectKeys[v] # NoProjectKey =>
              /\ v <= project.current + 1
              /\ projectKeys[v].status = IF v < project.current THEN "retired" ELSE "active"
         /\ v <= project.current => projectKeys[v] # NoProjectKey
         /\ projectKeys[v] # NoProjectKey => projectKeys[v] \in ProjectKey
<1> DEFINE has == [w \in Version |-> projectKeys[w] # NoProjectKey]
<1>1. Ladder(project.current, has, [w \in Version |-> projectKeys[w].status])
  BY Parts DEF CurrentKeyActive
<1>2. has[v] <=> projectKeys[v] # NoProjectKey
  OBVIOUS
<1> QED
  BY <1>1, <1>2, Parts DEF Ladder, Holder, Version

\* The current key of an environment is there.
LEMMA CurrentKey ==
  ASSUME IInv, NEW e \in Env, HasKey(e)
  PROVE  /\ Live(e) /\ envs[e].current \in Version /\ envs[e].current \in Nat
         /\ envKeys[e][envs[e].current] # NoEnvKey
         /\ envKeys[e][envs[e].current] \in EnvKey
<1>1. Live(e) /\ envs[e].current \in Version /\ envs[e].current \in Nat
  BY Parts DEF HasKey, Holder, Version
<1> QED
  BY <1>1, EnvLadder

\* A call as it starts: nothing read, no key, no wrapper.
LEMMA BeginCall ==
  ASSUME NEW j \in Job, NEW kind \in Kinds, NEW pc \in PCs, NEW e \in Env \cup {NULL}
  PROVE  \E c \in JobState :
           /\ c = Begin(j, kind, pc, e)
           /\ c.pc = pc /\ c.kind = kind /\ c.env = e /\ c.version = 0
           /\ c.row = NoEnvKey /\ c.wrapper.version = 0
           /\ c.keys = [f \in Env |-> [v \in Version |-> NoEnvKey]]
           /\ c.snap = [n \in Name |-> NoSecret]
<1>1. PICK z : z = NoJob
  OBVIOUS
<1>2. /\ z \in JobState /\ z.version = 0 /\ z.row = NoEnvKey /\ z.wrapper.version = 0
      /\ z.snap = [n \in Name |-> NoSecret]
      /\ z.keys = [f \in Env |-> [v \in Version |-> NoEnvKey]]
  BY <1>1, NoCallType DEF NoJob
<1>3. Begin(j, kind, pc, e) = [z EXCEPT !.kind = kind, !.pc = pc, !.env = e]
  BY <1>1 DEF Begin
<1> QED
  BY ZenonT(60), <1>2, <1>3 DEF JobState

\* What a call holds that has no wrapper and no list, or kept what it had.
LEMMA HoldsNone ==
  ASSUME NEW j \in Job, job'[j].wrapper.version = 0,
         job'[j].keys = [f \in Env |-> [v \in Version |-> NoEnvKey]]
  PROVE  WrapperHeld(j)' /\ ListHeld(j)'
BY DEF WrapperHeld, ListHeld

LEMMA HoldsSame ==
  ASSUME IInv, NEW j \in Job, UNCHANGED <<keys, secrets, history>>
  PROVE  /\ job'[j].wrapper = job[j].wrapper => WrapperHeld(j)'
         /\ job'[j].keys = job[j].keys => ListHeld(j)'
         /\ /\ job'[j].row = job[j].row /\ job'[j].env = job[j].env
            /\ job'[j].version = job[j].version
            => RowHeld(j)'
BY RowsSame, StillHolds

\* A call that starts on no key.
LEMMA Started ==
  ASSUME IInv, NEW j \in Job, NEW new \in JobState,
         UNCHANGED <<keys, secrets, history>>, job' = [job EXCEPT ![j] = new],
         new.row = NoEnvKey, new.wrapper.version = 0,
         new.keys = [f \in Env |-> [v \in Version |-> NoEnvKey]],
         new.pc \notin {"insertKey", "switch", "delivered"},
         Progress(j)', SwitchHeld(j)', CreateHeld(j)', OnlyCreator(j)
  PROVE  IInv' /\ EnvsKept
<1>1. job'[j] = new
  BY Parts
<1>2. RowHeld(j)' /\ ValuesHeld(j)' /\ Delivered(j)'
  BY <1>1 DEF RowHeld, ValuesHeld, Delivered
<1>3. JobInv(j)'
  BY <1>1, <1>2, HoldsNone DEF JobInv
<1> QED
  BY <1>2, <1>3, JobOnly

\* A call that reads the current key of a live environment.
LEMMA ReadsKey ==
  ASSUME IInv, NEW j \in Job, NEW e \in Env, NEW new \in JobState, HasKey(e),
         UNCHANGED <<keys, secrets, history>>, job' = [job EXCEPT ![j] = new],
         new.env = e, new.version = envs[e].current,
         new.row = envKeys[e][envs[e].current], new.pc = "open",
         new.kind \in {"write", "rotateEnv", "approve"},
         new.kind = "rotateEnv" => envs[e].current < MaxVersion,
         WrapperHeld(j)', ListHeld(j)'
  PROVE  IInv' /\ EnvsKept
<1>1. job'[j] = new /\ UNCHANGED <<envs, envKeys>>
  BY Parts DEF keys
<1>2. RowHeld(j)' /\ Progress(j)'
  BY <1>1, CurrentKey DEF RowHeld, Progress, Live
<1>3. SwitchHeld(j)' /\ ValuesHeld(j)' /\ CreateHeld(j)' /\ Delivered(j)' /\ OnlyCreator(j)
  BY <1>1 DEF SwitchHeld, ValuesHeld, CreateHeld, Delivered, OnlyCreator
<1> QED
  BY <1>2, <1>3, JobOnly DEF JobInv

\* A call that goes on with the key and the environment it has.
LEMMA Continues ==
  ASSUME IInv, NEW j \in Job, NEW new \in JobState,
         UNCHANGED <<keys, secrets, history>>, job' = [job EXCEPT ![j] = new],
         new.row = job[j].row, new.env = job[j].env, new.version = job[j].version,
         new.kind = job[j].kind,
         Progress(j)', WrapperHeld(j)', ListHeld(j)', SwitchHeld(j)', ValuesHeld(j)',
         CreateHeld(j)', Delivered(j)'
  PROVE  IInv' /\ EnvsKept
<1>1. job'[j] = new
  BY Parts
<1>2. RowHeld(j)'
  BY <1>1, HoldsSame
<1>3. OnlyCreator(j)
  BY <1>1, Parts DEF OnlyCreator, OneCreator
<1> QED
  BY <1>2, <1>3, JobOnly DEF JobInv

-----------------------------------------------------------------------------
(* The first step of each call *)

LEMMA StartWriteStep ==
  ASSUME IInv, NEW j \in Job, NEW e \in Env, NEW names \in SUBSET Name, StartWrite(j, e, names)
  PROVE  IInv' /\ EnvsKept
<1>1. PICK b \in JobState :
        /\ b = Begin(j, "write", "open", e)
        /\ b.pc = "open" /\ b.kind = "write" /\ b.env = e /\ b.version = 0
        /\ b.row = NoEnvKey /\ b.wrapper.version = 0
        /\ b.keys = [f \in Env |-> [v \in Version |-> NoEnvKey]]
  <2>1. "write" \in Kinds /\ "open" \in PCs /\ e \in Env \cup {NULL}
    BY DEF Kinds, PCs
  <2> QED
    BY <2>1, BeginCall
<1>2. PICK new : new = [b EXCEPT !.todo = names,
          !.version = envs[e].current, !.row = envKeys[e][envs[e].current]]
  OBVIOUS
<1>3. /\ HasKey(e) /\ envs[e].current \in 0 .. MaxVersion
      /\ envKeys[e][envs[e].current] \in EnvKey \cup {NoEnvKey}
  BY CurrentKey DEF StartWrite, Version
<1>4. new \in JobState
  BY ZenonT(60), <1>1, <1>2, <1>3 DEF JobState
<1>5. /\ new.pc = "open" /\ new.kind = "write" /\ new.env = e
      /\ new.version = envs[e].current /\ new.row = envKeys[e][envs[e].current]
      /\ new.wrapper.version = 0 /\ new.keys = [f \in Env |-> [v \in Version |-> NoEnvKey]]
  BY <1>1, <1>2 DEF JobState
<1>6. /\ job' = [job EXCEPT ![j] = new] /\ job'[j] = new
      /\ UNCHANGED <<keys, secrets, history>>
      /\ new.kind = "rotateEnv" => envs[e].current < MaxVersion
  BY <1>1, <1>2, <1>5, Parts DEF StartWrite
<1> QED
  BY <1>3, <1>4, <1>5, <1>6, HoldsNone, ReadsKey

LEMMA StartRotateEnvStep ==
  ASSUME IInv, NEW j \in Job, NEW e \in Env, StartRotateEnv(j, e)
  PROVE  IInv' /\ EnvsKept
<1>1. PICK b \in JobState :
        /\ b = Begin(j, "rotateEnv", "open", e)
        /\ b.pc = "open" /\ b.kind = "rotateEnv" /\ b.env = e /\ b.version = 0
        /\ b.row = NoEnvKey /\ b.wrapper.version = 0
        /\ b.keys = [f \in Env |-> [v \in Version |-> NoEnvKey]]
  <2>1. "rotateEnv" \in Kinds /\ "open" \in PCs /\ e \in Env \cup {NULL}
    BY DEF Kinds, PCs
  <2> QED
    BY <2>1, BeginCall
<1>2. PICK new : new = [b EXCEPT 
          !.version = envs[e].current, !.row = envKeys[e][envs[e].current]]
  OBVIOUS
<1>3. /\ HasKey(e) /\ envs[e].current \in 0 .. MaxVersion
      /\ envKeys[e][envs[e].current] \in EnvKey \cup {NoEnvKey}
  BY CurrentKey DEF StartRotateEnv, Version
<1>4. new \in JobState
  BY ZenonT(60), <1>1, <1>2, <1>3 DEF JobState
<1>5. /\ new.pc = "open" /\ new.kind = "rotateEnv" /\ new.env = e
      /\ new.version = envs[e].current /\ new.row = envKeys[e][envs[e].current]
      /\ new.wrapper.version = 0 /\ new.keys = [f \in Env |-> [v \in Version |-> NoEnvKey]]
  BY <1>1, <1>2 DEF JobState
<1>6. /\ job' = [job EXCEPT ![j] = new] /\ job'[j] = new
      /\ UNCHANGED <<keys, secrets, history>>
      /\ new.kind = "rotateEnv" => envs[e].current < MaxVersion
  BY <1>1, <1>2, <1>5, Parts DEF StartRotateEnv
<1> QED
  BY <1>3, <1>4, <1>5, <1>6, HoldsNone, ReadsKey

LEMMA StartRemoveStep ==
  ASSUME IInv, NEW j \in Job, NEW e \in Env, NEW n \in Name, StartRemove(j, e, n)
  PROVE  IInv' /\ EnvsKept
<1>1. PICK b \in JobState :
        /\ b = Begin(j, "remove", "remove", e)
        /\ b.pc = "remove" /\ b.kind = "remove" /\ b.env = e /\ b.version = 0
        /\ b.row = NoEnvKey /\ b.wrapper.version = 0
        /\ b.keys = [f \in Env |-> [v \in Version |-> NoEnvKey]]
  <2>1. "remove" \in Kinds /\ "remove" \in PCs /\ e \in Env \cup {NULL}
    BY DEF Kinds, PCs
  <2> QED
    BY <2>1, BeginCall
<1>2. PICK new : new = [b EXCEPT !.name = n]
  OBVIOUS
<1>3. new \in JobState
  BY <1>1, <1>2 DEF JobState
<1>4. /\ new.pc = "remove" /\ new.kind = "remove" /\ new.env = e /\ new.row = NoEnvKey
      /\ new.wrapper.version = 0 /\ new.keys = [f \in Env |-> [v \in Version |-> NoEnvKey]]
      /\ new.name = n
  BY <1>1, <1>2 DEF JobState
<1>5. /\ job' = [job EXCEPT ![j] = new] /\ job'[j] = new
      /\ UNCHANGED <<keys, secrets, history>>
  BY <1>1, <1>2, Parts DEF StartRemove
<1>6. Progress(j)' /\ SwitchHeld(j)' /\ CreateHeld(j)' /\ OnlyCreator(j)
  BY <1>4, <1>5 DEF Progress, SwitchHeld, CreateHeld, OnlyCreator, keys
<1> QED
  BY <1>3, <1>4, <1>5, <1>6, Started

LEMMA StartRotateProjectStep ==
  ASSUME IInv, NEW j \in Job, StartRotateProject(j)
  PROVE  IInv' /\ EnvsKept
<1>1. PICK b \in JobState :
        /\ b = Begin(j, "rotateProject", "listKeys", NULL)
        /\ b.pc = "listKeys" /\ b.kind = "rotateProject" /\ b.env = NULL /\ b.version = 0
        /\ b.row = NoEnvKey /\ b.wrapper.version = 0
        /\ b.keys = [f \in Env |-> [v \in Version |-> NoEnvKey]]
  <2>1. "rotateProject" \in Kinds /\ "listKeys" \in PCs /\ NULL \in Env \cup {NULL}
    BY DEF Kinds, PCs
  <2> QED
    BY <2>1, BeginCall
<1>2. PICK new : new = [b EXCEPT !.version = project.current]
  OBVIOUS
<1>3. new \in JobState
  BY ZenonT(60), <1>1, <1>2, Parts DEF JobState, Holder
<1>4. /\ new.pc = "listKeys" /\ new.kind = "rotateProject" /\ new.env = NULL /\ new.row = NoEnvKey
      /\ new.wrapper.version = 0 /\ new.keys = [f \in Env |-> [v \in Version |-> NoEnvKey]]
      /\ new.version = project.current
  BY <1>1, <1>2 DEF JobState
<1>5. /\ job' = [job EXCEPT ![j] = new] /\ job'[j] = new
      /\ UNCHANGED <<keys, secrets, history>>
  BY <1>1, <1>2, Parts DEF StartRotateProject
<1>6. Progress(j)' /\ SwitchHeld(j)' /\ CreateHeld(j)' /\ OnlyCreator(j)
  <2>1. /\ project.stage = "live" /\ project.current < MaxVersion
        /\ project.current <= project.current /\ project' = project
    BY Parts DEF StartRotateProject, Holder, keys
  <2> QED
    BY <1>4, <1>5, <2>1 DEF Progress, SwitchHeld, CreateHeld, OnlyCreator
<1> QED
  BY <1>3, <1>4, <1>5, <1>6, Started

LEMMA StartCreateProjectStep ==
  ASSUME IInv, NEW j \in Job, StartCreateProject(j)
  PROVE  IInv' /\ EnvsKept
<1>1. PICK b \in JobState :
        /\ b = Begin(j, "createProject", "insertProject", NULL)
        /\ b.pc = "insertProject" /\ b.kind = "createProject" /\ b.env = NULL /\ b.version = 0
        /\ b.row = NoEnvKey /\ b.wrapper.version = 0
        /\ b.keys = [f \in Env |-> [v \in Version |-> NoEnvKey]]
  <2>1. "createProject" \in Kinds /\ "insertProject" \in PCs /\ NULL \in Env \cup {NULL}
    BY DEF Kinds, PCs
  <2> QED
    BY <2>1, BeginCall
<1>2. PICK new : new = b
  OBVIOUS
<1>3. new \in JobState
  BY <1>1, <1>2 DEF JobState
<1>4. /\ new.pc = "insertProject" /\ new.kind = "createProject" /\ new.env = NULL /\ new.row = NoEnvKey
      /\ new.wrapper.version = 0 /\ new.keys = [f \in Env |-> [v \in Version |-> NoEnvKey]]
      /\ new.version = 0
  BY <1>1, <1>2 DEF JobState
<1>5. /\ job' = [job EXCEPT ![j] = new] /\ job'[j] = new
      /\ UNCHANGED <<keys, secrets, history>>
  BY <1>1, <1>2, Parts DEF StartCreateProject
<1>6. Progress(j)' /\ SwitchHeld(j)' /\ CreateHeld(j)' /\ OnlyCreator(j)
  BY <1>4, <1>5 DEF Progress, SwitchHeld, CreateHeld, OnlyCreator, keys
<1> QED
  BY <1>3, <1>4, <1>5, <1>6, Started

LEMMA StartDeleteProjectStep ==
  ASSUME IInv, NEW j \in Job, StartDeleteProject(j)
  PROVE  IInv' /\ EnvsKept
<1>1. PICK b \in JobState :
        /\ b = Begin(j, "deleteProject", "deleteProject", NULL)
        /\ b.pc = "deleteProject" /\ b.kind = "deleteProject" /\ b.env = NULL /\ b.version = 0
        /\ b.row = NoEnvKey /\ b.wrapper.version = 0
        /\ b.keys = [f \in Env |-> [v \in Version |-> NoEnvKey]]
  <2>1. "deleteProject" \in Kinds /\ "deleteProject" \in PCs /\ NULL \in Env \cup {NULL}
    BY DEF Kinds, PCs
  <2> QED
    BY <2>1, BeginCall
<1>2. PICK new : new = b
  OBVIOUS
<1>3. new \in JobState
  BY <1>1, <1>2 DEF JobState
<1>4. /\ new.pc = "deleteProject" /\ new.kind = "deleteProject" /\ new.env = NULL /\ new.row = NoEnvKey
      /\ new.wrapper.version = 0 /\ new.keys = [f \in Env |-> [v \in Version |-> NoEnvKey]]
  BY <1>1, <1>2 DEF JobState
<1>5. /\ job' = [job EXCEPT ![j] = new] /\ job'[j] = new
      /\ UNCHANGED <<keys, secrets, history>>
  BY <1>1, <1>2, Parts DEF StartDeleteProject
<1>6. Progress(j)' /\ SwitchHeld(j)' /\ CreateHeld(j)' /\ OnlyCreator(j)
  BY <1>4, <1>5 DEF Progress, SwitchHeld, CreateHeld, OnlyCreator, keys
<1> QED
  BY <1>3, <1>4, <1>5, <1>6, Started

LEMMA StartDeleteEnvStep ==
  ASSUME IInv, NEW j \in Job, NEW e \in Env, StartDeleteEnv(j, e)
  PROVE  IInv' /\ EnvsKept
<1>1. PICK b \in JobState :
        /\ b = Begin(j, "deleteEnv", "deleteEnv", e)
        /\ b.pc = "deleteEnv" /\ b.kind = "deleteEnv" /\ b.env = e /\ b.version = 0
        /\ b.row = NoEnvKey /\ b.wrapper.version = 0
        /\ b.keys = [f \in Env |-> [v \in Version |-> NoEnvKey]]
  <2>1. "deleteEnv" \in Kinds /\ "deleteEnv" \in PCs /\ e \in Env \cup {NULL}
    BY DEF Kinds, PCs
  <2> QED
    BY <2>1, BeginCall
<1>2. PICK new : new = b
  OBVIOUS
<1>3. new \in JobState
  BY <1>1, <1>2 DEF JobState
<1>4. /\ new.pc = "deleteEnv" /\ new.kind = "deleteEnv" /\ new.env = e /\ new.row = NoEnvKey
      /\ new.wrapper.version = 0 /\ new.keys = [f \in Env |-> [v \in Version |-> NoEnvKey]]
  BY <1>1, <1>2 DEF JobState
<1>5. /\ job' = [job EXCEPT ![j] = new] /\ job'[j] = new
      /\ UNCHANGED <<keys, secrets, history>>
  BY <1>1, <1>2, Parts DEF StartDeleteEnv
<1>6. Progress(j)' /\ SwitchHeld(j)' /\ CreateHeld(j)' /\ OnlyCreator(j)
  BY <1>4, <1>5 DEF Progress, SwitchHeld, CreateHeld, OnlyCreator, keys
<1> QED
  BY <1>3, <1>4, <1>5, <1>6, Started

LEMMA StartApproveStep ==
  ASSUME IInv, NEW j \in Job, NEW e \in Env, StartApprove(j, e)
  PROVE  IInv' /\ EnvsKept
<1>1. PICK b \in JobState :
        /\ b = Begin(j, "approve", "snapshot", e)
        /\ b.pc = "snapshot" /\ b.kind = "approve" /\ b.env = e /\ b.version = 0
        /\ b.row = NoEnvKey /\ b.wrapper.version = 0
        /\ b.keys = [f \in Env |-> [v \in Version |-> NoEnvKey]]
  <2>1. "approve" \in Kinds /\ "snapshot" \in PCs /\ e \in Env \cup {NULL}
    BY DEF Kinds, PCs
  <2> QED
    BY <2>1, BeginCall
<1>2. PICK new : new = [b EXCEPT !.release = envs[e].current]
  OBVIOUS
<1>3. new \in JobState
  BY ZenonT(60), <1>1, <1>2, Parts DEF JobState, Holder
<1>4. /\ new.pc = "snapshot" /\ new.kind = "approve" /\ new.env = e /\ new.row = NoEnvKey
      /\ new.wrapper.version = 0 /\ new.keys = [f \in Env |-> [v \in Version |-> NoEnvKey]]
  BY <1>1, <1>2 DEF JobState
<1>5. /\ job' = [job EXCEPT ![j] = new] /\ job'[j] = new
      /\ UNCHANGED <<keys, secrets, history>>
  BY <1>1, <1>2, Parts DEF StartApprove
<1>6. Progress(j)' /\ SwitchHeld(j)' /\ CreateHeld(j)' /\ OnlyCreator(j)
  BY <1>4, <1>5, Parts DEF Progress, SwitchHeld, CreateHeld, OnlyCreator, keys
<1> QED
  BY <1>3, <1>4, <1>5, <1>6, Started

LEMMA StartCreateEnvStep ==
  ASSUME IInv, NEW j \in Job, NEW e \in Env, StartCreateEnv(j, e)
  PROVE  IInv' /\ EnvsKept
<1>1. PICK pc : pc = IF ModeOf[e] = "COLD" THEN "insertRow" ELSE "wrap"
  OBVIOUS
<1>2. PICK new \in JobState :
        /\ new = Begin(j, "createEnv", pc, e)
        /\ new.pc = pc /\ new.kind = "createEnv" /\ new.env = e /\ new.version = 0
        /\ new.row = NoEnvKey /\ new.wrapper.version = 0
        /\ new.keys = [f \in Env |-> [v \in Version |-> NoEnvKey]]
        /\ new.snap = [n \in Name |-> NoSecret]
  <2>1. "createEnv" \in Kinds /\ pc \in PCs /\ e \in Env \cup {NULL}
    BY <1>1 DEF Kinds, PCs
  <2> QED
    BY <2>1, BeginCall
<1>3. /\ job' = [job EXCEPT ![j] = new] /\ job'[j] = new /\ envs[e].stage = "none"
      /\ UNCHANGED <<keys, secrets, history>>
      /\ \A i \in Job : ~(job[i].kind = "createEnv" /\ job[i].env = e)
  BY <1>1, <1>2, Parts DEF StartCreateEnv
<1>4. Progress(j)' /\ SwitchHeld(j)' /\ CreateHeld(j)' /\ OnlyCreator(j)
  BY <1>1, <1>2, <1>3, VaultAssumption DEF Progress, SwitchHeld, CreateHeld, OnlyCreator, keys
<1> QED
  BY <1>1, <1>2, <1>3, <1>4, Started

-----------------------------------------------------------------------------
(* The later reads *)

LEMMA OpenProjectStep ==
  ASSUME IInv, NEW j \in Job, OpenProject(j)
  PROVE  IInv' /\ EnvsKept
<1>1. CASE Unwraps(job[j].row)
  <2>1. PICK c \in JobState : c = job[j]
    BY Parts
  <2>2. /\ c.pc = "open" /\ c.env \in Env /\ c.row # NoEnvKey
        /\ c.kind \in {"write", "rotateEnv", "approve"}
        /\ c.kind = "rotateEnv" => c.version < MaxVersion
    BY <2>1, Parts DEF OpenProject, At, JobInv, Progress
  <2>3. PICK pc : pc = AfterOpen[c.kind]
    OBVIOUS
  <2>4. /\ pc \in PCs /\ pc \in {"read", "wrap", "recheck"}
        /\ pc = "wrap" => c.kind = "rotateEnv"
        /\ pc = "recheck" => c.kind = "approve"
        /\ pc = "read" => c.kind = "write"
    BY <2>2, <2>3 DEF AfterOpen, PCs
  <2>5. PICK new : new = [c EXCEPT !.pc = pc]
    OBVIOUS
  <2>6. /\ new \in JobState /\ new.pc = pc /\ new.kind = c.kind /\ new.env = c.env
        /\ new.row = c.row /\ new.version = c.version /\ new.wrapper = c.wrapper
        /\ new.keys = c.keys
    BY <2>4, <2>5 DEF JobState
  <2>7. /\ job' = [job EXCEPT ![j] = new] /\ job'[j] = new
        /\ UNCHANGED <<keys, secrets, history>>
    BY <1>1, <2>1, <2>3, <2>5, Parts DEF OpenProject, Goto
  <2>8. WrapperHeld(j)' /\ ListHeld(j)'
    BY <2>1, <2>6, <2>7, HoldsSame
  <2>9. /\ Progress(j)' /\ SwitchHeld(j)' /\ ValuesHeld(j)' /\ CreateHeld(j)'
        /\ Delivered(j)'
    BY <2>2, <2>4, <2>6, <2>7
    DEF Progress, SwitchHeld, ValuesHeld, CreateHeld, Delivered
  <2> QED
    BY <2>1, <2>6, <2>7, <2>8, <2>9, Continues
<1>2. CASE ~Unwraps(job[j].row)
  BY <1>2, FailStep DEF OpenProject
<1> QED
  BY <1>1, <1>2

LEMMA WrapStep ==
  ASSUME IInv, NEW j \in Job, Wrap(j)
  PROVE  IInv' /\ EnvsKept
<1>1. CASE project.stage = "live" /\ project.current # 0
  <2>1. PICK c \in JobState : c = job[j]
    BY Parts
  <2>2. PICK pc : pc = IF c.kind = "createEnv" THEN "insertRow" ELSE "list"
    OBVIOUS
  <2>3. /\ c.pc = "wrap" /\ c.kind \in {"createEnv", "rotateEnv"} /\ c.env \in Env
        /\ c.kind = "rotateEnv" => c.row # NoEnvKey /\ c.version < MaxVersion
        /\ c.kind = "createEnv" => c.version = 0 /\ envs[c.env].stage = "none"
        /\ c.kind = "createEnv" => \A n \in Name : c.snap[n] = NoSecret
        /\ pc \in PCs
    BY <2>1, <2>2, Parts DEF Wrap, At, JobInv, Progress, CreateHeld, PCs
  <2>4. PICK w : w = [version |-> project.current, key |-> projectKeys[project.current].key]
    OBVIOUS
  <2>5. /\ w \in [version : 0 .. MaxVersion, key : Maker \cup {NULL}]
        /\ w.version # 0 /\ w.key \in Maker /\ w.version = project.current
        /\ w.key = projectKeys[project.current].key
    <3>1. project.current \in Version /\ project.current \in 0 .. MaxVersion
      BY <1>1, Parts DEF Holder, Version
    <3>2. projectKeys[project.current].key \in Maker
      BY <3>1, ProjectLadder DEF ProjectKey
    <3> QED
      BY <1>1, <2>4, <3>1, <3>2
  <2>6. PICK new : new = [c EXCEPT !.wrapper = w, !.pc = pc]
    OBVIOUS
  <2>7. /\ new \in JobState /\ new.pc = pc /\ new.kind = c.kind /\ new.env = c.env
        /\ new.row = c.row /\ new.version = c.version /\ new.wrapper = w
        /\ new.keys = c.keys /\ new.snap = c.snap
    BY <2>3, <2>5, <2>6 DEF JobState
  <2>8. /\ job' = [job EXCEPT ![j] = new] /\ job'[j] = new
        /\ UNCHANGED <<keys, secrets, history>>
    BY <1>1, <2>1, <2>2, <2>4, <2>6, Parts DEF Wrap
  <2>9. WrapperHeld(j)' /\ ListHeld(j)'
    <3>1. WrapperHeld(j)'
      BY <1>1, <2>5, <2>7, <2>8 DEF WrapperHeld, keys
    <3> QED
      BY <3>1, <2>1, <2>7, <2>8, HoldsSame
  <2>10. /\ Progress(j)' /\ SwitchHeld(j)' /\ ValuesHeld(j)' /\ CreateHeld(j)'
         /\ Delivered(j)'
    BY <2>2, <2>3, <2>5, <2>7, <2>8
    DEF Progress, SwitchHeld, ValuesHeld, CreateHeld, Delivered, keys
  <2> QED
    BY <2>1, <2>7, <2>8, <2>9, <2>10, Continues
<1>2. CASE ~(project.stage = "live" /\ project.current # 0)
  BY <1>2, FailStep DEF Wrap
<1> QED
  BY <1>1, <1>2

LEMMA ReadSecretStep ==
  ASSUME IInv, NEW j \in Job, NEW n \in Name, ReadSecret(j, n)
  PROVE  IInv' /\ EnvsKept
<1>1. PICK c \in JobState : c = job[j]
  BY Parts
<1>2. c.pc = "read" /\ c.kind = "write" /\ c.env \in Env /\ c.row # NoEnvKey
  BY <1>1, Parts DEF ReadSecret, At, JobInv, Progress
<1>3. PICK seen : seen = [c.snap EXCEPT ![n] = secrets[c.env][n]]
  OBVIOUS
<1>4. seen \in [Name -> Secret \cup {NoSecret}]
  BY <1>2, <1>3, CallType, Parts
<1>5. PICK new : new = [c EXCEPT !.pc = "write", !.name = n, !.snap = seen]
  OBVIOUS
<1>6. /\ new \in JobState /\ new.pc = "write" /\ new.kind = c.kind /\ new.env = c.env
      /\ new.row = c.row /\ new.version = c.version /\ new.wrapper = c.wrapper
      /\ new.keys = c.keys /\ new.name = n
  <2>1. "write" \in PCs
    BY DEF PCs
  <2> QED
    BY <1>4, <1>5, <2>1 DEF JobState
<1>7. /\ job' = [job EXCEPT ![j].pc = "write", ![j].name = n,
                           ![j].snap[n] = secrets[job[j].env][n]]
      /\ UNCHANGED <<keys, secrets, history>>
  BY DEF ReadSecret
<1>8. job' = [job EXCEPT ![j] = new] /\ job'[j] = new
  <2>1. job' = [job EXCEPT ![j].pc = "write", ![j].name = n, ![j].snap = seen]
    BY ONLY <1>1, <1>3, <1>7
  <2> QED
    BY <1>1, <1>5, <2>1, Parts
<1>9. WrapperHeld(j)' /\ ListHeld(j)'
  BY <1>1, <1>6, <1>7, <1>8, HoldsSame
<1>10. /\ Progress(j)' /\ SwitchHeld(j)' /\ ValuesHeld(j)' /\ CreateHeld(j)'
       /\ Delivered(j)'
  <2>1. JobInv(j)
    BY Parts
  <2> QED
    BY <1>1, <1>2, <1>6, <1>7, <1>8, <2>1
    DEF Progress, SwitchHeld, ValuesHeld, CreateHeld, Delivered, JobInv, keys
<1> QED
  BY <1>1, <1>6, <1>7, <1>8, <1>9, <1>10, Continues

LEMMA ListSecretsStep ==
  ASSUME IInv, NEW j \in Job, ListSecrets(j)
  PROVE  IInv' /\ EnvsKept
<1>1. PICK c \in JobState : c = job[j]
  BY Parts
<1>2. /\ c.pc = "list" /\ c.env \in Env /\ c.row # NoEnvKey /\ c.kind = "rotateEnv"
      /\ c.wrapper.version # 0 /\ c.version < MaxVersion
  BY <1>1, Parts DEF ListSecrets, At, JobInv, Progress
<1>3. CASE \A n \in Name : \/ secrets[c.env][n] = NoSecret
                           \/ Opens(secrets[c.env][n], c.row.dek)
  <2>1. PICK new : new = [c EXCEPT !.pc = "insertKey", !.snap = secrets[c.env]]
    OBVIOUS
  <2>2. "insertKey" \in PCs /\ secrets[c.env] \in [Name -> Secret \cup {NoSecret}]
    BY <1>2, Parts DEF PCs
  <2>3. /\ new \in JobState /\ new.pc = "insertKey" /\ new.kind = c.kind /\ new.env = c.env
        /\ new.row = c.row /\ new.version = c.version /\ new.wrapper = c.wrapper
        /\ new.keys = c.keys /\ new.snap = secrets[c.env]
    BY <2>1, <2>2 DEF JobState
  <2>4. /\ job' = [job EXCEPT ![j] = new] /\ job'[j] = new
        /\ UNCHANGED <<keys, secrets, history>>
    BY <1>1, <1>3, <2>1, Parts DEF ListSecrets
  <2>5. WrapperHeld(j)' /\ ListHeld(j)'
    BY <1>1, <2>3, <2>4, HoldsSame
  <2>6. Progress(j)' /\ CreateHeld(j)' /\ Delivered(j)' /\ ValuesHeld(j)'
    BY <1>2, <2>3, <2>4 DEF Progress, CreateHeld, Delivered, ValuesHeld
  <2>7. SwitchHeld(j)'
    <3>1. RowHeld(j)
      BY Parts DEF JobInv
    <3> QED
      BY <1>1, <1>2, <2>3, <2>4, <3>1 DEF SwitchHeld, RowHeld, Live, keys
  <2> QED
    BY <1>1, <2>3, <2>4, <2>5, <2>6, <2>7, Continues
<1>4. CASE ~\A n \in Name : \/ secrets[c.env][n] = NoSecret
                            \/ Opens(secrets[c.env][n], c.row.dek)
  BY <1>1, <1>4, FailStep DEF ListSecrets
<1> QED
  BY <1>3, <1>4

LEMMA ListEnvKeysStep ==
  ASSUME IInv, NEW j \in Job, ListEnvKeys(j)
  PROVE  IInv' /\ EnvsKept
<1>1. PICK c \in JobState : c = job[j]
  BY Parts
<1>2. /\ c.pc = "listKeys" /\ project.stage # "none"
      /\ project.stage = "live" => c.version <= project.current
  BY <1>1, Parts DEF ListEnvKeys, At, JobInv, SwitchHeld
<1>3. CASE \A e \in Env, v \in Version :
             envKeys[e][v] = NoEnvKey \/ Unwraps(envKeys[e][v])
  <2>1. PICK seen : seen = [e \in Env |-> [v \in Version |-> ToRewrap(e, v)]]
    OBVIOUS
  <2>2. PICK new : new = [c EXCEPT !.pc = "insertProjectKey", !.keys = seen]
    OBVIOUS
  <2>3. /\ "insertProjectKey" \in PCs
        /\ seen \in [Env -> [Version -> EnvKey \cup {NoEnvKey}]]
    BY <2>1, Parts DEF PCs, ToRewrap
  <2>4. /\ new \in JobState /\ new.pc = "insertProjectKey" /\ new.kind = c.kind
        /\ new.env = c.env /\ new.row = c.row /\ new.version = c.version
        /\ new.wrapper = c.wrapper /\ new.keys = seen
    BY <2>2, <2>3 DEF JobState
  <2>5. /\ job' = [job EXCEPT ![j] = new] /\ job'[j] = new
        /\ UNCHANGED <<keys, secrets, history>>
    BY <1>1, <1>3, <2>1, <2>2, Parts DEF ListEnvKeys
  <2>6. WrapperHeld(j)'
    BY <1>1, <2>4, <2>5, HoldsSame
  <2>7. ListHeld(j)'
    <3>1. ASSUME NEW e \in Env, NEW v \in Version, envKeys[e][v] # NoEnvKey
          PROVE  Live(e)
      BY <3>1, Parts DEF Nested
    <3> QED
      BY <2>1, <2>4, <2>5, <3>1 DEF ListHeld, ToRewrap, Live, keys
  <2>8. Progress(j)' /\ CreateHeld(j)'
    BY <1>1, <1>2, <2>4, <2>5, Parts DEF Progress, CreateHeld, JobInv, keys
  <2>9. Delivered(j)' /\ ValuesHeld(j)' /\ SwitchHeld(j)'
    BY <1>2, <2>4, <2>5 DEF Delivered, ValuesHeld, SwitchHeld, keys
  <2> QED
    BY <1>1, <2>4, <2>5, <2>6, <2>7, <2>8, <2>9, Continues
<1>4. CASE ~\A e \in Env, v \in Version :
             envKeys[e][v] = NoEnvKey \/ Unwraps(envKeys[e][v])
  BY <1>1, <1>4, FailStep DEF ListEnvKeys
<1> QED
  BY <1>3, <1>4

LEMMA PrepareSnapshotStep ==
  ASSUME IInv, NEW j \in Job, PrepareSnapshot(j)
  PROVE  IInv' /\ EnvsKept
<1>1. PICK c \in JobState : c = job[j]
  BY Parts
<1>2. c.pc = "snapshot" /\ c.env \in Env /\ JobInv(j)
  BY <1>1, Parts DEF PrepareSnapshot, At, JobInv, Progress
<1>3. CASE AllUnder(secrets[c.env], c.release)
  <2>1. PICK new : new = [c EXCEPT !.pc = "release", !.snap = secrets[c.env]]
    OBVIOUS
  <2>2. "release" \in PCs /\ secrets[c.env] \in [Name -> Secret \cup {NoSecret}]
    BY <1>2, Parts DEF PCs
  <2>3. /\ new \in JobState /\ new.pc = "release" /\ new.kind = c.kind /\ new.env = c.env
        /\ new.row = c.row /\ new.version = c.version /\ new.wrapper = c.wrapper
        /\ new.keys = c.keys
    BY <2>1, <2>2 DEF JobState
  <2>4. /\ job' = [job EXCEPT ![j] = new] /\ job'[j] = new
        /\ UNCHANGED <<keys, secrets, history>>
    BY <1>1, <1>3, <2>1, Parts DEF PrepareSnapshot
  <2>5. WrapperHeld(j)' /\ ListHeld(j)'
    BY <1>1, <2>3, <2>4, HoldsSame
  <2>6. /\ Progress(j)' /\ SwitchHeld(j)' /\ ValuesHeld(j)' /\ CreateHeld(j)'
        /\ Delivered(j)'
    BY <1>1, <1>2, <2>3, <2>4
    DEF Progress, SwitchHeld, ValuesHeld, CreateHeld, Delivered, JobInv, keys
  <2> QED
    BY <1>1, <2>3, <2>4, <2>5, <2>6, Continues
<1>4. CASE ~AllUnder(secrets[c.env], c.release)
  BY <1>1, <1>4, FailStep DEF PrepareSnapshot
<1> QED
  BY <1>3, <1>4

LEMMA ReleaseStep ==
  ASSUME IInv, NEW j \in Job, Release(j)
  PROVE  IInv' /\ EnvsKept
<1>1. PICK c \in JobState : c = job[j]
  BY Parts
<1>2. c.pc = "release" /\ c.env \in Env /\ JobInv(j)
  BY <1>1, Parts DEF Release, At, JobInv, Progress
<1> DEFINE ok == /\ HasKey(c.env) /\ envs[c.env].current = c.release
                 /\ ModeOf[c.env] = "CLOUD"
<1>3. CASE ok /\ c.kind = "approve"
  <2>1. PICK new : new = [c EXCEPT !.pc = "open", !.version = envs[c.env].current,
                                   !.row = envKeys[c.env][envs[c.env].current]]
    OBVIOUS
  <2>2. /\ "open" \in PCs /\ envs[c.env].current \in 0 .. MaxVersion
        /\ envKeys[c.env][envs[c.env].current] \in EnvKey \cup {NoEnvKey}
    BY <1>2, <1>3, CurrentKey DEF PCs, Version
  <2>3. /\ new \in JobState /\ new.pc = "open" /\ new.kind = c.kind /\ new.env = c.env
        /\ new.row = envKeys[c.env][envs[c.env].current]
        /\ new.version = envs[c.env].current /\ new.wrapper = c.wrapper
        /\ new.keys = c.keys
    BY <2>1, <2>2 DEF JobState
  <2>4. /\ job' = [job EXCEPT ![j] = new] /\ job'[j] = new
        /\ UNCHANGED <<keys, secrets, history>>
    BY <1>1, <1>3, <2>1, Parts DEF Release
  <2>5. WrapperHeld(j)' /\ ListHeld(j)'
    BY <1>1, <2>3, <2>4, HoldsSame
  <2> QED
    BY <1>2, <1>3, <2>3, <2>4, <2>5, ReadsKey
<1>4. CASE ~ok
  BY <1>1, <1>4, FailStep DEF Release
<1>5. c.kind = "approve"
  BY <1>1, <1>2 DEF JobInv, Progress
<1> QED
  BY <1>3, <1>4, <1>5

LEMMA RecheckStep ==
  ASSUME IInv, NEW j \in Job, Recheck(j)
  PROVE  IInv' /\ EnvsKept
<1>1. PICK c \in JobState : c = job[j]
  BY Parts
<1>2. CASE /\ c.pc \in {"recheck", "complete"} /\ StillCurrent(j)
           /\ \/ c.pc = "recheck" /\ Goto(j, "complete")
              \/ c.pc = "complete" /\ Goto(j, "hash")
  <2>1. /\ JobInv(j) /\ c.env \in Env /\ c.row # NoEnvKey /\ c.version = c.release
        /\ c.kind = "approve"
    BY <1>1, <1>2, Parts DEF JobInv, Progress, StillCurrent
  <2>2. PICK pc \in {"complete", "hash"} : Goto(j, pc)
    BY <1>2
  <2>3. PICK new : new = [c EXCEPT !.pc = pc]
    OBVIOUS
  <2>4. pc \in PCs
    BY DEF PCs
  <2>5. /\ new \in JobState /\ new.pc = pc /\ new.kind = c.kind /\ new.env = c.env
        /\ new.row = c.row /\ new.version = c.version /\ new.wrapper = c.wrapper
        /\ new.keys = c.keys /\ new.release = c.release
    BY <2>3, <2>4 DEF JobState
  <2>6. /\ job' = [job EXCEPT ![j] = new] /\ job'[j] = new
        /\ UNCHANGED <<keys, secrets, history>>
    BY <1>1, <2>2, <2>3, Parts DEF Recheck, Goto
  <2>7. WrapperHeld(j)' /\ ListHeld(j)'
    BY <1>1, <2>5, <2>6, HoldsSame
  <2>8. /\ Progress(j)' /\ SwitchHeld(j)' /\ ValuesHeld(j)' /\ CreateHeld(j)'
        /\ Delivered(j)'
    BY <2>1, <2>5, <2>6 DEF Progress, SwitchHeld, ValuesHeld, CreateHeld, Delivered
  <2> QED
    BY <1>1, <2>5, <2>6, <2>7, <2>8, Continues
<1>3. CASE End(j)
  BY <1>3, FailStep DEF Recheck, Fail
<1> QED
  BY <1>1, <1>2, <1>3 DEF Recheck, At

\* The secrets that are delivered are under the key that was opened: they are
\* stored under the version asked for, whose key keeps its DEK.
LEMMA CompleteStep ==
  ASSUME IInv, NEW j \in Job, Complete(j)
  PROVE  IInv' /\ EnvsKept
<1>1. PICK c \in JobState : c = job[j]
  BY Parts
<1>2. /\ c.pc = "hash" /\ c.env \in Env /\ JobInv(j) /\ c.row # NoEnvKey
      /\ c.version = c.release /\ c.kind = "approve"
  BY <1>1, Parts DEF Complete, At, JobInv, Progress
<1> DEFINE rows == secrets[c.env]
           ok == AllUnder(rows, c.release) /\ SameSecrets(rows, c.snap)
<1>3. CASE ok
  <2>1. PICK new : new = [c EXCEPT !.pc = "delivered", !.snap = secrets[c.env]]
    OBVIOUS
  <2>2. "delivered" \in PCs /\ secrets[c.env] \in [Name -> Secret \cup {NoSecret}]
    BY <1>2, Parts DEF PCs
  <2>3. /\ new \in JobState /\ new.pc = "delivered" /\ new.kind = c.kind /\ new.env = c.env
        /\ new.row = c.row /\ new.version = c.version /\ new.wrapper = c.wrapper
        /\ new.keys = c.keys /\ new.snap = secrets[c.env]
    BY <2>1, <2>2 DEF JobState
  <2>4. /\ job' = [job EXCEPT ![j] = new] /\ job'[j] = new
        /\ UNCHANGED <<keys, secrets, history>>
    BY <1>1, <1>3, <2>1, Parts DEF Complete
  <2>5. WrapperHeld(j)' /\ ListHeld(j)'
    BY <1>1, <2>3, <2>4, HoldsSame
  <2>6. Progress(j)' /\ SwitchHeld(j)' /\ ValuesHeld(j)' /\ CreateHeld(j)'
    BY <1>1, <1>2, <2>3, <2>4
    DEF Progress, SwitchHeld, ValuesHeld, CreateHeld, JobInv, keys
  <2>7. Delivered(j)'
    <3>1. ASSUME NEW n \in Name, secrets[c.env][n] # NoSecret
          PROVE  /\ secrets[c.env][n].keyVersion = c.version
                 /\ secrets[c.env][n].box.dek = c.row.dek
      <4>1. secrets[c.env][n].keyVersion = c.version
        BY <1>2, <1>3, <3>1 DEF AllUnder
      <4>2. Live(c.env)
        BY <1>2, <3>1, Parts DEF Nested
      <4>3. envKeys[c.env][c.version].dek = c.row.dek
        BY <1>1, <1>2, <4>2 DEF JobInv, RowHeld
      <4> QED
        BY <1>2, <3>1, <4>1, <4>3, Parts DEF SealedUnderStoredKey
    <3> QED
      BY <2>3, <2>4, <3>1 DEF Delivered
  <2> QED
    BY <1>1, <2>3, <2>4, <2>5, <2>6, <2>7, Continues
<1>4. CASE ~ok
  BY <1>1, <1>4, FailStep DEF Complete
<1> QED
  BY <1>3, <1>4

-----------------------------------------------------------------------------
(* The ladders after a step, rung by rung *)

EnvRung(e, v) ==
  /\ envKeys[e][v] # NoEnvKey =>
       /\ v <= envs[e].current + 1
       /\ envKeys[e][v].status = IF v < envs[e].current THEN "retired" ELSE "active"
  /\ v <= envs[e].current => envKeys[e][v] # NoEnvKey

ProjectRung(v) ==
  /\ projectKeys[v] # NoProjectKey =>
       /\ v <= project.current + 1
       /\ projectKeys[v].status = IF v < project.current THEN "retired" ELSE "active"
  /\ v <= project.current => projectKeys[v] # NoProjectKey

LEMMA Rungs ==
  ASSUME \A v \in Version : ProjectRung(v)',
         \A e \in Env, v \in Version : EnvRung(e, v)'
  PROVE  CurrentKeyActive'
<1>1. Ladder(project.current, [v \in Version |-> projectKeys[v] # NoProjectKey],
             [v \in Version |-> projectKeys[v].status])'
  BY DEF ProjectRung, Ladder
<1>2. ASSUME NEW e \in Env
      PROVE  Ladder(envs[e].current, [v \in Version |-> envKeys[e][v] # NoEnvKey],
                    [v \in Version |-> envKeys[e][v].status])'
  BY DEF EnvRung, Ladder
<1> QED
  BY <1>1, <1>2 DEF CurrentKeyActive

LEMMA RungsHold ==
  ASSUME IInv
  PROVE  /\ \A v \in Version : ProjectRung(v)
         /\ \A e \in Env, v \in Version : EnvRung(e, v)
BY EnvLadder, ProjectLadder DEF EnvRung, ProjectRung

\* A step that leaves the keys alone.
LEMMA KeysSame ==
  ASSUME IInv, UNCHANGED keys
  PROVE  /\ KeysOpen' /\ CurrentKeyActive' /\ ProjectKept /\ EnvsKept
         /\ project' \in Holder
         /\ projectKeys' \in [Version -> ProjectKey \cup {NoProjectKey}]
         /\ envs' \in [Env -> Holder]
         /\ envKeys' \in [Env -> [Version -> EnvKey \cup {NoEnvKey}]]
<1> USE DEF keys
<1>1. KeysOpen' /\ CurrentKeyActive'
  BY Parts DEF KeysOpen, CurrentKeyActive, Ladder
<1>2. ProjectKept
  BY Parts DEF ProjectKept, Holder
<1>3. EnvsKept
  BY Parts DEF EnvsKept, EnvKept, Live
<1> QED
  BY <1>1, <1>2, <1>3, Parts

-----------------------------------------------------------------------------
(* Writes to the secrets *)

LEMMA RemoveSecretStep ==
  ASSUME IInv, NEW j \in Job, RemoveSecret(j)
  PROVE  IInv' /\ EnvsKept
<1>1. PICK e \in Env, n \in Name : e = job[j].env /\ n = job[j].name
  BY Parts DEF RemoveSecret, At, JobInv, Progress
<1>2. /\ secrets' = [secrets EXCEPT ![e][n] = NoSecret]
      /\ acked' = [acked EXCEPT ![e][n] = NULL] /\ raced' = raced \ {<<e, n>>}
      /\ End(j) /\ UNCHANGED keys
  BY <1>1 DEF RemoveSecret
<1>3. /\ secrets' \in [Env -> [Name -> Secret \cup {NoSecret}]]
      /\ acked' \in [Env -> [Name -> Maker \cup {NULL}]] /\ raced' \subseteq Env \X Name
  BY <1>2, Parts
<1>4. ASSUME NEW f \in Env, NEW m \in Name
      PROVE  \/ <<f, m>> = <<e, n>> /\ secrets'[f][m] = NoSecret /\ acked'[f][m] = NULL
             \/ /\ secrets'[f][m] = secrets[f][m] /\ acked'[f][m] = acked[f][m]
                /\ <<f, m>> \in raced' <=> <<f, m>> \in raced
  BY <1>2, Parts
<1>5. RowsOK
  <2>1. Nested'
    BY <1>2, <1>4, Parts DEF Nested, keys, Live
  <2>2. SealedUnderStoredKey'
    BY <1>2, <1>4, Parts DEF SealedUnderStoredKey, keys
  <2>3. NothingLost'
    BY <1>2, <1>4, Parts DEF NothingLost, Opens, keys
  <2> QED
    BY <1>2, <1>3, <2>1, <2>2, <2>3, KeysSame DEF RowsOK
<1>6. CallOK(j) /\ \A k \in Job \ {j} : job'[k] = job[k]
  BY <1>2, EndOK
<1>7. ASSUME NEW k \in Job \ {j} PROVE OtherKept(k)
  <2>1. JobInv(k) /\ job'[k] = job[k] /\ project' = project /\ envs' = envs
    BY <1>2, <1>6, Parts DEF keys
  <2>2. ASSUME job[k].kind = "rotateEnv", job[k].pc \in {"insertKey", "switch"},
               NEW m \in Name
        PROVE  ValueKept(job[k].env, m)
    <3>1. job[k].env \in Env
      BY <2>1, <2>2 DEF JobInv, Progress
    <3> QED
      BY <3>1, <1>4 DEF ValueKept
  <2> QED
    BY <2>1, <2>2 DEF OtherKept, JobInv, CreateHeld
<1> QED
  BY <1>2, <1>5, <1>6, <1>7, KeysSame, Combine DEF OthersOK

\* What a write leaves opens under the key version it records, and is acknowledged.
LEMMA WriteSecretStep ==
  ASSUME IInv, NEW j \in Job, WriteSecret(j)
  PROVE  IInv' /\ EnvsKept
<1>1. PICK c \in JobState : c = job[j]
  BY Parts
<1>2. /\ c.pc = "write" /\ c.kind = "write" /\ c.env \in Env /\ c.name \in Name
      /\ c.row # NoEnvKey /\ JobInv(j)
  BY <1>1, Parts DEF WriteSecret, At, JobInv, Progress
<1>3. PICK e \in Env, n \in Name : e = c.env /\ n = c.name
  BY <1>2
<1>4. PICK old, seen : old = secrets[e][n] /\ seen = c.snap[n]
  OBVIOUS
<1>5. /\ old \in Secret \cup {NoSecret} /\ seen \in Secret \cup {NoSecret}
      /\ c.version \in 0 .. MaxVersion /\ c.row \in EnvKey
  BY <1>2, <1>3, <1>4, CallType, Parts
<1>6. CASE Live(e) /\ Replaces(old, seen)
  <2>1. PICK s : s = Written(j, old, seen)
    OBVIOUS
  <2>2. PICK id : id = IF seen = NoSecret THEN j ELSE seen.id
    OBVIOUS
  <2>3. /\ id \in Maker /\ old.version \in Nat /\ seen.version = old.version
        /\ c.version \in Version /\ c.row.dek \in Maker /\ j \in Maker
        /\ envKeys[e][c.version].dek = c.row.dek
    <3>1. id \in Maker /\ j \in Maker
      BY <1>5, <2>2, Missing DEF Maker, Secret
    <3>2. old.version \in Nat /\ seen.version = old.version
      BY <1>5, <1>6 DEF Secret, NoSecret, Replaces
    <3>3. c.version \in Version /\ envKeys[e][c.version].dek = c.row.dek
      BY <1>1, <1>2, <1>3, <1>6 DEF JobInv, RowHeld
    <3> QED
      BY <1>5, <3>1, <3>2, <3>3 DEF EnvKey
  <2>4. s = [id |-> id, version |-> old.version + 1, keyVersion |-> c.version,
             box |-> [id |-> id, version |-> old.version + 1, keyVersion |-> c.version,
                      dek |-> c.row.dek, value |-> j]]
    BY <1>1, <2>1, <2>2, <2>3 DEF Written, Seal
  <2>5. s \in Secret /\ s # NoSecret
    BY <2>3, <2>4, Missing DEF Secret, Box
  <2>6. Opens(s, envKeys[e][s.keyVersion].dek) /\ s.box.value = j
    BY SMTT(40), <2>3, <2>4 DEF Opens, Seal
  <2>7. /\ secrets' = [secrets EXCEPT ![e][n] = s]
        /\ acked' = [acked EXCEPT ![e][n] = j]
        /\ \/ raced' = raced \cup {<<e, n>>}
           \/ raced' = raced \ {<<e, n>>} /\ ~Resealing(e)
        /\ UNCHANGED keys
        /\ job' = [job EXCEPT ![j] =
             IF c.todo = {n} THEN [NoJob EXCEPT !.pc = "done"]
             ELSE [c EXCEPT !.pc = "read", !.todo = c.todo \ {n}]]
    BY <1>1, <1>3, <1>4, <1>6, <2>1 DEF WriteSecret
  <2>8. /\ secrets' \in [Env -> [Name -> Secret \cup {NoSecret}]]
        /\ acked' \in [Env -> [Name -> Maker \cup {NULL}]] /\ raced' \subseteq Env \X Name
    BY <2>3, <2>5, <2>7, Parts
  <2>9. ASSUME NEW f \in Env, NEW m \in Name
        PROVE  \/ <<f, m>> = <<e, n>> /\ secrets'[f][m] = s /\ acked'[f][m] = j
               \/ /\ <<f, m>> # <<e, n>>
                  /\ secrets'[f][m] = secrets[f][m] /\ acked'[f][m] = acked[f][m]
                  /\ <<f, m>> \in raced' <=> <<f, m>> \in raced
    BY <2>7, Parts
  <2>10. RowsOK
    <3>1. Nested'
      BY <1>6, <2>7, <2>9, Parts DEF Nested, keys, Live
    <3>2. SealedUnderStoredKey'
      BY <2>3, <2>4, <2>7, <2>9, Parts DEF SealedUnderStoredKey, keys
    <3>3. NothingLost'
      <4> SUFFICES ASSUME NEW f \in Env, NEW m \in Name, <<f, m>> \notin raced'
                   PROVE  /\ (secrets'[f][m] = NoSecret) <=> (acked'[f][m] = NULL)
                          /\ secrets'[f][m] # NoSecret =>
                               /\ Opens(secrets'[f][m], envKeys'[f][secrets'[f][m].keyVersion].dek)
                               /\ secrets'[f][m].box.value = acked'[f][m]
        BY DEF NothingLost, Opens, Seal
      <4>1. envKeys' = envKeys
        BY <2>7 DEF keys
      <4>2. CASE <<f, m>> = <<e, n>>
        BY <2>3, <2>5, <2>6, <2>9, <4>1, <4>2, Missing
      <4>3. CASE <<f, m>> # <<e, n>>
        BY <2>9, <4>1, <4>3, Parts DEF NothingLost
      <4> QED
        BY <4>2, <4>3
    <3> QED
      BY <2>7, <2>8, <3>1, <3>2, <3>3, KeysSame DEF RowsOK
  <2>11. \A k \in Job \ {j} : job'[k] = job[k]
    BY <2>7, Parts
  <2>12. CallOK(j)
    <3>1. CASE c.todo = {n}
      BY <2>7, <3>1, EndOK DEF End
    <3>2. CASE c.todo # {n}
      <4>1. PICK new : new = [c EXCEPT !.pc = "read", !.todo = c.todo \ {n}]
        OBVIOUS
      <4>2. "read" \in PCs /\ c.todo \ {n} \subseteq Name
        BY CallType DEF PCs
      <4>3. /\ new \in JobState /\ new.pc = "read" /\ new.kind = c.kind /\ new.env = c.env
            /\ new.row = c.row /\ new.version = c.version /\ new.wrapper = c.wrapper
            /\ new.keys = c.keys
        BY <4>1, <4>2 DEF JobState
      <4>4. job' \in [Job -> JobState] /\ job'[j] = new
        BY <2>7, <3>2, <4>1, <4>3, Parts
      <4>5. RowHeld(j)' /\ WrapperHeld(j)' /\ ListHeld(j)'
        BY <1>1, <2>7, <2>10, <4>3, <4>4, KeysSame, StillHolds
      <4>6. /\ Progress(j)' /\ SwitchHeld(j)' /\ ValuesHeld(j)' /\ CreateHeld(j)'
            /\ Delivered(j)' /\ OnlyCreator(j)
        BY <1>2, <4>3, <4>4
        DEF Progress, SwitchHeld, ValuesHeld, CreateHeld, Delivered, OnlyCreator
      <4> QED
        BY <4>4, <4>5, <4>6 DEF CallOK, JobInv
    <3> QED
      BY <3>1, <3>2
  <2>13. ASSUME NEW k \in Job \ {j} PROVE OtherKept(k)
    <3>1. JobInv(k) /\ job'[k] = job[k] /\ project' = project /\ envs' = envs
      BY <2>7, <2>11, Parts DEF keys
    <3>2. ASSUME job[k].kind = "rotateEnv", job[k].pc \in {"insertKey", "switch"},
                 NEW m \in Name
          PROVE  ValueKept(job[k].env, m)
      <4>1. job[k].env \in Env
        BY <3>1, <3>2 DEF JobInv, Progress
      <4>2. CASE <<job[k].env, m>> = <<e, n>>
        BY <2>7, <3>2, <4>2 DEF Resealing, ValueKept
      <4>3. CASE <<job[k].env, m>> # <<e, n>>
        BY <2>9, <4>1, <4>3 DEF ValueKept
      <4> QED
        BY <4>2, <4>3
    <3> QED
      BY <3>1, <3>2 DEF OtherKept, JobInv, CreateHeld
  <2> QED
    BY <2>7, <2>10, <2>12, <2>13, KeysSame, Combine DEF OthersOK
<1>7. CASE ~(Live(e) /\ Replaces(old, seen))
  BY <1>1, <1>3, <1>4, <1>7, FailStep DEF WriteSecret
<1> QED
  BY <1>6, <1>7

-----------------------------------------------------------------------------
(* Rows of environments and projects *)

\* What stands in a row of secrets does not change with the rows above it, as
\* long as the keys keep their DEK.
LEMMA SecretsSame ==
  ASSUME IInv, secrets' = secrets, acked' = acked, raced' = raced,
         \A e \in Env, v \in Version : envKeys[e][v] # NoEnvKey =>
           envKeys'[e][v].dek = envKeys[e][v].dek
  PROVE  /\ SealedUnderStoredKey' /\ NothingLost'
         /\ secrets' \in [Env -> [Name -> Secret \cup {NoSecret}]]
         /\ acked' \in [Env -> [Name -> Maker \cup {NULL}]] /\ raced' \subseteq Env \X Name
<1>1. ASSUME NEW e \in Env, NEW n \in Name, secrets[e][n] # NoSecret
      PROVE  /\ secrets[e][n].keyVersion \in Version
             /\ envKeys'[e][secrets[e][n].keyVersion].dek
                  = envKeys[e][secrets[e][n].keyVersion].dek
  <2>1. secrets[e][n] \in Secret
    BY <1>1, Parts
  <2>2. secrets[e][n].keyVersion \in Version /\ secrets[e][n].box.dek \in Maker
    BY <2>1 DEF Secret, Box
  <2>3. secrets[e][n].box.dek = envKeys[e][secrets[e][n].keyVersion].dek
    BY <1>1, Parts DEF SealedUnderStoredKey
  <2>4. envKeys[e][secrets[e][n].keyVersion] # NoEnvKey
    BY <2>2, <2>3, Missing DEF NoEnvKey
  <2> QED
    BY <2>2, <2>4
<1>2. SealedUnderStoredKey'
  BY <1>1, Parts DEF SealedUnderStoredKey
<1>3. NothingLost'
  BY <1>1, Parts DEF NothingLost, Opens
<1> QED
  BY <1>2, <1>3, Parts

\* INSERT INTO environments, once: its creator is the only one.
LEMMA InsertEnvStep ==
  ASSUME IInv, NEW j \in Job, InsertEnv(j)
  PROVE  IInv' /\ EnvsKept
<1>1. PICK c \in JobState : c = job[j]
  BY Parts
<1>2. /\ c.pc = "insertRow" /\ c.kind = "createEnv" /\ c.env \in Env /\ JobInv(j)
      /\ ModeOf[c.env] = "CLOUD" => c.wrapper.version # 0
      /\ c.version = 0 /\ envs[c.env].stage = "none"
      /\ \A n \in Name : c.snap[n] = NoSecret
  BY <1>1, Parts DEF InsertEnv, At, JobInv, Progress, CreateHeld
<1>3. PICK e \in Env : e = c.env
  BY <1>2
<1> DEFINE ok == /\ project.stage = "live"
                 /\ \A f \in Env : Live(f) => SlugOf[f] # SlugOf[e]
<1>4. CASE ok
  <2>1. /\ envs' = [envs EXCEPT ![e].stage = "live"]
        /\ UNCHANGED <<project, projectKeys, envKeys, secrets, history>>
        /\ IF ModeOf[e] = "COLD" THEN End(j) ELSE Goto(j, "insertKey")
    BY <1>1, <1>3, <1>4 DEF InsertEnv
  <2>2. /\ envs' \in [Env -> Holder]
        /\ envs'[e].stage = "live" /\ envs'[e].current = envs[e].current
        /\ \A f \in Env \ {e} : envs'[f] = envs[f]
    BY <2>1, Parts DEF Holder, Stage
  <2>3. ProjectKept
    BY <2>1, Parts DEF ProjectKept, Holder
  <2>4. EnvsKept
    <3> SUFFICES ASSUME NEW f \in Env PROVE EnvKept(f)
      BY DEF EnvsKept
    <3>1. CASE f = e
      BY <1>2, <1>3, <3>1 DEF EnvKept
    <3>2. CASE f # e
      BY <2>1, <2>2, <3>2, Parts DEF EnvKept, Live
    <3> QED
      BY <3>1, <3>2
  <2>5. RowsOK
    <3>1. Nested'
      BY <1>4, <2>1, <2>2, Parts DEF Nested, Live, history
    <3>2. KeysOpen'
      BY <2>1, Parts DEF KeysOpen
    <3>3. CurrentKeyActive'
      <4>1. \A f \in Env : envs'[f].current = envs[f].current
        BY <2>2
      <4> QED
        BY <2>1, <4>1, RungsHold, Rungs DEF EnvRung, ProjectRung
    <3> QED
      BY <2>1, <2>2, <3>1, <3>2, <3>3, SecretsSame, Parts DEF RowsOK, history
  <2>6. CallOK(j) /\ \A k \in Job \ {j} : job'[k] = job[k]
    <3>1. CASE ModeOf[e] = "COLD"
      BY <2>1, <3>1, EndOK
    <3>2. CASE ModeOf[e] # "COLD"
      <4>1. PICK new : new = [c EXCEPT !.pc = "insertKey"]
        OBVIOUS
      <4>2. "insertKey" \in PCs
        BY DEF PCs
      <4>3. /\ new \in JobState /\ new.pc = "insertKey" /\ new.kind = c.kind
            /\ new.env = c.env /\ new.row = c.row /\ new.version = c.version
            /\ new.wrapper = c.wrapper /\ new.keys = c.keys /\ new.snap = c.snap
        BY <4>1, <4>2 DEF JobState
      <4>4. /\ job' \in [Job -> JobState] /\ job'[j] = new
            /\ \A k \in Job \ {j} : job'[k] = job[k]
        BY <1>1, <2>1, <3>2, <4>1, <4>3, Parts DEF Goto
      <4>5. RowHeld(j)' /\ WrapperHeld(j)' /\ ListHeld(j)'
        BY <1>1, <2>3, <2>4, <2>5, <4>3, <4>4, StillHolds
      <4>6. ModeOf[e] = "CLOUD"
        BY <3>2, VaultAssumption
      <4>7. Progress(j)' /\ CreateHeld(j)' /\ ValuesHeld(j)' /\ Delivered(j)'
        BY <1>2, <1>3, <4>3, <4>4, <4>6 DEF Progress, CreateHeld, ValuesHeld, Delivered
      <4>8. SwitchHeld(j)'
        <5>1. envs'[e].current \in Nat
          BY <2>2 DEF Holder
        <5> QED
          BY <1>2, <1>3, <2>2, <4>3, <4>4, <5>1 DEF SwitchHeld
      <4>9. OnlyCreator(j)
        BY <1>1, <4>3, <4>4, Parts DEF OnlyCreator, OneCreator
      <4> QED
        BY <4>4, <4>5, <4>7, <4>8, <4>9 DEF CallOK, JobInv
    <3> QED
      BY <3>1, <3>2
  <2>7. ASSUME NEW k \in Job \ {j} PROVE OtherKept(k)
    <3>1. JobInv(k) /\ job'[k] = job[k] /\ project' = project
      BY <2>1, <2>6, Parts
    <3>2. job[k].kind = "createEnv" => job[k].env \in Env \ {e}
      BY <1>1, <1>2, <1>3, <3>1, Parts DEF OneCreator, JobInv, CreateHeld
    <3>3. job[k].pc = "switch" => job[k].env \in Env
      BY <3>1 DEF JobInv, Progress
    <3>4. \A n \in Name : ValueKept(job[k].env, n)
      BY <2>1 DEF ValueKept, history
    <3> QED
      BY <2>2, <3>1, <3>2, <3>3, <3>4 DEF OtherKept, JobInv, CreateHeld
  <2> QED
    BY <2>3, <2>4, <2>5, <2>6, <2>7, Combine DEF OthersOK
<1>5. CASE ~ok
  BY <1>1, <1>3, <1>5, FailStep DEF InsertEnv
<1> QED
  BY <1>4, <1>5

\* A new key version goes on top of the ladder.
LEMMA InsertEnvKeyStep ==
  ASSUME IInv, NEW j \in Job, InsertEnvKey(j)
  PROVE  IInv' /\ EnvsKept
<1>1. PICK c \in JobState : c = job[j]
  BY Parts
<1>2. /\ c.pc = "insertKey" /\ c.env \in Env /\ c.wrapper.version # 0 /\ JobInv(j)
      /\ c.kind \in {"createEnv", "rotateEnv"} /\ envs[c.env].stage # "none"
  BY <1>1, Parts DEF InsertEnvKey, At, JobInv, Progress, SwitchHeld
<1>3. PICK e \in Env, v \in Nat : e = c.env /\ v = c.version + 1
  <2>1. c.version \in Nat
    BY <1>1, CallType, VaultAssumption
  <2> QED
    BY <1>2, <2>1
<1>4. v \in Version /\ c.version \in Nat /\ c.wrapper.version \in Version
  BY <1>1, <1>2, <1>3, CallType, VaultAssumption DEF JobInv, Progress, Version
<1>5. CASE MayInsertKey(e, v)
  <2>1. PICK row : row = Inserted(j)
    OBVIOUS
  <2>2. /\ envKeys' = [envKeys EXCEPT ![e][v] = row] /\ Goto(j, "switch")
        /\ UNCHANGED <<project, projectKeys, envs, secrets, history>>
    BY <1>1, <1>3, <1>5, <2>1 DEF InsertEnvKey
  <2>3. /\ Live(e) /\ envKeys[e][v] = NoEnvKey /\ project.stage = "live"
        /\ c.version <= envs[e].current /\ envs[e].current \in Nat
        /\ c.wrapper.key \in Maker /\ projectKeys[c.wrapper.version].key = c.wrapper.key
    BY <1>1, <1>2, <1>3, <1>5, Parts
    DEF MayInsertKey, Nested, JobInv, SwitchHeld, WrapperHeld, Holder
  <2>4. envs[e].current = c.version /\ v = envs[e].current + 1
    BY <1>3, <1>4, <2>3, EnvLadder
  <2>5. /\ row \in EnvKey /\ row # NoEnvKey /\ row.dek = j /\ row.by = c.wrapper.key
        /\ row.under = c.wrapper.version /\ row.status = "active"
    BY <1>1, <1>4, <2>1, <2>3, Missing DEF Inserted, EnvKey, Maker
  <2>6. /\ envKeys' \in [Env -> [Version -> EnvKey \cup {NoEnvKey}]]
        /\ envKeys'[e][v] = row
        /\ \A f \in Env, w \in Version : <<f, w>> # <<e, v>> => envKeys'[f][w] = envKeys[f][w]
    BY <1>4, <2>2, <2>5, Parts
  <2>7. ProjectKept
    BY <2>2, Parts DEF ProjectKept, Holder
  <2>8. EnvsKept
    <3> SUFFICES ASSUME NEW f \in Env PROVE EnvKept(f)
      BY DEF EnvsKept
    <3> QED
      BY <2>2, <2>3, <2>6, Parts DEF EnvKept, Live
  <2>9. RowsOK
    <3>1. Nested'
      BY <2>2, <2>3, <2>6, Parts DEF Nested, Live, history
    <3>2. KeysOpen'
      BY <2>2, <2>3, <2>5, <2>6, Parts DEF KeysOpen
    <3>3. CurrentKeyActive'
      <4>1. ASSUME NEW f \in Env, NEW w \in Version PROVE EnvRung(f, w)'
        <5>1. CASE <<f, w>> = <<e, v>>
          BY <2>2, <2>3, <2>4, <2>5, <2>6, <5>1 DEF EnvRung
        <5>2. CASE <<f, w>> # <<e, v>>
          BY <2>2, <2>6, <5>2, RungsHold DEF EnvRung
        <5> QED
          BY <5>1, <5>2
      <4> QED
        BY <2>2, <4>1, RungsHold, Rungs DEF ProjectRung
    <3>4. \A f \in Env, w \in Version : envKeys[f][w] # NoEnvKey =>
            envKeys'[f][w].dek = envKeys[f][w].dek
      BY <2>3, <2>6
    <3> QED
      BY <2>2, <2>6, <3>1, <3>2, <3>3, <3>4, SecretsSame, Parts DEF RowsOK, history
  <2>10. CallOK(j) /\ \A k \in Job \ {j} : job'[k] = job[k]
    <3>1. PICK new : new = [c EXCEPT !.pc = "switch"]
      OBVIOUS
    <3>2. "switch" \in PCs
      BY DEF PCs
    <3>3. /\ new \in JobState /\ new.pc = "switch" /\ new.kind = c.kind
          /\ new.env = c.env /\ new.row = c.row /\ new.version = c.version
          /\ new.wrapper = c.wrapper /\ new.keys = c.keys /\ new.snap = c.snap
      BY <3>1, <3>2 DEF JobState
    <3>4. /\ job' \in [Job -> JobState] /\ job'[j] = new
          /\ \A k \in Job \ {j} : job'[k] = job[k]
      BY <1>1, <2>2, <3>1, <3>3, Parts DEF Goto
    <3>5. RowHeld(j)' /\ WrapperHeld(j)' /\ ListHeld(j)'
      BY <1>1, <2>7, <2>8, <2>9, <3>3, <3>4, StillHolds
    <3>6. Progress(j)' /\ CreateHeld(j)' /\ Delivered(j)'
      BY <1>1, <1>2, <3>3, <3>4 DEF Progress, CreateHeld, Delivered, JobInv
    <3>7. SwitchHeld(j)'
      BY <1>2, <1>3, <2>2, <2>3, <2>4, <2>5, <2>6, <3>3, <3>4 DEF SwitchHeld
    <3>8. ValuesHeld(j)'
      BY <1>1, <1>2, <2>2, <3>3, <3>4 DEF ValuesHeld, JobInv, history
    <3>9. OnlyCreator(j)
      BY <1>1, <3>3, <3>4, Parts DEF OnlyCreator, OneCreator
    <3> QED
      BY <3>4, <3>5, <3>6, <3>7, <3>8, <3>9 DEF CallOK, JobInv
  <2>11. ASSUME NEW k \in Job \ {j} PROVE OtherKept(k)
    <3>1. JobInv(k) /\ job'[k] = job[k] /\ project' = project /\ envs' = envs
      BY <2>2, <2>10, Parts
    <3>2. \A n \in Name : ValueKept(job[k].env, n)
      BY <2>2 DEF ValueKept, history
    <3> QED
      BY <3>1, <3>2 DEF OtherKept, JobInv, CreateHeld
  <2> QED
    BY <2>7, <2>8, <2>9, <2>10, <2>11, Combine DEF OthersOK
<1>6. CASE ~MayInsertKey(e, v)
  BY <1>1, <1>3, <1>6, FailStep DEF InsertEnvKey
<1> QED
  BY <1>5, <1>6

-----------------------------------------------------------------------------
(* The switch to a new environment key *)

\* Row t is s, listed as seen, under key version v with DEK dek.
Resealed(s, t, seen, v, dek) ==
  /\ s \in Secret /\ seen \in Secret /\ s.id = seen.id
  /\ t \in Secret /\ t.id = s.id /\ t.version = s.version /\ t.keyVersion = v
  /\ t.box = Seal(s.id, seen.version, v, dek, seen.box.value)
  /\ t.box.id = s.id /\ t.box.keyVersion = v /\ t.box.dek = dek
  /\ t.box.value = seen.box.value

\* A rewritten secret is under the new key, with the value that was listed.
LEMMA Reencrypted ==
  ASSUME NEW s \in Secret \cup {NoSecret}, NEW seen \in Secret \cup {NoSecret},
         NEW v \in Version, NEW dek \in Maker
  PROVE  LET t == Reencrypt(s, seen, v, dek)
         IN  /\ t \in Secret \cup {NoSecret}
             /\ t = s \/ Resealed(s, t, seen, v, dek)
<1>1. PICK t : t = Reencrypt(s, seen, v, dek)
  OBVIOUS
<1>2. CASE seen # NoSecret /\ s.id = seen.id
  <2>1. seen \in Secret /\ s \in Secret
    BY <1>2, Missing DEF Secret, NoSecret
  <2>2. PICK box : box = [id |-> s.id, version |-> seen.version, keyVersion |-> v,
                          dek |-> dek, value |-> seen.box.value]
    OBVIOUS
  <2>3. box \in Box
    BY <2>1, <2>2 DEF Secret, Box
  <2>4. t = [s EXCEPT !.keyVersion = v, !.box = box]
    BY <1>1, <1>2, <2>2 DEF Reencrypt, Seal
  <2>5. t \in Secret /\ t.id = s.id /\ t.version = s.version /\ t.keyVersion = v /\ t.box = box
    BY <2>1, <2>3, <2>4 DEF Secret
  <2>6. Resealed(s, t, seen, v, dek)
    BY <1>2, <2>1, <2>2, <2>5 DEF Resealed, Seal
  <2> QED
    BY <1>1, <2>5, <2>6
<1>3. CASE ~(seen # NoSecret /\ s.id = seen.id)
  BY <1>1, <1>3 DEF Reencrypt
<1> QED
  BY <1>2, <1>3

\* The statuses of a switch to version v; nothing else of a row changes.
LEMMA Switched ==
  ASSUME NEW rows \in [Version -> EnvKey \cup {NoEnvKey}], NEW v \in Version, NEW w \in Version,
         w = v \/ w + 1 = v => rows[w] # NoEnvKey
  PROVE  LET r == SwitchRows(rows, v)[w]
         IN  /\ r \in EnvKey \cup {NoEnvKey}
             /\ (r = NoEnvKey) <=> (rows[w] = NoEnvKey)
             /\ r.dek = rows[w].dek /\ r.by = rows[w].by /\ r.under = rows[w].under
             /\ r.status = IF w = v THEN "active" ELSE IF w + 1 = v THEN "retired"
                           ELSE rows[w].status
<1>1. PICK r : r = SwitchRows(rows, v)[w]
  OBVIOUS
<1>2. CASE w = v
  <2>1. rows[w] \in EnvKey /\ r = [rows[w] EXCEPT !.status = "active"]
    BY <1>1, <1>2 DEF SwitchRows
  <2>2. r \in EnvKey
    BY <2>1 DEF EnvKey
  <2> QED
    BY <1>1, <1>2, <2>1, <2>2, Missing DEF EnvKey
<1>3. CASE w # v /\ w + 1 = v
  <2>1. rows[w] \in EnvKey /\ r = [rows[w] EXCEPT !.status = "retired"]
    BY <1>1, <1>3 DEF SwitchRows
  <2>2. r \in EnvKey
    BY <2>1 DEF EnvKey
  <2> QED
    BY <1>1, <1>3, <2>1, <2>2, Missing DEF EnvKey
<1>4. CASE w # v /\ w + 1 # v
  BY <1>1, <1>4 DEF SwitchRows
<1> QED
  BY <1>2, <1>3, <1>4

LEMMA SwitchEnvKeyStep ==
  ASSUME IInv, NEW j \in Job, SwitchEnvKey(j)
  PROVE  IInv' /\ EnvsKept
<1>1. PICK c \in JobState : c = job[j]
  BY Parts
<1>2. /\ c.pc = "switch" /\ c.env \in Env /\ JobInv(j) /\ envs[c.env].stage # "none"
      /\ c.kind \in {"createEnv", "rotateEnv"} /\ c.version < MaxVersion
  <2>1. c.pc = "switch" /\ JobInv(j)
    BY <1>1, Parts DEF SwitchEnvKey, At
  <2>2. /\ c.env \in Env /\ c.kind \in {"createEnv", "rotateEnv"}
        /\ c.kind = "createEnv" => c.version = 0
        /\ c.kind = "rotateEnv" => c.version < MaxVersion
    BY <1>1, <2>1 DEF JobInv, Progress
  <2>3. envs[c.env].stage # "none"
    BY <1>1, <2>1 DEF JobInv, SwitchHeld
  <2> QED
    BY <2>1, <2>2, <2>3, VaultAssumption
<1>3. PICK e \in Env, v \in Nat : e = c.env /\ v = c.version + 1
  <2>1. c.version \in Nat
    BY <1>1, CallType, VaultAssumption
  <2> QED
    BY <1>2, <2>1
<1>4. v \in Version /\ c.version \in Nat /\ j \in Maker
  BY <1>2, <1>3, CallType, VaultAssumption DEF Version, Maker
<1>5. CallOK(j) /\ End(j) /\ \A k \in Job \ {j} : job'[k] = job[k]
  BY EndOK DEF SwitchEnvKey
<1>6. CASE Live(e)
  <2>1. /\ secrets' = [secrets EXCEPT ![e] = [n \in Name |->
                         Reencrypt(secrets[e][n], c.snap[n], v, j)]]
        /\ envKeys' = [envKeys EXCEPT ![e] = SwitchRows(envKeys[e], v)]
        /\ envs' = [envs EXCEPT ![e].current = v]
        /\ UNCHANGED <<project, projectKeys, history>>
    BY <1>1, <1>3, <1>6 DEF SwitchEnvKey
  <2>2. /\ envs[e].current = c.version /\ envKeys[e][v].dek = j
        /\ envKeys[e][v] # NoEnvKey /\ project.stage = "live"
    BY <1>1, <1>2, <1>3, <1>4, <1>6, Parts, Missing
    DEF JobInv, SwitchHeld, Nested, NoEnvKey
  <2>3. /\ envs' \in [Env -> Holder] /\ envs'[e].current = v /\ envs'[e].stage = "live"
        /\ \A f \in Env \ {e} : envs'[f] = envs[f]
    <3>1. v \in 0 .. MaxVersion
      BY <1>4 DEF Version
    <3> QED
      BY <1>6, <2>1, <3>1, Parts DEF Holder, Live
  <2>4. /\ envKeys' \in [Env -> [Version -> EnvKey \cup {NoEnvKey}]]
        /\ \A f \in Env \ {e} : envKeys'[f] = envKeys[f]
        /\ \A w \in Version :
             LET r == envKeys'[e][w]
             IN  /\ (r = NoEnvKey) <=> (envKeys[e][w] = NoEnvKey)
                 /\ r.dek = envKeys[e][w].dek /\ r.by = envKeys[e][w].by
                 /\ r.under = envKeys[e][w].under
                 /\ r.status = IF w = v THEN "active" ELSE IF w + 1 = v THEN "retired"
                               ELSE envKeys[e][w].status
    <3>1. PICK rows \in [Version -> EnvKey \cup {NoEnvKey}] : rows = envKeys[e]
      BY Parts
    <3>2. PICK new : new = SwitchRows(rows, v)
      OBVIOUS
    <3>3. ASSUME NEW w \in Version, w = v \/ w + 1 = v PROVE rows[w] # NoEnvKey
      BY <1>3, <1>4, <2>2, <3>1, <3>3, EnvLadder
    <3>4. \A w \in Version :
            /\ new[w] \in EnvKey \cup {NoEnvKey}
            /\ (new[w] = NoEnvKey) <=> (rows[w] = NoEnvKey)
            /\ new[w].dek = rows[w].dek /\ new[w].by = rows[w].by
            /\ new[w].under = rows[w].under
            /\ new[w].status = IF w = v THEN "active" ELSE IF w + 1 = v THEN "retired"
                               ELSE rows[w].status
      BY <1>4, <3>2, <3>3, Switched
    <3>5. new \in [Version -> EnvKey \cup {NoEnvKey}]
      BY <3>2, <3>4 DEF SwitchRows
    <3>6. envKeys'[e] = new /\ \A f \in Env \ {e} : envKeys'[f] = envKeys[f]
      BY <2>1, <3>1, <3>2, Parts
    <3>7. envKeys' \in [Env -> [Version -> EnvKey \cup {NoEnvKey}]]
      BY <2>1, <3>1, <3>2, <3>5, Parts
    <3> QED
      BY <3>1, <3>4, <3>6, <3>7
  <2>5. /\ secrets' \in [Env -> [Name -> Secret \cup {NoSecret}]]
        /\ \A f \in Env \ {e} : secrets'[f] = secrets[f]
        /\ \A n \in Name :
             \/ secrets'[e][n] = secrets[e][n]
             \/ Resealed(secrets[e][n], secrets'[e][n], c.snap[n], v, j)
    <3>1. \A n \in Name : /\ secrets[e][n] \in Secret \cup {NoSecret}
                          /\ c.snap[n] \in Secret \cup {NoSecret}
      BY CallType, Parts
    <3>2. PICK new : new = [n \in Name |-> Reencrypt(secrets[e][n], c.snap[n], v, j)]
      OBVIOUS
    <3>3. \A n \in Name :
            /\ new[n] \in Secret \cup {NoSecret}
            /\ new[n] = secrets[e][n] \/ Resealed(secrets[e][n], new[n], c.snap[n], v, j)
      BY <1>4, <3>1, <3>2, Reencrypted
    <3>4. new \in [Name -> Secret \cup {NoSecret}]
      BY <3>2, <3>3
    <3>5. secrets'[e] = new /\ \A f \in Env \ {e} : secrets'[f] = secrets[f]
      BY <2>1, <3>2, Parts
    <3>6. secrets' \in [Env -> [Name -> Secret \cup {NoSecret}]]
      BY <2>1, <3>2, <3>4, Parts
    <3> QED
      BY <3>3, <3>5, <3>6
  <2>6. ASSUME NEW n \in Name, <<e, n>> \notin raced, c.snap[n] \in Secret,
               secrets[e][n] \in Secret, secrets[e][n].id = c.snap[n].id
        PROVE  /\ secrets[e][n].version = c.snap[n].version
               /\ secrets[e][n].box.value = c.snap[n].box.value
    <3>1. c.kind = "rotateEnv"
      BY <1>1, <1>2, <2>6, Missing DEF JobInv, CreateHeld
    <3> QED
      BY <1>1, <1>2, <1>3, <2>6, <3>1, Missing DEF JobInv, ValuesHeld
  <2>7. ProjectKept
    BY <2>1, Parts DEF ProjectKept, Holder
  <2>8. EnvsKept
    <3> SUFFICES ASSUME NEW f \in Env PROVE EnvKept(f)
      BY DEF EnvsKept
    <3>1. CASE f = e
      BY <1>3, <1>6, <2>2, <2>3, <2>4, <3>1 DEF EnvKept, Live
    <3>2. CASE f # e
      BY <2>3, <2>4, <3>2, Parts DEF EnvKept, Live
    <3> QED
      BY <3>1, <3>2
  <2>9. Nested'
    <3>1. ASSUME NEW f \in Env, ~Live(f)'
          PROVE  /\ envs'[f].current = 0
                 /\ \A w \in Version : envKeys'[f][w] = NoEnvKey
                 /\ \A n \in Name : secrets'[f][n] = NoSecret
      <4>1. f # e
        BY <2>3, <3>1 DEF Live
      <4>2. envs'[f] = envs[f] /\ envKeys'[f] = envKeys[f] /\ secrets'[f] = secrets[f]
        BY <2>3, <2>4, <2>5, <4>1
      <4> QED
        BY <3>1, <4>2, Parts DEF Nested, Live
    <3> QED
      BY <2>1, <2>2, <3>1 DEF Nested, Live
  <2>10. KeysOpen'
    <3> SUFFICES ASSUME NEW f \in Env, NEW w \in Version, envKeys'[f][w] # NoEnvKey
                 PROVE  projectKeys'[envKeys'[f][w].under].key = envKeys'[f][w].by
      BY DEF KeysOpen
    <3>1. CASE f = e
      <4>1. /\ (envKeys'[e][w] = NoEnvKey) <=> (envKeys[e][w] = NoEnvKey)
            /\ envKeys'[e][w].by = envKeys[e][w].by
            /\ envKeys'[e][w].under = envKeys[e][w].under
        BY <2>4
      <4>2. envKeys[e][w] # NoEnvKey /\ projectKeys' = projectKeys /\ KeysOpen
        BY <2>1, <3>1, <4>1, Parts
      <4>3. projectKeys[envKeys[e][w].under].key = envKeys[e][w].by
        BY <4>2 DEF KeysOpen
      <4> QED
        BY <3>1, <4>1, <4>2, <4>3
    <3>2. CASE f # e
      BY <2>1, <2>4, <3>2, Parts DEF KeysOpen
    <3> QED
      BY <3>1, <3>2
  <2>11. CurrentKeyActive'
    <3>1. ASSUME NEW f \in Env, NEW w \in Version PROVE EnvRung(f, w)'
      <4>1. CASE f # e
        <5>1. envs'[f] = envs[f] /\ envKeys'[f] = envKeys[f] /\ EnvRung(f, w)
          BY <2>3, <2>4, <4>1, RungsHold
        <5> QED
          BY <5>1 DEF EnvRung
      <4>2. CASE f = e
        <5>1. PICK now, next : now = envKeys[e][w] /\ next = envKeys'[e][w]
          OBVIOUS
        <5>2. /\ w \in Nat /\ v = c.version + 1
              /\ now # NoEnvKey =>
                   /\ w <= c.version + 1
                   /\ now.status = IF w < c.version THEN "retired" ELSE "active"
              /\ w <= c.version => now # NoEnvKey
          BY <1>3, <2>2, <5>1, RungsHold DEF EnvRung, Version
        <5>3. /\ (next = NoEnvKey) <=> (now = NoEnvKey)
              /\ next.status = IF w = v THEN "active" ELSE IF w + 1 = v THEN "retired"
                               ELSE now.status
              /\ w = v => now # NoEnvKey
          BY <2>2, <2>4, <5>1
        <5>4. /\ next # NoEnvKey =>
                   /\ w <= v + 1
                   /\ next.status = IF w < v THEN "retired" ELSE "active"
              /\ w <= v => next # NoEnvKey
          BY <1>4, <5>2, <5>3
        <5> QED
          BY <2>3, <4>2, <5>1, <5>4 DEF EnvRung
      <4> QED
        BY <4>1, <4>2
    <3> QED
      BY <2>1, <3>1, RungsHold, Rungs DEF ProjectRung
  <2>12. SealedUnderStoredKey'
    <3> SUFFICES ASSUME NEW f \in Env, NEW n \in Name, secrets'[f][n] # NoSecret
                 PROVE  LET s == secrets'[f][n]
                        IN  /\ s.box.id = s.id /\ s.box.keyVersion = s.keyVersion
                            /\ s.box.dek = envKeys'[f][s.keyVersion].dek
      BY DEF SealedUnderStoredKey
    <3>1. CASE f # e
      BY <2>4, <2>5, <3>1, Parts DEF SealedUnderStoredKey
    <3>2. CASE f = e /\ secrets'[e][n] = secrets[e][n]
      <4>1. PICK s : s = secrets[e][n]
        OBVIOUS
      <4>2. /\ s \in Secret /\ s.box.id = s.id /\ s.box.keyVersion = s.keyVersion
            /\ s.box.dek = envKeys[e][s.keyVersion].dek
        BY <3>2, <4>1, Parts DEF SealedUnderStoredKey
      <4>3. envKeys'[e][s.keyVersion].dek = envKeys[e][s.keyVersion].dek
        BY <2>4, <4>2 DEF Secret
      <4> QED
        BY <3>2, <4>1, <4>2, <4>3
    <3>3. CASE f = e /\ secrets'[e][n] # secrets[e][n]
      <4>1. PICK s, t : s = secrets[e][n] /\ t = secrets'[e][n]
        OBVIOUS
      <4>2. /\ t.id = s.id /\ t.keyVersion = v
            /\ t.box.id = s.id /\ t.box.keyVersion = v /\ t.box.dek = j
        BY <2>5, <3>3, <4>1 DEF Resealed
      <4>3. envKeys'[e][v].dek = j
        BY <1>4, <2>2, <2>4
      <4> QED
        BY <3>3, <4>1, <4>2, <4>3
    <3> QED
      BY <3>1, <3>2, <3>3
  <2>13. NothingLost'
    <3> SUFFICES ASSUME NEW f \in Env, NEW n \in Name, <<f, n>> \notin raced'
                 PROVE  /\ (secrets'[f][n] = NoSecret) <=> (acked'[f][n] = NULL)
                        /\ secrets'[f][n] # NoSecret =>
                             /\ Opens(secrets'[f][n], envKeys'[f][secrets'[f][n].keyVersion].dek)
                             /\ secrets'[f][n].box.value = acked'[f][n]
      BY DEF NothingLost, Opens, Seal
    <3>1. /\ <<f, n>> \notin raced /\ acked' = acked
          /\ (secrets[f][n] = NoSecret) <=> (acked[f][n] = NULL)
          /\ secrets[f][n] # NoSecret =>
               /\ Opens(secrets[f][n], envKeys[f][secrets[f][n].keyVersion].dek)
               /\ secrets[f][n].box.value = acked[f][n]
      BY <2>1, Parts DEF NothingLost, history
    <3>2. CASE f # e
      BY <2>4, <2>5, <3>1, <3>2
    <3>3. CASE f = e /\ secrets'[e][n] = secrets[e][n]
      <4>1. secrets[e][n] # NoSecret => secrets[e][n].keyVersion \in Version
        BY Parts DEF Secret
      <4> QED
        BY <2>4, <3>1, <3>3, <4>1
    <3>4. CASE f = e /\ secrets'[e][n] # secrets[e][n]
      <4>1. PICK s, t, seen : s = secrets[e][n] /\ t = secrets'[e][n] /\ seen = c.snap[n]
        OBVIOUS
      <4>2. Resealed(s, t, seen, v, j)
        BY <2>5, <3>4, <4>1
      <4>3. seen.version = s.version /\ seen.box.value = s.box.value
        BY <2>6, <3>1, <3>4, <4>1, <4>2 DEF Resealed
      <4>4. envKeys'[e][v].dek = j
        BY <1>4, <2>2, <2>4
      <4>5. t.box = Seal(t.id, t.version, t.keyVersion, j, t.box.value)
        BY <4>2, <4>3 DEF Resealed
      <4> QED
        BY <3>1, <3>4, <4>1, <4>2, <4>3, <4>4, <4>5, Missing DEF Opens, Resealed
    <3> QED
      BY <3>2, <3>3, <3>4
  <2>14. RowsOK
    BY <2>1, <2>3, <2>4, <2>5, <2>9, <2>10, <2>11, <2>12, <2>13, Parts DEF RowsOK, history
  <2>15. ASSUME NEW k \in Job \ {j} PROVE OtherKept(k)
    <3>1. JobInv(k) /\ job'[k] = job[k] /\ project' = project
      BY <1>5, <2>1, Parts
    <3>2. ASSUME job[k].pc = "switch" PROVE job[k].env \in Env \ {e}
      BY <1>3, <1>6, <2>2, <3>1, <3>2 DEF JobInv, SwitchHeld, Progress
    <3>3. ASSUME job[k].kind = "createEnv", job[k].pc \in {"wrap", "insertRow"}
          PROVE  job[k].env \in Env \ {e} /\ envs[job[k].env].stage = "none"
      BY <1>6, <3>1, <3>3 DEF JobInv, CreateHeld, Live
    <3>4. ASSUME job[k].kind = "rotateEnv", job[k].pc \in {"insertKey", "switch"},
                 NEW n \in Name
          PROVE  ValueKept(job[k].env, n)
      <4>1. job[k].env \in Env
        BY <3>1, <3>4 DEF JobInv, Progress
      <4>2. CASE job[k].env # e
        BY <2>1, <2>5, <4>1, <4>2 DEF ValueKept, history
      <4>3. CASE job[k].env = e
        <5>1. PICK s, t, seen : s = secrets[e][n] /\ t = secrets'[e][n] /\ seen = c.snap[n]
          OBVIOUS
        <5>2. CASE t = s
          BY <2>1, <4>3, <5>1, <5>2 DEF ValueKept, history
        <5>3. CASE t # s
          <6>1. /\ s \in Secret /\ seen \in Secret /\ s.id = seen.id /\ t.id = s.id
                /\ t.version = s.version /\ t.box.value = seen.box.value
            BY <2>5, <5>1, <5>3 DEF Resealed
          <6>2. <<e, n>> \notin raced => s.box.value = seen.box.value
            BY <2>6, <5>1, <6>1
          <6> QED
            BY <2>1, <4>3, <5>1, <6>1, <6>2, Missing DEF ValueKept, history
        <5> QED
          BY <5>2, <5>3
      <4> QED
        BY <4>2, <4>3
    <3> QED
      BY <2>3, <3>1, <3>2, <3>3, <3>4 DEF OtherKept
  <2> QED
    BY <1>5, <2>7, <2>8, <2>14, <2>15, Combine DEF OthersOK
<1>7. CASE ~Live(e)
  BY <1>1, <1>3, <1>7, FailStep DEF SwitchEnvKey, Fail, keys
<1> QED
  BY <1>6, <1>7

-----------------------------------------------------------------------------
(* The project's keys *)

LEMMA InsertProjectStep ==
  ASSUME IInv, NEW j \in Job, InsertProject(j)
  PROVE  IInv' /\ EnvsKept
<1>1. PICK c \in JobState : c = job[j]
  BY Parts
<1>2. c.pc = "insertProject" /\ JobInv(j) /\ c.kind = "createProject" /\ c.version = 0
  BY <1>1, Parts DEF InsertProject, At, JobInv, Progress
<1>3. CASE project.stage = "none"
  <2>1. /\ project' = [project EXCEPT !.stage = "live"] /\ Goto(j, "insertProjectKey")
        /\ UNCHANGED <<projectKeys, envs, envKeys, secrets, history>>
    BY <1>3 DEF InsertProject
  <2>2. /\ project' \in Holder /\ project'.stage = "live"
        /\ project'.current = project.current /\ project.current = 0
    BY <1>3, <2>1, Parts DEF Holder, Stage, Nested
  <2>3. ProjectKept
    BY <1>3 DEF ProjectKept
  <2>4. EnvsKept
    BY <2>1, Parts DEF EnvsKept, EnvKept, Live
  <2>5. RowsOK
    <3>1. Nested'
      BY <2>1, <2>2, Parts DEF Nested, Live
    <3>2. KeysOpen'
      BY <2>1, Parts DEF KeysOpen
    <3>3. CurrentKeyActive'
      BY <2>1, <2>2, RungsHold, Rungs DEF EnvRung, ProjectRung
    <3> QED
      BY <2>1, <2>2, <3>1, <3>2, <3>3, SecretsSame, Parts DEF RowsOK, history
  <2>6. CallOK(j) /\ \A k \in Job \ {j} : job'[k] = job[k]
    <3>1. PICK new : new = [c EXCEPT !.pc = "insertProjectKey"]
      OBVIOUS
    <3>2. "insertProjectKey" \in PCs
      BY DEF PCs
    <3>3. /\ new \in JobState /\ new.pc = "insertProjectKey" /\ new.kind = c.kind
          /\ new.env = c.env /\ new.row = c.row /\ new.version = c.version
          /\ new.wrapper = c.wrapper /\ new.keys = c.keys /\ new.snap = c.snap
      BY <3>1, <3>2 DEF JobState
    <3>4. /\ job' \in [Job -> JobState] /\ job'[j] = new
          /\ \A k \in Job \ {j} : job'[k] = job[k]
      BY <1>1, <2>1, <3>1, <3>3, Parts DEF Goto
    <3>5. RowHeld(j)' /\ WrapperHeld(j)' /\ ListHeld(j)'
      BY <1>1, <2>3, <2>4, <2>5, <3>3, <3>4, StillHolds
    <3>6. /\ Progress(j)' /\ CreateHeld(j)' /\ ValuesHeld(j)' /\ Delivered(j)'
          /\ OnlyCreator(j)
      BY <1>2, <3>3, <3>4 DEF Progress, CreateHeld, ValuesHeld, Delivered, OnlyCreator
    <3>7. SwitchHeld(j)'
      BY <1>2, <2>2, <3>3, <3>4 DEF SwitchHeld
    <3> QED
      BY <3>4, <3>5, <3>6, <3>7 DEF CallOK, JobInv
  <2>7. ASSUME NEW k \in Job \ {j} PROVE OtherKept(k)
    <3>1. JobInv(k) /\ job'[k] = job[k] /\ envs' = envs
      BY <2>1, <2>6, Parts
    <3>2. \A n \in Name : ValueKept(job[k].env, n)
      BY <2>1 DEF ValueKept, history
    <3> QED
      BY <2>2, <3>1, <3>2 DEF OtherKept, JobInv, CreateHeld
  <2> QED
    BY <2>3, <2>4, <2>5, <2>6, <2>7, Combine DEF OthersOK
<1>4. CASE project.stage # "none"
  BY <1>4, FailStep DEF InsertProject
<1> QED
  BY <1>3, <1>4

LEMMA InsertProjectKeyStep ==
  ASSUME IInv, NEW j \in Job, InsertProjectKey(j)
  PROVE  IInv' /\ EnvsKept
<1>1. PICK c \in JobState : c = job[j]
  BY Parts
<1>2. /\ c.pc = "insertProjectKey" /\ JobInv(j)
      /\ c.kind \in {"createProject", "rotateProject"} /\ c.version < MaxVersion
  <2>1. c.pc = "insertProjectKey" /\ JobInv(j)
    BY <1>1, Parts DEF InsertProjectKey, At
  <2>2. /\ c.kind \in {"createProject", "rotateProject"}
        /\ c.kind = "createProject" => c.version = 0
        /\ c.kind = "rotateProject" => c.version < MaxVersion
    BY <1>1, <2>1 DEF JobInv, Progress
  <2> QED
    BY <2>1, <2>2, VaultAssumption
<1>3. PICK v : v = c.version + 1
  OBVIOUS
<1>4. v \in Version /\ c.version \in Nat /\ j \in Maker
  BY <1>2, <1>3, CallType, VaultAssumption DEF Version, Maker
<1>5. CASE project.stage = "live" /\ projectKeys[v] = NoProjectKey
  <2>1. PICK row : row = [key |-> j, status |-> "active"]
    OBVIOUS
  <2>2. /\ projectKeys' = [projectKeys EXCEPT ![v] = row] /\ Goto(j, "switchProject")
        /\ UNCHANGED <<project, envs, envKeys, secrets, history>>
    BY <1>1, <1>3, <1>5, <2>1 DEF InsertProjectKey
  <2>3. row \in ProjectKey /\ row # NoProjectKey /\ row.key = j /\ row.status = "active"
    BY <1>4, <2>1, Missing DEF ProjectKey
  <2>4. /\ projectKeys' \in [Version -> ProjectKey \cup {NoProjectKey}]
        /\ projectKeys'[v] = row
        /\ \A w \in Version \ {v} : projectKeys'[w] = projectKeys[w]
    BY <1>4, <2>2, <2>3, Parts
  <2>5. /\ project.current = c.version /\ project.current \in Nat
    <3>1. c.version <= project.current
      BY <1>1, <1>2, <1>5 DEF JobInv, SwitchHeld
    <3> QED
      BY <1>3, <1>4, <1>5, <3>1, ProjectLadder
  <2>6. ProjectKept
    BY <1>5, <2>2, <2>4, Parts DEF ProjectKept, Holder
  <2>7. EnvsKept
    BY <2>2, Parts DEF EnvsKept, EnvKept, Live
  <2>8. RowsOK
    <3>1. Nested'
      BY <1>5, <2>2, Parts DEF Nested, Live
    <3>2. KeysOpen'
      <4> SUFFICES ASSUME NEW e \in Env, NEW w \in Version, envKeys[e][w] # NoEnvKey
                   PROVE  projectKeys'[envKeys[e][w].under].key = envKeys[e][w].by
        BY <2>2 DEF KeysOpen
      <4>1. /\ envKeys[e][w].by \in Maker /\ envKeys[e][w].under \in Version
            /\ projectKeys[envKeys[e][w].under].key = envKeys[e][w].by
        BY Parts DEF KeysOpen, EnvKey
      <4> QED
        BY <1>5, <2>4, <4>1, Missing DEF NoProjectKey
    <3>3. CurrentKeyActive'
      <4>1. ASSUME NEW w \in Version PROVE ProjectRung(w)'
        <5>1. CASE w = v
          BY <1>3, <1>4, <2>2, <2>3, <2>4, <2>5, <5>1 DEF ProjectRung
        <5>2. CASE w # v
          BY <2>2, <2>4, <5>2, RungsHold DEF ProjectRung
        <5> QED
          BY <5>1, <5>2
      <4> QED
        BY <2>2, <4>1, RungsHold, Rungs DEF EnvRung
    <3> QED
      BY <2>2, <2>4, <3>1, <3>2, <3>3, SecretsSame, Parts DEF RowsOK, history
  <2>9. CallOK(j) /\ \A k \in Job \ {j} : job'[k] = job[k]
    <3>1. PICK new : new = [c EXCEPT !.pc = "switchProject"]
      OBVIOUS
    <3>2. "switchProject" \in PCs
      BY DEF PCs
    <3>3. /\ new \in JobState /\ new.pc = "switchProject" /\ new.kind = c.kind
          /\ new.env = c.env /\ new.row = c.row /\ new.version = c.version
          /\ new.wrapper = c.wrapper /\ new.keys = c.keys /\ new.snap = c.snap
      BY <3>1, <3>2 DEF JobState
    <3>4. /\ job' \in [Job -> JobState] /\ job'[j] = new
          /\ \A k \in Job \ {j} : job'[k] = job[k]
      BY <1>1, <2>2, <3>1, <3>3, Parts DEF Goto
    <3>5. RowHeld(j)' /\ WrapperHeld(j)' /\ ListHeld(j)'
      BY <1>1, <2>6, <2>7, <2>8, <3>3, <3>4, StillHolds
    <3>6. /\ Progress(j)' /\ CreateHeld(j)' /\ ValuesHeld(j)' /\ Delivered(j)'
          /\ OnlyCreator(j)
      BY <1>1, <1>2, <3>3, <3>4
      DEF Progress, CreateHeld, ValuesHeld, Delivered, OnlyCreator, JobInv
    <3>7. SwitchHeld(j)'
      BY <1>3, <1>4, <1>5, <2>2, <2>3, <2>4, <2>5, <3>3, <3>4 DEF SwitchHeld
    <3> QED
      BY <3>4, <3>5, <3>6, <3>7 DEF CallOK, JobInv
  <2>10. ASSUME NEW k \in Job \ {j} PROVE OtherKept(k)
    <3>1. JobInv(k) /\ job'[k] = job[k] /\ project' = project /\ envs' = envs
      BY <2>2, <2>9, Parts
    <3>2. \A n \in Name : ValueKept(job[k].env, n)
      BY <2>2 DEF ValueKept, history
    <3> QED
      BY <3>1, <3>2 DEF OtherKept, JobInv, CreateHeld
  <2> QED
    BY <2>6, <2>7, <2>8, <2>9, <2>10, Combine DEF OthersOK
<1>6. CASE ~(project.stage = "live" /\ projectKeys[v] = NoProjectKey)
  BY <1>1, <1>3, <1>6, FailStep DEF InsertProjectKey
<1> QED
  BY <1>5, <1>6

LEMMA SwitchProjectKeyStep ==
  ASSUME IInv, NEW j \in Job, SwitchProjectKey(j)
  PROVE  IInv' /\ EnvsKept
<1>1. PICK c \in JobState : c = job[j]
  BY Parts
<1>2. c.pc = "switchProject" /\ JobInv(j) /\ c.version < MaxVersion
  <2>1. c.pc = "switchProject" /\ JobInv(j)
    BY <1>1, Parts DEF SwitchProjectKey, At
  <2>2. /\ c.kind \in {"createProject", "rotateProject"}
        /\ c.kind = "createProject" => c.version = 0
        /\ c.kind = "rotateProject" => c.version < MaxVersion
    BY <1>1, <2>1 DEF JobInv, Progress
  <2> QED
    BY <2>1, <2>2, VaultAssumption
<1>3. PICK v : v = c.version + 1
  OBVIOUS
<1>4. v \in Version /\ c.version \in Nat /\ j \in Maker
  BY <1>2, <1>3, CallType, VaultAssumption DEF Version, Maker
<1>5. CallOK(j) /\ End(j) /\ \A k \in Job \ {j} : job'[k] = job[k]
  BY EndOK DEF SwitchProjectKey
<1>6. CASE project.stage = "live"
  <2>1. /\ envKeys' = [e \in Env |-> [w \in Version |->
                         Rewrap(envKeys[e][w], c.keys[e][w], v, j)]]
        /\ projectKeys' = [w \in Version |->
             IF w + 1 = v THEN [projectKeys[w] EXCEPT !.status = "retired"]
             ELSE projectKeys[w]]
        /\ project' = [project EXCEPT !.current = v]
        /\ UNCHANGED <<envs, secrets, history>>
    BY <1>1, <1>3, <1>6 DEF SwitchProjectKey
  <2>2. /\ project.current = c.version /\ projectKeys[v].key = j
        /\ projectKeys[v] # NoProjectKey
    BY <1>1, <1>2, <1>3, <1>4, <1>6, Missing DEF JobInv, SwitchHeld, NoProjectKey
  <2>3. project' \in Holder /\ project'.current = v /\ project'.stage = "live"
    <3>1. v \in 0 .. MaxVersion
      BY <1>4 DEF Version
    <3> QED
      BY <1>6, <2>1, <3>1, Parts DEF Holder
  <2>4. ASSUME NEW w \in Version
        PROVE  /\ projectKeys'[w] \in ProjectKey \cup {NoProjectKey}
               /\ (projectKeys'[w] = NoProjectKey) <=> (projectKeys[w] = NoProjectKey)
               /\ projectKeys'[w].key = projectKeys[w].key
               /\ projectKeys'[w].status =
                    IF w + 1 = v THEN "retired" ELSE projectKeys[w].status
    <3>1. CASE w + 1 = v
      <4>1. PICK row \in ProjectKey : row = projectKeys[w]
        BY <1>3, <1>4, <2>2, <3>1, ProjectLadder
      <4>2. projectKeys'[w] = [row EXCEPT !.status = "retired"]
        BY <2>1, <3>1, <4>1
      <4>3. /\ projectKeys'[w] \in ProjectKey /\ projectKeys'[w].key = row.key
            /\ projectKeys'[w].status = "retired"
        BY <4>1, <4>2 DEF ProjectKey
      <4> QED
        BY <3>1, <4>1, <4>3, Missing
    <3>2. CASE w + 1 # v
      <4>1. projectKeys'[w] = projectKeys[w]
        BY <2>1, <3>2
      <4> QED
        BY <3>2, <4>1, Parts
    <3> QED
      BY <3>1, <3>2
  <2>5. projectKeys' \in [Version -> ProjectKey \cup {NoProjectKey}]
    BY <2>1, <2>4
  <2>6. ASSUME NEW e \in Env, NEW w \in Version
        PROVE  /\ envKeys'[e][w] \in EnvKey \cup {NoEnvKey}
               /\ (envKeys'[e][w] = NoEnvKey) <=> (envKeys[e][w] = NoEnvKey)
               /\ envKeys'[e][w].dek = envKeys[e][w].dek
               /\ envKeys'[e][w].status = envKeys[e][w].status
               /\ \/ envKeys'[e][w] = envKeys[e][w]
                  \/ envKeys'[e][w].by = j /\ envKeys'[e][w].under = v
    <3>1. PICK now, seen : now = envKeys[e][w] /\ seen = c.keys[e][w]
      OBVIOUS
    <3>2. now \in EnvKey \cup {NoEnvKey} /\ seen \in EnvKey \cup {NoEnvKey}
      BY <3>1, CallType, Parts
    <3>3. seen # NoEnvKey /\ now # NoEnvKey => seen.dek = now.dek
      <4>1. now # NoEnvKey => Live(e)
        BY <3>1, Parts DEF Nested
      <4> QED
        BY <1>1, <1>2, <3>1, <4>1 DEF JobInv, ListHeld
    <3>4. PICK r : r = envKeys'[e][w]
      OBVIOUS
    <3>5. r = Rewrap(now, seen, v, j)
      BY <2>1, <3>1, <3>4
    <3>6. /\ r \in EnvKey \cup {NoEnvKey}
          /\ (r = NoEnvKey) <=> (now = NoEnvKey)
          /\ r.dek = now.dek /\ r.status = now.status
          /\ r = now \/ (r.by = j /\ r.under = v)
      <4>1. CASE seen # NoEnvKey /\ now # NoEnvKey
        <5>1. now \in EnvKey /\ seen \in EnvKey /\ seen.dek = now.dek
          BY <3>2, <3>3, <4>1
        <5>2. r = [now EXCEPT !.dek = seen.dek, !.by = j, !.under = v]
          BY <3>5, <4>1 DEF Rewrap
        <5>3. v \in Version /\ j \in Maker
          BY <1>4 DEF Maker
        <5>4. /\ r \in EnvKey /\ r.dek = now.dek /\ r.status = now.status /\ r.by = j
              /\ r.under = v
          BY <5>1, <5>2, <5>3 DEF EnvKey
        <5> QED
          BY <4>1, <5>4, Missing
      <4>2. CASE ~(seen # NoEnvKey /\ now # NoEnvKey)
        BY <3>2, <3>5, <4>2 DEF Rewrap
      <4> QED
        BY <4>1, <4>2
    <3> QED
      BY <3>1, <3>4, <3>6
  <2>7. envKeys' \in [Env -> [Version -> EnvKey \cup {NoEnvKey}]]
    <3>1. ASSUME NEW e \in Env PROVE envKeys'[e] \in [Version -> EnvKey \cup {NoEnvKey}]
      <4>1. envKeys'[e] = [w \in Version |-> Rewrap(envKeys[e][w], c.keys[e][w], v, j)]
        BY <2>1
      <4>2. \A w \in Version : envKeys'[e][w] \in EnvKey \cup {NoEnvKey}
        BY <2>6
      <4> QED
        BY <4>1, <4>2
    <3> QED
      BY <2>1, <3>1
  <2>8. ProjectKept
    <3>1. project.current <= project'.current
      BY <1>3, <1>4, <2>2, <2>3
    <3> QED
      BY <1>6, <2>3, <2>4, <3>1 DEF ProjectKept
  <2>9. EnvsKept
    BY <2>1, <2>6, Parts DEF EnvsKept, EnvKept, Live, Holder
  <2>10. RowsOK
    <3>1. Nested'
      <4>1. ASSUME NEW e \in Env, ~Live(e)
            PROVE  \A w \in Version : envKeys'[e][w] = NoEnvKey
        BY <2>6, <4>1, Parts DEF Nested
      <4>2. UNCHANGED <<envs, secrets>>
        BY <2>1
      <4> QED
        BY <2>3, <4>1, <4>2, Parts DEF Nested, Live
    <3>2. KeysOpen'
      <4> SUFFICES ASSUME NEW e \in Env, NEW w \in Version, envKeys'[e][w] # NoEnvKey
                   PROVE  projectKeys'[envKeys'[e][w].under].key = envKeys'[e][w].by
        BY DEF KeysOpen
      <4>1. CASE envKeys'[e][w] = envKeys[e][w]
        <5>1. envKeys[e][w].under \in Version
          BY <4>1, Parts DEF EnvKey
        <5> QED
          BY <2>4, <4>1, <5>1, Parts DEF KeysOpen
      <4>2. CASE envKeys'[e][w].by = j /\ envKeys'[e][w].under = v
        BY <1>4, <2>2, <2>4, <4>2
      <4> QED
        BY <2>6, <4>1, <4>2
    <3>3. CurrentKeyActive'
      <4>1. ASSUME NEW w \in Version PROVE ProjectRung(w)'
        <5>1. PICK now, next : now = projectKeys[w] /\ next = projectKeys'[w]
          OBVIOUS
        <5>2. /\ w \in Nat /\ v = c.version + 1
              /\ now # NoProjectKey =>
                   /\ w <= c.version + 1
                   /\ now.status = IF w < c.version THEN "retired" ELSE "active"
              /\ w <= c.version => now # NoProjectKey
          BY <1>3, <2>2, <5>1, RungsHold DEF ProjectRung, Version
        <5>3. /\ (next = NoProjectKey) <=> (now = NoProjectKey)
              /\ next.status = IF w + 1 = v THEN "retired" ELSE now.status
              /\ w = v => now # NoProjectKey
          BY <2>2, <2>4, <5>1
        <5>4. /\ next # NoProjectKey =>
                   /\ w <= v + 1
                   /\ next.status = IF w < v THEN "retired" ELSE "active"
              /\ w <= v => next # NoProjectKey
          BY <1>4, <5>2, <5>3
        <5> QED
          BY <2>3, <5>1, <5>4 DEF ProjectRung
      <4>2. ASSUME NEW e \in Env, NEW w \in Version PROVE EnvRung(e, w)'
        <5>1. envs' = envs
          BY <2>1
        <5> QED
          BY <2>6, <5>1, RungsHold DEF EnvRung
      <4> QED
        BY <4>1, <4>2, Rungs
    <3>4. /\ secrets' = secrets /\ acked' = acked /\ raced' = raced /\ envs' = envs
      BY <2>1 DEF history
    <3> QED
      BY <2>3, <2>5, <2>6, <2>7, <3>1, <3>2, <3>3, <3>4, SecretsSame, Parts DEF RowsOK
  <2>11. ASSUME NEW k \in Job \ {j} PROVE OtherKept(k)
    <3>1. JobInv(k) /\ job'[k] = job[k] /\ envs' = envs
      BY <1>5, <2>1, Parts
    <3>2. job[k].pc # "switchProject"
      BY <1>3, <1>6, <2>2, <3>1 DEF JobInv, SwitchHeld
    <3>3. \A n \in Name : ValueKept(job[k].env, n)
      BY <2>1 DEF ValueKept, history
    <3> QED
      BY <3>1, <3>2, <3>3 DEF OtherKept, JobInv, CreateHeld
  <2> QED
    BY <1>5, <2>8, <2>9, <2>10, <2>11, Combine DEF OthersOK
<1>7. CASE project.stage # "live"
  BY <1>1, <1>3, <1>7, FailStep DEF SwitchProjectKey, Fail, keys
<1> QED
  BY <1>6, <1>7

-----------------------------------------------------------------------------
(* Deletion *)

\* What a cascade leaves: the environments that are gone have no rows, the
\* others are as they were.
LEMMA Cascaded ==
  ASSUME IInv, NEW gone \in SUBSET Env, Cascade(gone)
  PROVE  /\ envs' \in [Env -> Holder]
         /\ envKeys' \in [Env -> [Version -> EnvKey \cup {NoEnvKey}]]
         /\ secrets' \in [Env -> [Name -> Secret \cup {NoSecret}]]
         /\ acked' \in [Env -> [Name -> Maker \cup {NULL}]] /\ raced' \subseteq Env \X Name
         /\ \A e \in gone :
              /\ ~Live(e)' /\ envs'[e].current = 0
              /\ envs[e].stage # "none" => envs'[e].stage = "gone"
              /\ envs[e].stage = "none" => envs'[e].stage = "none"
              /\ \A v \in Version : envKeys'[e][v] = NoEnvKey
              /\ \A n \in Name : secrets'[e][n] = NoSecret /\ acked'[e][n] = NULL
         /\ \A e \in Env \ gone :
              /\ envs'[e] = envs[e] /\ envKeys'[e] = envKeys[e]
              /\ secrets'[e] = secrets[e] /\ acked'[e] = acked[e]
              /\ \A n \in Name : <<e, n>> \in raced' <=> <<e, n>> \in raced
<1>1. \A e \in Env : /\ envs[e] \in Holder
                     /\ ~Live(e) => envs[e].current = 0
  BY Parts DEF Nested
<1>2. PICK dead : dead = [stage |-> "gone", current |-> 0]
  OBVIOUS
<1>3. dead \in Holder /\ dead.stage = "gone" /\ dead.current = 0
  BY <1>2, VaultAssumption DEF Holder, Stage
<1>4. \A e \in Env : envs'[e] = IF e \in gone /\ Live(e) THEN dead ELSE envs[e]
  BY <1>2 DEF Cascade
<1>5. envs' \in [Env -> Holder]
  BY <1>1, <1>2, <1>3 DEF Cascade
<1>6. /\ envKeys' \in [Env -> [Version -> EnvKey \cup {NoEnvKey}]]
      /\ secrets' \in [Env -> [Name -> Secret \cup {NoSecret}]]
      /\ acked' \in [Env -> [Name -> Maker \cup {NULL}]] /\ raced' \subseteq Env \X Name
  BY Parts DEF Cascade, NoRows
<1>7. ASSUME NEW e \in gone
      PROVE  /\ ~Live(e)' /\ envs'[e].current = 0
             /\ envs[e].stage # "none" => envs'[e].stage = "gone"
             /\ envs[e].stage = "none" => envs'[e].stage = "none"
             /\ \A v \in Version : envKeys'[e][v] = NoEnvKey
             /\ \A n \in Name : secrets'[e][n] = NoSecret /\ acked'[e][n] = NULL
  <2>1. /\ \A v \in Version : envKeys'[e][v] = NoEnvKey
        /\ \A n \in Name : secrets'[e][n] = NoSecret /\ acked'[e][n] = NULL
    BY DEF Cascade, NoRows
  <2> QED
    BY <1>1, <1>3, <1>4, <2>1 DEF Live, Holder, Stage
<1>8. ASSUME NEW e \in Env \ gone
      PROVE  /\ envs'[e] = envs[e] /\ envKeys'[e] = envKeys[e]
             /\ secrets'[e] = secrets[e] /\ acked'[e] = acked[e]
             /\ \A n \in Name : <<e, n>> \in raced' <=> <<e, n>> \in raced
  BY DEF Cascade
<1> QED
  BY <1>5, <1>6, <1>7, <1>8

\* A cascade, with the project as it was or gone altogether.
LEMMA CascadeStep ==
  ASSUME IInv, NEW j \in Job, NEW gone \in SUBSET Env, Cascade(gone), End(j),
         \/ UNCHANGED <<project, projectKeys>>
         \/ /\ gone = Env /\ project' = [stage |-> "gone", current |-> 0]
            /\ projectKeys' = [v \in Version |-> NoProjectKey]
  PROVE  IInv' /\ EnvsKept
<1>1. CallOK(j) /\ \A k \in Job \ {j} : job'[k] = job[k]
  BY EndOK
<1>2. EnvsKept
  <2> SUFFICES ASSUME NEW e \in Env PROVE EnvKept(e)
    BY DEF EnvsKept
  <2>1. CASE e \in gone
    BY <2>1, Cascaded DEF EnvKept
  <2>2. CASE e \notin gone
    BY <2>2, Cascaded, Parts DEF EnvKept, Live, Holder
  <2> QED
    BY <2>1, <2>2
<1>3. /\ project' \in Holder
      /\ projectKeys' \in [Version -> ProjectKey \cup {NoProjectKey}] /\ ProjectKept
  BY Parts, VaultAssumption DEF ProjectKept, Holder, Stage
<1>4. Nested'
  <2>1. ASSUME NEW e \in Env, ~Live(e)'
        PROVE  /\ envs'[e].current = 0
               /\ \A v \in Version : envKeys'[e][v] = NoEnvKey
               /\ \A n \in Name : secrets'[e][n] = NoSecret
    <3>1. CASE e \in gone
      BY <3>1, Cascaded
    <3>2. CASE e \notin gone
      <4>1. ~Live(e)
        BY <2>1, <3>2, Cascaded DEF Live
      <4> QED
        BY <3>2, <4>1, Cascaded, Parts DEF Nested
    <3> QED
      BY <3>1, <3>2
  <2>2. project'.stage # "live" =>
          /\ project'.current = 0
          /\ \A v \in Version : projectKeys'[v] = NoProjectKey
          /\ \A e \in Env : ~Live(e)'
    <3>1. CASE UNCHANGED <<project, projectKeys>>
      <4>1. \A e \in Env : Live(e)' => Live(e)
        BY Cascaded DEF Live
      <4> QED
        BY <3>1, <4>1, Parts DEF Nested
    <3>2. CASE /\ gone = Env /\ project' = [stage |-> "gone", current |-> 0]
               /\ projectKeys' = [v \in Version |-> NoProjectKey]
      BY <3>2, Cascaded
    <3> QED
      BY <3>1, <3>2
  <2> QED
    BY <2>1, <2>2 DEF Nested
<1>5. KeysOpen'
  <2> SUFFICES ASSUME NEW e \in Env, NEW v \in Version, envKeys'[e][v] # NoEnvKey
               PROVE  projectKeys'[envKeys'[e][v].under].key = envKeys'[e][v].by
    BY DEF KeysOpen
  <2>1. e \notin gone
    BY Cascaded
  <2>2. envKeys'[e][v] = envKeys[e][v] /\ projectKeys' = projectKeys
    BY <2>1, Cascaded
  <2> QED
    BY <2>2, Parts DEF KeysOpen
<1>6. CurrentKeyActive'
  <2>1. ASSUME NEW v \in Version PROVE ProjectRung(v)'
    <3>1. CASE UNCHANGED <<project, projectKeys>>
      BY <3>1, RungsHold DEF ProjectRung
    <3>2. CASE /\ gone = Env /\ project' = [stage |-> "gone", current |-> 0]
               /\ projectKeys' = [w \in Version |-> NoProjectKey]
      <4>1. /\ project'.current = 0 /\ projectKeys'[v] = NoProjectKey
            /\ v \in Nat /\ ~(v <= 0)
        BY <3>2 DEF Version
      <4> QED
        BY <4>1 DEF ProjectRung
    <3> QED
      BY <3>1, <3>2
  <2>2. ASSUME NEW e \in Env, NEW v \in Version PROVE EnvRung(e, v)'
    <3>1. CASE e \in gone
      BY <3>1, Cascaded DEF EnvRung, Version
    <3>2. CASE e \notin gone
      <4>1. envs'[e] = envs[e] /\ envKeys'[e] = envKeys[e] /\ EnvRung(e, v)
        BY <3>2, Cascaded, RungsHold
      <4> QED
        BY <4>1 DEF EnvRung
    <3> QED
      BY <3>1, <3>2
  <2> QED
    BY <2>1, <2>2, Rungs
<1>7. SealedUnderStoredKey'
  <2> SUFFICES ASSUME NEW e \in Env, NEW n \in Name, secrets'[e][n] # NoSecret
               PROVE  LET s == secrets'[e][n]
                      IN  /\ s.box.id = s.id /\ s.box.keyVersion = s.keyVersion
                          /\ s.box.dek = envKeys'[e][s.keyVersion].dek
    BY DEF SealedUnderStoredKey
  <2>1. e \notin gone
    BY Cascaded
  <2>2. secrets'[e] = secrets[e] /\ envKeys'[e] = envKeys[e]
    BY <2>1, Cascaded
  <2> QED
    BY <2>2, Parts DEF SealedUnderStoredKey
<1>8. NothingLost'
  <2> SUFFICES ASSUME NEW e \in Env, NEW n \in Name, <<e, n>> \notin raced'
               PROVE  /\ (secrets'[e][n] = NoSecret) <=> (acked'[e][n] = NULL)
                      /\ secrets'[e][n] # NoSecret =>
                           /\ Opens(secrets'[e][n], envKeys'[e][secrets'[e][n].keyVersion].dek)
                           /\ secrets'[e][n].box.value = acked'[e][n]
    BY DEF NothingLost, Opens, Seal
  <2>1. CASE e \in gone
    BY <2>1, Cascaded
  <2>2. CASE e \notin gone
    <3>1. /\ secrets'[e] = secrets[e] /\ envKeys'[e] = envKeys[e] /\ acked'[e] = acked[e]
          /\ <<e, n>> \notin raced
      BY <2>2, Cascaded
    <3> QED
      BY <3>1, Parts DEF NothingLost
  <2> QED
    BY <2>1, <2>2
<1>9. RowsOK
  BY <1>3, <1>4, <1>5, <1>6, <1>7, <1>8, Cascaded DEF RowsOK
<1>10. ASSUME NEW k \in Job \ {j} PROVE OtherKept(k)
  <2>1. JobInv(k) /\ job'[k] = job[k]
    BY <1>1, Parts
  <2>2. ASSUME NEW e \in Env, Live(e)' PROVE envs'[e] = envs[e]
    BY <2>2, Cascaded
  <2>3. project'.stage = "live" => project'.current = project.current
    OBVIOUS
  <2>4. job[k].pc = "switch" => job[k].env \in Env
    BY <2>1 DEF JobInv, Progress
  <2>5. ASSUME job[k].kind = "createEnv", job[k].pc \in {"wrap", "insertRow"}
        PROVE  envs'[job[k].env].stage = "none"
    <3>1. job[k].env \in Env /\ envs[job[k].env].stage = "none"
      BY <2>1, <2>5 DEF JobInv, CreateHeld
    <3> QED
      BY <3>1, Cascaded
  <2>6. ASSUME job[k].kind = "rotateEnv", job[k].pc \in {"insertKey", "switch"},
               NEW n \in Name
        PROVE  ValueKept(job[k].env, n)
    <3>1. job[k].env \in Env
      BY <2>1, <2>6 DEF JobInv, Progress
    <3> QED
      BY <3>1, Cascaded DEF ValueKept
  <2> QED
    BY <2>1, <2>2, <2>3, <2>4, <2>5, <2>6 DEF OtherKept
<1> QED
  BY <1>1, <1>2, <1>3, <1>9, <1>10, Combine DEF OthersOK

LEMMA DeleteEnvStep ==
  ASSUME IInv, NEW j \in Job, DeleteEnv(j)
  PROVE  IInv' /\ EnvsKept
<1>1. job[j].env \in Env
  BY Parts DEF DeleteEnv, At, JobInv, Progress
<1>2. {job[j].env} \in SUBSET Env
  BY <1>1
<1> QED
  BY <1>2, CascadeStep DEF DeleteEnv

LEMMA DeleteProjectStep ==
  ASSUME IInv, NEW j \in Job, DeleteProject(j)
  PROVE  IInv' /\ EnvsKept
<1>1. Env \in SUBSET Env
  OBVIOUS
<1> QED
  BY <1>1, CascadeStep DEF DeleteProject

-----------------------------------------------------------------------------
(* Every step, and what follows *)

\* What is in the vault before the first call fits, and no call has begun.
LEMMA StartInv ==
  ASSUME NEW hasProject \in BOOLEAN, NEW populated \in SUBSET Env,
         NEW set \in SUBSET Name, populated # {} => hasProject,
         Start(hasProject, populated, set)
  PROVE  IInv
<1> USE VaultAssumption
<1>1. /\ 1 \in Version /\ 0 \in 0 .. MaxVersion /\ 1 \in 0 .. MaxVersion /\ Genesis \in Maker
  BY DEF Version, Maker
<1>2. /\ project = IF hasProject THEN [stage |-> "live", current |-> 1]
                   ELSE [stage |-> "none", current |-> 0]
      /\ project \in Holder
  BY <1>1 DEF Start, Holder, Stage
<1>3. PICK pk : pk = [key |-> Genesis, status |-> "active"]
  OBVIOUS
<1>4. pk \in ProjectKey /\ pk # NoProjectKey /\ pk.status = "active" /\ pk.key = Genesis
  BY <1>1, <1>3, Missing DEF ProjectKey
<1>5. projectKeys = [v \in Version |-> IF hasProject /\ v = 1 THEN pk ELSE NoProjectKey]
  BY <1>3 DEF Start
<1>6. PICK ek : ek = [dek |-> Genesis, by |-> Genesis, under |-> 1, status |-> "active"]
  OBVIOUS
<1>7. /\ ek \in EnvKey /\ ek # NoEnvKey /\ ek.status = "active" /\ ek.dek = Genesis
      /\ ek.by = Genesis /\ ek.under = 1
  BY <1>1, <1>6, Missing DEF EnvKey
<1>8. envKeys = [e \in Env |-> [v \in Version |->
                   IF e \in populated /\ v = 1 THEN ek ELSE NoEnvKey]]
  BY <1>6 DEF Start
<1>9. PICK live, none : live = [stage |-> "live", current |-> 1]
                        /\ none = [stage |-> "none", current |-> 0]
  OBVIOUS
<1>10. /\ live \in Holder /\ none \in Holder /\ live.stage = "live" /\ live.current = 1
       /\ none.stage = "none" /\ none.current = 0
       /\ envs = [e \in Env |-> IF e \in populated THEN live ELSE none]
  BY <1>1, <1>9 DEF Start, Holder, Stage
<1>11. PICK s : s = [id |-> Genesis, version |-> 1, keyVersion |-> 1,
                     box |-> [id |-> Genesis, version |-> 1, keyVersion |-> 1,
                              dek |-> Genesis, value |-> Genesis]]
  OBVIOUS
<1>12. /\ s \in Secret /\ s # NoSecret /\ s.id = Genesis /\ s.keyVersion = 1 /\ s.version = 1
       /\ s.box = Seal(Genesis, 1, 1, Genesis, Genesis) /\ s.box.value = Genesis
       /\ s.box.id = Genesis /\ s.box.keyVersion = 1 /\ s.box.dek = Genesis
  BY <1>1, <1>11, Missing DEF Secret, Box, Seal
<1>13. secrets = [e \in Env |-> [n \in Name |->
                    IF e \in populated /\ n \in set THEN s ELSE NoSecret]]
  BY <1>11 DEF Start, FirstSecret, Seal
<1>14. /\ acked = [e \in Env |-> [n \in Name |->
                     IF e \in populated /\ n \in set THEN Genesis ELSE NULL]]
       /\ raced = {} /\ job = [j \in Job |-> NoJob]
  BY DEF Start
<1>15. TypeOK
  BY <1>1, <1>2, <1>4, <1>5, <1>7, <1>8, <1>10, <1>12, <1>13, <1>14, NoCallType DEF TypeOK
<1>16. Nested
  BY <1>2, <1>5, <1>8, <1>10, <1>13 DEF Nested, Live
<1>17. KeysOpen
  BY <1>1, <1>4, <1>5, <1>7, <1>8 DEF KeysOpen
<1>18. CurrentKeyActive
  <2>1. \A v \in Version : v \in Nat /\ 1 <= v
    BY DEF Version
  <2>2. ASSUME NEW v \in Version PROVE ProjectRung(v)
    <3>1. CASE hasProject /\ v = 1
      <4>1. /\ projectKeys[v] # NoProjectKey /\ projectKeys[v].status = "active"
            /\ v = 1 /\ project.current = 1
        BY <1>2, <1>4, <1>5, <3>1
      <4> QED
        BY <4>1 DEF ProjectRung
    <3>2. CASE ~(hasProject /\ v = 1)
      <4>1. projectKeys[v] = NoProjectKey /\ ~(v <= project.current)
        BY <1>2, <1>5, <2>1, <3>2 DEF Version
      <4> QED
        BY <4>1 DEF ProjectRung
    <3> QED
      BY <3>1, <3>2
  <2>3. ASSUME NEW e \in Env, NEW v \in Version PROVE EnvRung(e, v)
    <3>1. CASE e \in populated /\ v = 1
      <4>1. /\ envKeys[e][v] # NoEnvKey /\ envKeys[e][v].status = "active"
            /\ v = 1 /\ envs[e].current = 1
        BY <1>7, <1>8, <1>10, <3>1
      <4> QED
        BY <4>1 DEF EnvRung
    <3>2. CASE ~(e \in populated /\ v = 1)
      <4>1. envKeys[e][v] = NoEnvKey /\ ~(v <= envs[e].current)
        BY <1>8, <1>10, <2>1, <3>2 DEF Version
      <4> QED
        BY <4>1 DEF EnvRung
    <3> QED
      BY <3>1, <3>2
  <2>4. Ladder(project.current, [v \in Version |-> projectKeys[v] # NoProjectKey],
               [v \in Version |-> projectKeys[v].status])
    BY <2>2 DEF ProjectRung, Ladder
  <2>5. ASSUME NEW e \in Env
        PROVE  Ladder(envs[e].current, [v \in Version |-> envKeys[e][v] # NoEnvKey],
                      [v \in Version |-> envKeys[e][v].status])
    BY <2>3 DEF EnvRung, Ladder
  <2> QED
    BY <2>4, <2>5 DEF CurrentKeyActive
<1>19. SealedUnderStoredKey
  BY <1>1, <1>7, <1>8, <1>12, <1>13 DEF SealedUnderStoredKey
<1>20. NothingLost
  BY <1>1, <1>7, <1>8, <1>12, <1>13, <1>14, Missing DEF NothingLost, Opens
<1>21. \A j \in Job : /\ job[j] = NoJob /\ NoJob.pc = "idle" /\ NoJob.kind = "none"
                      /\ NoJob.row = NoEnvKey /\ NoJob.wrapper.version = 0
                      /\ NoJob.keys = [e \in Env |-> [v \in Version |-> NoEnvKey]]
  BY <1>14 DEF NoJob
<1>22. DeliveredUnderOneKey /\ OneCreator
  BY <1>21 DEF DeliveredUnderOneKey, OneCreator
<1>23. ASSUME NEW j \in Job PROVE JobInv(j)
  BY <1>21 DEF JobInv, Progress, RowHeld, WrapperHeld, ListHeld, SwitchHeld, ValuesHeld,
     CreateHeld
<1> QED
  BY <1>15, <1>16, <1>17, <1>18, <1>19, <1>20, <1>22, <1>23 DEF IInv

\* The three ways a model may start are cases of Start.
LEMMA InitInv == Init => IInv
<1>1. Start(FALSE, {}, {}) => IInv
  BY StartInv
<1>2. Start(TRUE, {}, {}) => IInv
  BY StartInv
<1>3. ASSUME NEW e \in CloudEnvs, NEW set \in SUBSET Name, Start(TRUE, {e}, set)
      PROVE  IInv
  <2>1. {e} \in SUBSET Env
    BY DEF CloudEnvs
  <2> QED
    BY <1>3, <2>1, StartInv
<1> QED
  BY <1>1, <1>2, <1>3 DEF Init

\* Every step keeps the invariant, and the keys of an environment.
LEMMA NextInv == IInv /\ [Next]_vars => IInv' /\ EnvsKept
<1> SUFFICES ASSUME IInv, [Next]_vars PROVE IInv' /\ EnvsKept
  OBVIOUS
<1>1. ASSUME NEW j \in Job, NEW e \in Env,
             \/ \E names \in (SUBSET Name) \ {{}} : StartWrite(j, e, names)
             \/ \E n \in Name : StartRemove(j, e, n)
             \/ StartRotateEnv(j, e)
             \/ StartCreateEnv(j, e)
             \/ StartDeleteEnv(j, e)
             \/ StartApprove(j, e)
      PROVE  IInv' /\ EnvsKept
  BY <1>1, StartWriteStep, StartRemoveStep, StartRotateEnvStep, StartCreateEnvStep,
     StartDeleteEnvStep, StartApproveStep
<1>2. ASSUME NEW j \in Job, NEW n \in Name, ReadSecret(j, n) PROVE IInv' /\ EnvsKept
  BY <1>2, ReadSecretStep
<1>3. ASSUME NEW j \in Job,
             \/ StartRotateProject(j) \/ StartCreateProject(j) \/ StartDeleteProject(j)
             \/ OpenProject(j) \/ Wrap(j) \/ ListSecrets(j) \/ ListEnvKeys(j)
             \/ PrepareSnapshot(j) \/ Release(j) \/ Recheck(j) \/ Complete(j)
      PROVE  IInv' /\ EnvsKept
  BY <1>3, StartRotateProjectStep, StartCreateProjectStep, StartDeleteProjectStep,
     OpenProjectStep, WrapStep, ListSecretsStep, ListEnvKeysStep, PrepareSnapshotStep,
     ReleaseStep, RecheckStep, CompleteStep
<1>4. ASSUME NEW j \in Job,
             \/ WriteSecret(j) \/ RemoveSecret(j) \/ InsertEnv(j) \/ InsertEnvKey(j)
             \/ SwitchEnvKey(j) \/ InsertProject(j) \/ InsertProjectKey(j)
             \/ SwitchProjectKey(j) \/ DeleteEnv(j) \/ DeleteProject(j)
      PROVE  IInv' /\ EnvsKept
  BY <1>4, WriteSecretStep, RemoveSecretStep, InsertEnvStep, InsertEnvKeyStep,
     SwitchEnvKeyStep, InsertProjectStep, InsertProjectKeyStep, SwitchProjectKeyStep,
     DeleteEnvStep, DeleteProjectStep
<1>5. CASE UNCHANGED vars
  <2>1. UNCHANGED <<keys, secrets, history>> /\ job' = job
    BY <1>5 DEF vars, keys, history
  <2>2. RowsOK /\ EnvsKept
    BY <2>1, RowsSame
  <2>3. /\ TypeOK' /\ DeliveredUnderOneKey' /\ OneCreator'
    BY SMTT(40), <2>1, <2>2, Parts DEF TypeOK, RowsOK, DeliveredUnderOneKey, Delivered, OneCreator
  <2>4. \A j \in Job : JobInv(j)'
    BY <1>5, Parts DEF vars, JobInv, Progress, RowHeld, WrapperHeld, ListHeld, SwitchHeld,
       ValuesHeld, CreateHeld, Live
  <2> QED
    BY <2>2, <2>3, <2>4 DEF IInv, RowsOK
<1> QED
  BY <1>1, <1>2, <1>3, <1>4, <1>5 DEF Next

\* In every state the vault can reach, whatever calls overlap and wherever one
\* stops, the rows fit each other and every call in flight fits the rows.
THEOREM VaultInvariant == Spec => []IInv
<1> QED
  BY InitInv, NextInv, PTL DEF Spec

\* Every variable always holds a value of its type.
THEOREM TypeCorrect == Spec => []TypeOK
<1>1. IInv => TypeOK
  BY DEF IInv
<1> QED
  BY <1>1, VaultInvariant, PTL

\* Every stored environment key opens with the project key it records, however
\* rotations of the two levels cross.
THEOREM EveryKeyOpens == Spec => []KeysOpen
<1>1. IInv => KeysOpen
  BY DEF IInv
<1> QED
  BY <1>1, VaultInvariant, PTL

\* The versions of both levels are a ladder with the current one active.
THEOREM CurrentIsActive == Spec => []CurrentKeyActive
<1>1. IInv => CurrentKeyActive
  BY DEF IInv
<1> QED
  BY <1>1, VaultInvariant, PTL

\* No secret names one key version and is sealed under another, or under a key
\* that is gone.
THEOREM SealedUnderItsKey == Spec => []SealedUnderStoredKey
<1>1. IInv => SealedUnderStoredKey
  BY DEF IInv
<1> QED
  BY <1>1, VaultInvariant, PTL

\* A write that was acknowledged, and crossed no key rotation, is there and opens.
THEOREM AcknowledgedIsKept == Spec => []NothingLost
<1>1. IInv => NothingLost
  BY DEF IInv
<1> QED
  BY <1>1, VaultInvariant, PTL

\* An approval delivers secrets under the one key of its envelope.
THEOREM OneKeyDelivered == Spec => []DeliveredUnderOneKey
<1>1. IInv => DeliveredUnderOneKey
  BY DEF IInv
<1> QED
  BY <1>1, VaultInvariant, PTL

\* A live environment never loses a key version, and its current version moves
\* up by one at a time.
THEOREM KeysStay == Spec => KeysOnlyGrow
<1>1. IInv /\ [Next]_vars =>
        [\A e \in Env : Live(e) /\ Live(e)' =>
           /\ envs'[e].current \in {envs[e].current, envs[e].current + 1}
           /\ \A v \in Version : envKeys[e][v] # NoEnvKey =>
                envKeys'[e][v].dek = envKeys[e][v].dek]_vars
  BY NextInv DEF EnvsKept, EnvKept, Live
<1> QED
  BY <1>1, VaultInvariant, PTL DEF Spec, KeysOnlyGrow

=============================================================================
