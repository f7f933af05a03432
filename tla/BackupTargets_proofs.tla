------------------------ MODULE BackupTargets_proofs ------------------------
(***************************************************************************)
(* Theorems about BackupTargets, for any number of targets, threads, jobs, *)
(* requests and crashes.                                                   *)
(*                                                                         *)
(* The file is written as a whole by whoever has read it, so what is true  *)
(* of the targets in it must be true of every target in somebody's memory  *)
(* as well: the file as it was loaded, and the target a job holds for as   *)
(* long as it runs.  Inv says so, and beside it what an actor at each step *)
(* holds.  The claims about writes that did not overlap need one part      *)
(* more: an actor since whose read nobody saved holds what the file holds, *)
(* but for its own change.                                                 *)
(***************************************************************************)
EXTENDS BackupTargets, TLAPS

-----------------------------------------------------------------------------
(* The inductive invariant.                                                 *)

CallerSteps == {"idle", "build", "load", "save", "submit"}
JobSteps == {"none", "begin", "validate", "sync", "transfer", "persist", "load", "save",
             "done"}
\* Steps at which an actor holds one target it has read.
Held == {"validate", "sync", "transfer", "persist", "load"}

Memory == [op : {"none", "change", "start", "job"}, target : Targets \cup {None},
           payload : Payloads \cup {None}, read : Target \cup {None},
           doc : Documents \cup {None}]
JobRecord == [type : {"none", "validation", "execution"}, target : Targets \cup {None}]

Types ==
    /\ TypeOK
    /\ pc \in [Actors -> CallerSteps \cup JobSteps]
    /\ mem \in [Actors -> Memory]
    /\ job \in [Jobs -> JobRecord]
    /\ latest \in [Targets -> Settings \cup {None}]

\* Snapshots that may be recorded.
Backups == snapshots \cap complete

\* What is claimed of one target, wherever it is kept.
SoundTarget(target, ids, backups) ==
    /\ target \in Target
    /\ target.settings.secret # None => target.settings.secret \in ids
    /\ target.backup # None /\ target.backup.snapshot # None
         => target.backup.snapshot \in backups
    /\ target.status \in {"ready", "warning", "failed", "unsupported"}
         => /\ target.test # None
            /\ target.test.settings = target.settings
            /\ target.status = target.test.status
            /\ target.status = "ready" => target.test.probed

SoundDocument(doc, ids, backups) ==
    /\ doc \in Documents
    /\ \A t \in Targets : doc[t] # None => SoundTarget(doc[t], ids, backups)

\* Which operation an actor at a step is in.
OperationAt(a) ==
    /\ a \in Callers =>
         /\ pc[a] \in CallerSteps
         /\ pc[a] \in {"load", "submit"} => mem[a].op = "start"
         /\ pc[a] = "build" => mem[a].op = "change"
         /\ pc[a] = "save" => mem[a].op \in {"change", "start"}
         /\ pc[a] = "idle" => mem[a].op # "start"
    /\ a \in Jobs =>
         /\ pc[a] \in JobSteps
         /\ pc[a] \in Held \cup {"save"} =>
              mem[a].op = "job" /\ mem[a].target = job[a].target
         /\ pc[a] = "none" <=> job[a].type = "none"
         /\ pc[a] # "none" => job[a].target \in Targets
         /\ pc[a] \in {"sync", "transfer", "persist"} => job[a].type = "execution"
    /\ pc[a] \in Held \cup {"build", "save", "submit"} => mem[a].target \in Targets

\* What an actor holds is as sound as what the file holds.
HoldsSound(a) ==
    /\ pc[a] \in Held => SoundTarget(mem[a].read, secrets, Backups)
    /\ pc[a] \in {"build", "save"} => SoundDocument(mem[a].doc, secrets, Backups)
    /\ pc[a] = "build" => mem[a].payload \in Payloads
    /\ pc[a] = "persist" => a \in complete

Sound ==
    /\ SoundDocument(document, secrets, Backups)
    /\ \A a \in Actors : HoldsSound(a)

\* A request and a finished validation leave no target running.
Decided(a) ==
    /\ (pc[a] = "save" /\ mem[a].op = "change" /\ mem[a].doc[mem[a].target] # None)
         => mem[a].doc[mem[a].target].status # "running"
    /\ a \in Jobs /\ job[a].type = "validation" =>
         /\ pc[a] = "load" => mem[a].read.status # "running"
         /\ pc[a] = "save" => mem[a].doc[mem[a].target].status # "running"

\* What a holds is what the file holds, but for a's own change.
Current(a) ==
    LET t == mem[a].target IN
    /\ pc[a] = "build" => mem[a].doc = document
    /\ pc[a] \in Held =>
         /\ document[t] # None
         /\ mem[a].read.settings = document[t].settings
         /\ a \in Jobs /\ job[a].type = "execution" => mem[a].read.status = document[t].status
    /\ pc[a] = "save" =>
         /\ \A u \in Targets \ {t} : mem[a].doc[u] = document[u]
         /\ mem[a].op # "change" =>
              /\ document[t] # None /\ mem[a].doc[t] # None
              /\ mem[a].doc[t].settings = document[t].settings
         /\ a \in Jobs /\ job[a].type = "execution" =>
              mem[a].doc[t].status = document[t].status

Quiet == ~raced => \A a \in Actors \ dirty : Current(a)

Inv ==
    /\ Types
    /\ \A a \in Actors : OperationAt(a)
    /\ Sound
    /\ \A a \in Actors : Decided(a)
    /\ Quiet
    /\ QuietUpdatesKept
    /\ RunningIsUnderWay

-----------------------------------------------------------------------------
(* The operators the actions are built from.                                *)

\* Every check ends in one of four ways.
LEMMA CheckStatuses ==
    ASSUME NEW s \in Settings, NEW env \in Environment
    PROVE  Statuses(Checks(s, env)) \subseteq {"pass", "warn", "fail", "skip"}
<1>1. ASSUME NEW check \in Checks(s, env)
      PROVE  check[2] \in {"pass", "warn", "fail", "skip"}
  BY <1>1
     DEF Checks, RemoteChecks, DirectoryChecks, SmbChecks, ToolChecks, AgentChecks,
         KnownHostsChecks, ProbeChecks, Outcome
<1> QED
  BY <1>1 DEF Statuses

\* _state_from_checks: a validation is completed only when every relevant check
\* passed.
LEMMA CompletedPasses ==
    ASSUME NEW s \in Settings, NEW env \in Environment,
           ValidationState(s, env) = "completed"
    PROVE  \A check \in RelevantChecks(s, Checks(s, env)) : check[2] = "pass"
<1> DEFINE relevant == RelevantChecks(s, Checks(s, env))
<1>1. relevant \subseteq Checks(s, env)
  BY DEF RelevantChecks
<1>2. Statuses(relevant) \subseteq {"pass", "warn", "fail", "skip"}
  BY <1>1, CheckStatuses DEF Statuses
<1> HIDE DEF relevant
<1>3. "fail" \notin Statuses(relevant)
  BY DEF ValidationState, StateFromChecks, relevant
<1>4. ~(Statuses(relevant) \subseteq {"pass", "skip"} /\ "skip" \in Statuses(relevant))
  BY <1>3 DEF ValidationState, StateFromChecks, relevant
<1>5. "warn" \notin Statuses(relevant)
  BY <1>3, <1>4 DEF ValidationState, StateFromChecks, relevant
<1>6. Statuses(relevant) \subseteq {"pass"}
  BY <1>2, <1>3, <1>4, <1>5
<1> QED
  BY <1>6 DEF Statuses, relevant

\* Whatever the environment, a validation that ends "completed" has written to
\* the destination: a directory that was writable, or a remote one whose write
\* probe went through over ssh (_checks_for_target).
THEOREM CompletedIsProbed ==
    ASSUME NEW s \in Settings, NEW env \in Environment,
           ValidationState(s, env) = "completed"
    PROVE  Probed(s, env)
<1> DEFINE relevant == RelevantChecks(s, Checks(s, env))
<1>1. \A check \in relevant : check[2] = "pass"
  BY CompletedPasses
<1>2. s.kind \in Kinds
  BY DEF Settings
<1>3. CASE s.kind \in PathKinds
  <2>1. <<"directory", Outcome("pass", "fail", env.writable)>> \in relevant
    BY <1>3
       DEF RelevantChecks, Checks, SmbChecks, DirectoryChecks, PathKinds, RemoteKinds
  <2>2. Outcome("pass", "fail", env.writable) = "pass"
    BY <2>1, <1>1
  <2>3. env.writable
    BY <2>2 DEF Outcome
  <2> QED
    BY <1>3, <2>3 DEF Probed
<1>4. CASE s.kind = "system_mount"
  <2>1. <<"smb_execution_mode", "skip">> \in relevant
    BY <1>4 DEF RelevantChecks, Checks, SmbChecks, RemoteKinds
  <2> QED
    BY <2>1, <1>1
<1>5. CASE s.kind = "password"
  <2>1. <<"remote_auth_mode", "skip">> \in relevant
    BY <1>5 DEF RelevantChecks, Checks, RemoteChecks, RemoteKinds
  <2> QED
    BY <2>1, <1>1
<1>6. CASE s.kind \in {"agent", "private_key"}
  <2> DEFINE local == ToolChecks(s, env) \cup AgentChecks(s, env) \cup KnownHostsChecks(s, env)
  <2>1. RemoteChecks(s, env) \subseteq Checks(s, env)
    BY <1>6 DEF Checks, RemoteKinds
  <2>2. \A check \in local : check[2] = "fail" => check[1] # "tool_rsync"
    BY DEF ToolChecks, AgentChecks, KnownHostsChecks, Outcome
  <2>3. "fail" \notin Statuses(local)
    <3> SUFFICES ASSUME "fail" \in Statuses(local) PROVE FALSE
      OBVIOUS
    <3>1. PICK check \in local : check[2] = "fail"
      BY DEF Statuses
    <3>2. check \in RemoteChecks(s, env)
      BY <1>6, <3>1 DEF RemoteChecks
    <3>3. check \in relevant
      BY <3>2, <2>1, <3>1, <2>2 DEF RelevantChecks
    <3> QED
      BY <3>3, <3>1, <1>1
  <2>4. RemoteChecks(s, env) = local \cup ProbeChecks(env)
    BY <1>6, <2>3 DEF RemoteChecks
  <2>5. \A check \in local \cup ProbeChecks(env) : check[1] # "tool_rsync" => check[2] = "pass"
    BY <2>4, <2>1, <1>1 DEF RelevantChecks
  <2>6. env.ssh
    <3>1. <<"tool_ssh", Outcome("pass", "fail", env.ssh)>> \in local
      BY DEF ToolChecks
    <3> QED
      BY <3>1, <2>5 DEF Outcome
  <2>7. env.probe = "ok"
    <3>1. CASE env.probe = "raises"
      <4>1. <<"remote_transport", "fail">> \in ProbeChecks(env)
        BY <3>1 DEF ProbeChecks
      <4> QED
        BY <4>1, <2>5
    <3>2. CASE env.probe # "raises"
      <4>1. <<"remote_write_probe", Outcome("pass", "fail", env.probe = "ok")>>
               \in ProbeChecks(env)
        BY <3>2 DEF ProbeChecks
      <4> QED
        BY <4>1, <2>5 DEF Outcome
    <3> QED
      BY <3>1, <3>2
  <2> QED
    BY <1>6, <2>6, <2>7 DEF Probed, PathKinds
<1> QED
  BY <1>2, <1>3, <1>4, <1>5, <1>6 DEF Kinds, PathKinds, RemoteKinds

\* The secret a built target refers to is on disk once the new one is.
LEMMA ResolvedThere ==
    ASSUME NEW payload \in Payloads, NEW existing \in Target \cup {None},
           existing # None /\ existing.settings.secret # None
             => existing.settings.secret \in secrets,
           NEW fresh \in IF PersistsSecret(payload) THEN Secrets \ secrets ELSE {None},
           Acceptable(payload, existing, fresh), secrets \subseteq Secrets
    PROVE  /\ ResolvedSecret(payload, existing, fresh) \in Secrets \cup {None}
           /\ ResolvedSecret(payload, existing, fresh) # None
                => ResolvedSecret(payload, existing, fresh)
                     \in IF fresh = None THEN secrets ELSE secrets \cup {fresh}
<1>1. payload.secret \in {"keep", "new"} \cup Secrets
  BY PayloadsAssumption DEF Payload, SecretInputs
<1>2. CASE SecretKind(payload.kind) = "none"
  BY <1>2 DEF ResolvedSecret
<1>3. CASE SecretKind(payload.kind) # "none" /\ payload.secret = "keep"
  <2>1. KeptSecret(payload.kind, existing) \in secrets \cup {None}
    BY DEF KeptSecret
  <2>2. ResolvedSecret(payload, existing, fresh) = KeptSecret(payload.kind, existing)
    BY <1>3 DEF ResolvedSecret
  <2> QED
    BY <2>1, <2>2
<1>4. CASE SecretKind(payload.kind) # "none" /\ payload.secret = "new"
  <2>1. ResolvedSecret(payload, existing, fresh) = fresh
    BY <1>4 DEF ResolvedSecret
  <2>2. fresh \in Secrets
    BY <1>4 DEF PersistsSecret
  <2> QED
    BY <2>1, <2>2
<1>5. CASE SecretKind(payload.kind) # "none" /\ payload.secret \notin {"keep", "new"}
  <2>1. ResolvedSecret(payload, existing, fresh) = payload.secret
    BY <1>5 DEF ResolvedSecret
  <2>2. payload.secret \in secrets
    BY <1>1, <1>5, <2>1 DEF Acceptable, Reusable
  <2> QED
    BY <2>1, <2>2
<1> QED
  BY <1>2, <1>3, <1>4, <1>5

\* _build_target keeps what is recorded of an existing target, and resets what
\* was verified.
LEMMA BuiltSound ==
    ASSUME NEW payload \in Payloads, NEW existing \in Target \cup {None}, NEW backups,
           existing # None => SoundTarget(existing, secrets, backups),
           NEW fresh \in IF PersistsSecret(payload) THEN Secrets \ secrets ELSE {None},
           NEW revision \in 0 .. MaxCalls,
           Acceptable(payload, existing, fresh), secrets \subseteq Secrets
    PROVE  /\ SoundTarget(Built(payload, existing, fresh, revision),
                          IF fresh = None THEN secrets ELSE secrets \cup {fresh}, backups)
           /\ Built(payload, existing, fresh, revision).status = "unknown"
<1> DEFINE id == ResolvedSecret(payload, existing, fresh)
<1>1. /\ id \in Secrets \cup {None}
      /\ id # None => id \in IF fresh = None THEN secrets ELSE secrets \cup {fresh}
  BY ResolvedThere DEF SoundTarget
<1> HIDE DEF id
<1> DEFINE new == Built(payload, existing, fresh, revision)
           test == IF existing = None THEN None ELSE existing.test
           backup == IF existing = None THEN None ELSE existing.backup
           settings == [kind |-> payload.kind, enabled |-> payload.enabled,
                        strict |-> payload.strict, secret |-> id, revision |-> revision]
<1>2. new = [settings |-> settings, status |-> "unknown", test |-> test, backup |-> backup]
  BY DEF Built, BuiltStatus, id
<1>3. settings \in Settings
  BY <1>1, PayloadsAssumption DEF Settings, Payload
<1>4. test \in TestResult \cup {None} /\ backup \in LastBackup \cup {None}
  BY DEF Target
<1>5. new \in Target
  BY <1>2, <1>3, <1>4 DEF Target, Status
<1>6. backup # None /\ backup.snapshot # None => backup.snapshot \in backups
  BY DEF SoundTarget
<1> QED
  BY <1>1, <1>2, <1>5, <1>6 DEF SoundTarget

\* A validation says of the settings it was run with what it found.
LEMMA TestedSound ==
    ASSUME NEW target, NEW ids, NEW backups, SoundTarget(target, ids, backups),
           NEW env \in Environment
    PROVE  /\ SoundTarget(Tested(target.settings, target, env), ids, backups)
           /\ Tested(target.settings, target, env).status # "running"
           /\ Tested(target.settings, target, env).settings = target.settings
<1> DEFINE s == target.settings
           state == ValidationState(s, env)
           verdict == Verification(state)
           result == [status |-> verdict, settings |-> s, probed |-> Probed(s, env)]
           tested == Tested(s, target, env)
<1>1. target \in Target /\ s \in Settings
  BY DEF SoundTarget, Target
<1>2. verdict \in {"ready", "failed", "unsupported", "warning"}
  BY DEF Verification
<1>3. verdict = "ready" => Probed(s, env)
  BY <1>1, CompletedIsProbed DEF Verification
<1>4. Probed(s, env) \in BOOLEAN
  BY DEF Probed, Environment
<1>5. result \in TestResult
  BY <1>1, <1>2, <1>4 DEF TestResult, Status
<1>6. tested = [target EXCEPT !.status = verdict, !.test = result]
  BY DEF Tested
<1> HIDE DEF verdict, result, s
<1>7. tested \in Target
  BY <1>1, <1>2, <1>5, <1>6 DEF Target, Status
<1>8. /\ tested.settings = s /\ tested.status = verdict /\ tested.test = result
      /\ tested.backup = target.backup
  BY <1>1, <1>6 DEF Target, s
<1>9. /\ result.settings = s /\ result.status = verdict
      /\ verdict = "ready" => result.probed
  BY <1>3 DEF result, s
<1>10. result # None
  BY <1>5, NoneAssumption
<1> QED
  BY <1>2, <1>7, <1>8, <1>9, <1>10 DEF SoundTarget, s

-----------------------------------------------------------------------------
(* Every step preserves each part of the invariant.                         *)

\* Actors stay at the steps of the code.
LEMMA StepsTyped ==
    Types /\ [Next]_vars
      => pc' \in [Actors -> CallerSteps \cup JobSteps]
<1> SUFFICES ASSUME Types, [Next]_vars
             PROVE  pc' \in [Actors -> CallerSteps \cup JobSteps]
  OBVIOUS
<1> USE DEF Types, CallerSteps, JobSteps
<1>1. ASSUME NEW a \in Actors, SaveTargetLoad(a)
      PROVE  pc' \in [Actors -> CallerSteps \cup JobSteps]
  BY <1>1 DEF SaveTargetLoad, Goes
<1>2. ASSUME NEW a \in Actors, Save(a) PROVE pc' \in [Actors -> CallerSteps \cup JobSteps]
  BY <1>2 DEF Save, Goes, AfterSave
<1>3. ASSUME NEW c \in Callers, NEW t \in Targets,
             NEW payload \in Payloads, ChangeLoad(c, t, payload)
      PROVE  pc' \in [Actors -> CallerSteps \cup JobSteps]
  BY <1>3 DEF ChangeLoad, Goes
<1>4. ASSUME NEW c \in Callers, ChangeBuild(c)
      PROVE  pc' \in [Actors -> CallerSteps \cup JobSteps]
  BY <1>4 DEF ChangeBuild, Goes
<1>5. ASSUME NEW c \in Callers, ChangeRefused(c)
      PROVE  pc' \in [Actors -> CallerSteps \cup JobSteps]
  BY <1>5 DEF ChangeRefused, Goes
<1>6. ASSUME NEW c \in Callers, NEW t \in Targets, Delete(c, t)
      PROVE  pc' \in [Actors -> CallerSteps \cup JobSteps]
  BY <1>6 DEF Delete, Goes
<1>7. ASSUME NEW c \in Callers, NEW t \in Targets, StartValidation(c, t)
      PROVE  pc' \in [Actors -> CallerSteps \cup JobSteps]
  BY <1>7 DEF StartValidation, Goes
<1>8. ASSUME NEW c \in Callers, SubmitValidation(c)
      PROVE  pc' \in [Actors -> CallerSteps \cup JobSteps]
  BY <1>8 DEF SubmitValidation, Goes
<1>9. ASSUME NEW c \in Callers, NEW t \in Targets, StartExecution(c, t)
      PROVE  pc' \in [Actors -> CallerSteps \cup JobSteps]
  BY <1>9 DEF StartExecution, Goes
<1>10. ASSUME NEW j \in Jobs, GetTarget(j)
      PROVE  pc' \in [Actors -> CallerSteps \cup JobSteps]
  BY <1>10 DEF GetTarget, Goes
<1>11. ASSUME NEW j \in Jobs, Validate(j)
      PROVE  pc' \in [Actors -> CallerSteps \cup JobSteps]
  BY <1>11 DEF Validate, Goes
<1>12. ASSUME NEW j \in Jobs, Execute(j)
      PROVE  pc' \in [Actors -> CallerSteps \cup JobSteps]
  BY <1>12 DEF Execute, Goes, Drops, Actors, AfterSave, AfterTransfer
<1>13. ASSUME NEW j \in Jobs, SyncMirror(j)
      PROVE  pc' \in [Actors -> CallerSteps \cup JobSteps]
  BY <1>13 DEF SyncMirror, Goes, Drops
<1>14. ASSUME NEW j \in Jobs, Transfer(j)
      PROVE  pc' \in [Actors -> CallerSteps \cup JobSteps]
  BY <1>14 DEF Transfer, Goes, AfterTransfer
<1>15. ASSUME NEW j \in Jobs, PersistSnapshot(j)
      PROVE  pc' \in [Actors -> CallerSteps \cup JobSteps]
  BY <1>15 DEF PersistSnapshot, Goes
<1>16. ASSUME Crash PROVE pc' \in [Actors -> CallerSteps \cup JobSteps]
  BY <1>16 DEF Crash, Goes
<1>17. CASE UNCHANGED vars
  BY <1>17 DEF vars, disk, history, Goes
<1> QED
  BY <1>1, <1>2, <1>3, <1>4, <1>5, <1>6, <1>7, <1>8, <1>9, <1>10, <1>11, <1>12, <1>13,
     <1>14, <1>15, <1>16, <1>17
     DEF Next, CallStep, NewCall, JobStep, Actors

\* What a job is and which target it is for.
LEMMA JobsTyped ==
    Types /\ (\A a \in Actors : OperationAt(a)) /\ [Next]_vars
      => job' \in [Jobs -> JobRecord]
<1> SUFFICES ASSUME Types, \A a \in Actors : OperationAt(a), [Next]_vars
             PROVE  job' \in [Jobs -> JobRecord]
  OBVIOUS
<1> USE DEF Types, JobRecord
<1>1. ASSUME NEW a \in Actors, SaveTargetLoad(a) PROVE job' \in [Jobs -> JobRecord]
  BY <1>1 DEF SaveTargetLoad
<1>2. ASSUME NEW a \in Actors, Save(a) PROVE job' \in [Jobs -> JobRecord]
  BY <1>2 DEF Save
<1>3. ASSUME NEW c \in Callers, NEW t \in Targets,
             NEW payload \in Payloads, ChangeLoad(c, t, payload)
      PROVE  job' \in [Jobs -> JobRecord]
  BY <1>3 DEF ChangeLoad
<1>4. ASSUME NEW c \in Callers, ChangeBuild(c) PROVE job' \in [Jobs -> JobRecord]
  BY <1>4 DEF ChangeBuild
<1>5. ASSUME NEW c \in Callers, ChangeRefused(c) PROVE job' \in [Jobs -> JobRecord]
  BY <1>5 DEF ChangeRefused
<1>6. ASSUME NEW c \in Callers, NEW t \in Targets, Delete(c, t)
      PROVE  job' \in [Jobs -> JobRecord]
  BY <1>6 DEF Delete
<1>7. ASSUME NEW c \in Callers, NEW t \in Targets, StartValidation(c, t)
      PROVE  job' \in [Jobs -> JobRecord]
  BY <1>7 DEF StartValidation
<1>8. ASSUME NEW c \in Callers, SubmitValidation(c) PROVE job' \in [Jobs -> JobRecord]
  BY <1>8 DEF SubmitValidation, OperationAt, Held, Actors
<1>9. ASSUME NEW c \in Callers, NEW t \in Targets, StartExecution(c, t)
      PROVE  job' \in [Jobs -> JobRecord]
  BY <1>9 DEF StartExecution
<1>10. ASSUME NEW j \in Jobs, GetTarget(j) PROVE job' \in [Jobs -> JobRecord]
  BY <1>10 DEF GetTarget
<1>11. ASSUME NEW j \in Jobs, Validate(j) PROVE job' \in [Jobs -> JobRecord]
  BY <1>11 DEF Validate
<1>12. ASSUME NEW j \in Jobs, Execute(j) PROVE job' \in [Jobs -> JobRecord]
  BY <1>12 DEF Execute
<1>13. ASSUME NEW j \in Jobs, SyncMirror(j) PROVE job' \in [Jobs -> JobRecord]
  BY <1>13 DEF SyncMirror
<1>14. ASSUME NEW j \in Jobs, Transfer(j) PROVE job' \in [Jobs -> JobRecord]
  BY <1>14 DEF Transfer
<1>15. ASSUME NEW j \in Jobs, PersistSnapshot(j) PROVE job' \in [Jobs -> JobRecord]
  BY <1>15 DEF PersistSnapshot
<1>16. ASSUME Crash PROVE job' \in [Jobs -> JobRecord]
  BY <1>16 DEF Crash
<1>17. CASE UNCHANGED vars
  BY <1>17 DEF vars, disk, history
<1> QED
  BY <1>1, <1>2, <1>3, <1>4, <1>5, <1>6, <1>7, <1>8, <1>9, <1>10, <1>11, <1>12, <1>13,
     <1>14, <1>15, <1>16, <1>17
     DEF Next, CallStep, NewCall, JobStep, Actors

\* What actors hold has its type: whatever is taken from the file, built by a
\* request or tested by a job is a target again.
LEMMA MemTyped ==
    Types /\ (\A a \in Actors : OperationAt(a)) /\ Sound /\ [Next]_vars
      => mem' \in [Actors -> Memory]
<1> SUFFICES ASSUME Types, \A a \in Actors : OperationAt(a), Sound, [Next]_vars
             PROVE  mem' \in [Actors -> Memory]
  OBVIOUS
<1> USE DEF Types, Memory, Nothing, Actors
<1>1. ASSUME NEW a \in Actors, SaveTargetLoad(a) PROVE mem' \in [Actors -> Memory]
  <2>1. mem[a].target \in Targets /\ mem[a].read \in Target
    BY <1>1 DEF SaveTargetLoad, OperationAt, Sound, HoldsSound, Held, SoundTarget
  <2>2. Placed(document, mem[a].target, mem[a].read) \in Documents
    BY <2>1 DEF Placed, Documents, TypeOK
  <2> QED
    BY <1>1, <2>2 DEF SaveTargetLoad
<1>2. ASSUME NEW a \in Actors, Save(a) PROVE mem' \in [Actors -> Memory]
  BY <1>2 DEF Save
<1>3. ASSUME NEW c \in Callers, NEW t \in Targets,
             NEW payload \in Payloads, ChangeLoad(c, t, payload)
      PROVE  mem' \in [Actors -> Memory]
  <2>1. document \in Documents
    BY DEF TypeOK
  <2> QED
    BY <1>3, <2>1 DEF ChangeLoad
<1>4. ASSUME NEW c \in Callers, ChangeBuild(c) PROVE mem' \in [Actors -> Memory]
  <2> DEFINE t == mem[c].target
             payload == mem[c].payload
             existing == mem[c].doc[t]
  <2>1. t \in Targets /\ payload \in Payloads /\ SoundDocument(mem[c].doc, secrets, Backups)
    BY <1>4 DEF ChangeBuild, OperationAt, Sound, HoldsSound, Held
  <2>2. /\ existing \in Target \cup {None}
        /\ existing # None => SoundTarget(existing, secrets, Backups)
    BY <2>1 DEF SoundDocument, Documents
  <2>3. PICK fresh \in IF PersistsSecret(payload) THEN Secrets \ secrets ELSE {None} :
          /\ Acceptable(payload, existing, fresh)
          /\ mem' = [mem EXCEPT ![c].doc[t] = Built(payload, existing, fresh, calls)]
    BY <1>4 DEF ChangeBuild
  <2>4. calls \in 0 .. MaxCalls /\ secrets \subseteq Secrets
    BY DEF TypeOK
  <2> HIDE DEF t, payload, existing
  <2>5. Built(payload, existing, fresh, calls) \in Target
    BY <2>1, <2>2, <2>3, <2>4, BuiltSound DEF SoundTarget
  <2>6. [mem[c].doc EXCEPT ![t] = Built(payload, existing, fresh, calls)] \in Documents
    BY <2>1, <2>5 DEF SoundDocument, Documents
  <2> QED
    BY <2>3, <2>6
<1>5. ASSUME NEW c \in Callers, ChangeRefused(c) PROVE mem' \in [Actors -> Memory]
  BY <1>5 DEF ChangeRefused
<1>6. ASSUME NEW c \in Callers, NEW t \in Targets, Delete(c, t)
      PROVE  mem' \in [Actors -> Memory]
  <2>1. [document EXCEPT ![t] = None] \in Documents
    BY DEF TypeOK, Documents
  <2> QED
    BY <1>6, <2>1 DEF Delete
<1>7. ASSUME NEW c \in Callers, NEW t \in Targets, StartValidation(c, t)
      PROVE  mem' \in [Actors -> Memory]
  <2>1. document[t] \in Target
    BY <1>7 DEF StartValidation, TypeOK, Documents
  <2>2. [document[t] EXCEPT !.status = "running"] \in Target
    BY <2>1 DEF Target, Status
  <2> QED
    BY <1>7, <2>2 DEF StartValidation
<1>8. ASSUME NEW c \in Callers, SubmitValidation(c) PROVE mem' \in [Actors -> Memory]
  BY <1>8 DEF SubmitValidation
<1>9. ASSUME NEW c \in Callers, NEW t \in Targets, StartExecution(c, t)
      PROVE  mem' \in [Actors -> Memory]
  BY <1>9 DEF StartExecution
<1>10. ASSUME NEW j \in Jobs, GetTarget(j) PROVE mem' \in [Actors -> Memory]
  <2>1. job[j].target \in Targets
    BY <1>10 DEF GetTarget, OperationAt
  <2>2. document[job[j].target] \in Target \cup {None}
    BY <2>1 DEF TypeOK, Documents
  <2>3. CASE document[job[j].target] = None
    BY <1>10, <2>3 DEF GetTarget
  <2>4. CASE document[job[j].target] # None
    <3>1. mem' = [mem EXCEPT ![j] = [Nothing EXCEPT !.op = "job", !.target = job[j].target,
                                                    !.read = document[job[j].target]]]
      BY <1>10, <2>4 DEF GetTarget
    <3> QED
      BY <2>1, <2>2, <3>1
  <2> QED
    BY <2>3, <2>4
<1>11. ASSUME NEW j \in Jobs, Validate(j) PROVE mem' \in [Actors -> Memory]
  <2>1. SoundTarget(mem[j].read, secrets, Backups)
    BY <1>11 DEF Validate, Sound, HoldsSound, Held
  <2>2. PICK env \in Environment :
          mem' = [mem EXCEPT ![j].read = Tested(mem[j].read.settings, mem[j].read, env)]
    BY <1>11 DEF Validate
  <2>3. Tested(mem[j].read.settings, mem[j].read, env) \in Target
    BY <2>1, TestedSound DEF SoundTarget
  <2> QED
    BY <2>2, <2>3
<1>12. ASSUME NEW j \in Jobs, Execute(j) PROVE mem' \in [Actors -> Memory]
  BY <1>12 DEF Execute, Drops
<1>13. ASSUME NEW j \in Jobs, SyncMirror(j) PROVE mem' \in [Actors -> Memory]
  <2>1. mem[j].read \in Target
    BY <1>13 DEF SyncMirror, Sound, HoldsSound, Held, SoundTarget
  <2>2. ASSUME NEW state \in States
        PROVE  [mem[j].read EXCEPT !.backup = [snapshot |-> None, state |-> state]] \in Target
    BY <2>1 DEF Target, LastBackup
  <2>3. CASE mem' = [mem EXCEPT ![j] = Nothing]
    BY <2>3
  <2>4. CASE \E state \in States :
               mem' = [mem EXCEPT ![j].read.backup = [snapshot |-> None, state |-> state]]
    BY <2>2, <2>4
  <2> QED
    BY <1>13, <2>3, <2>4 DEF SyncMirror, Drops
<1>14. ASSUME NEW j \in Jobs, Transfer(j) PROVE mem' \in [Actors -> Memory]
  BY <1>14 DEF Transfer
<1>15. ASSUME NEW j \in Jobs, PersistSnapshot(j) PROVE mem' \in [Actors -> Memory]
  <2>1. mem[j].read \in Target
    BY <1>15 DEF PersistSnapshot, Sound, HoldsSound, Held, SoundTarget
  <2>2. [mem[j].read EXCEPT !.backup = [snapshot |-> j, state |-> "completed"]] \in Target
    BY <2>1 DEF Target, LastBackup, States
  <2> QED
    BY SMTT(30), <1>15, <2>2 DEF PersistSnapshot
<1>16. ASSUME Crash PROVE mem' \in [Actors -> Memory]
  BY <1>16 DEF Crash
<1>17. CASE UNCHANGED vars
  BY <1>17 DEF vars, disk, history
<1> QED
  BY <1>1, <1>2, <1>3, <1>4, <1>5, <1>6, <1>7, <1>8, <1>9, <1>10, <1>11, <1>12, <1>13,
     <1>14, <1>15, <1>16, <1>17
     DEF Next, CallStep, NewCall, JobStep

\* The file, the history and the counters.
LEMMA RestTyped ==
    Types /\ (\A a \in Actors : OperationAt(a)) /\ Sound /\ [Next]_vars
      => TypeOK' /\ latest' \in [Targets -> Settings \cup {None}]
<1> SUFFICES ASSUME Types, \A a \in Actors : OperationAt(a), Sound, [Next]_vars
             PROVE  TypeOK' /\ latest' \in [Targets -> Settings \cup {None}]
  OBVIOUS
<1>a. job' \in [Jobs -> JobRecord]
  BY JobsTyped
<1>b. MaxCalls \in Nat /\ MaxCrashes \in Nat
  BY BoundsAssumption
<1> USE DEF Types, TypeOK, disk, history, JobRecord
<1>1. ASSUME NEW a \in Actors, SaveTargetLoad(a)
      PROVE  TypeOK' /\ latest' \in [Targets -> Settings \cup {None}]
  BY <1>1, <1>a, <1>b DEF SaveTargetLoad, FreshRead
<1>2. ASSUME NEW a \in Actors, Save(a)
      PROVE  TypeOK' /\ latest' \in [Targets -> Settings \cup {None}]
  <2> DEFINE t == mem[a].target
  <2>1. t \in Targets /\ mem[a].doc \in Documents
    BY <1>2 DEF Save, OperationAt, Sound, HoldsSound, SoundDocument, Held
  <2>2. document' \in Documents
    BY <1>2, <2>1 DEF Save
  <2>3. (IF mem[a].doc[t] = None THEN None ELSE mem[a].doc[t].settings) \in Settings \cup {None}
    BY <2>1 DEF Documents, Target
  <2>4. latest' \in [Targets -> Settings \cup {None}]
    BY <1>2, <2>1, <2>3 DEF Save
  <2>5. dirty' \subseteq Actors /\ raced' \in BOOLEAN
    BY <1>2 DEF Save, Holding
  <2> QED
    BY <1>2, <1>a, <2>2, <2>4, <2>5 DEF Save
<1>3. ASSUME NEW c \in Callers, NEW t \in Targets,
             NEW payload \in Payloads, ChangeLoad(c, t, payload)
      PROVE  TypeOK' /\ latest' \in [Targets -> Settings \cup {None}]
  BY <1>3, <1>a, <1>b DEF ChangeLoad, Call, FreshRead
<1>4. ASSUME NEW c \in Callers, ChangeBuild(c)
      PROVE  TypeOK' /\ latest' \in [Targets -> Settings \cup {None}]
  BY <1>4, <1>a, <1>b DEF ChangeBuild, FreshRead
<1>5. ASSUME NEW c \in Callers, ChangeRefused(c)
      PROVE  TypeOK' /\ latest' \in [Targets -> Settings \cup {None}]
  BY <1>5, <1>a, <1>b DEF ChangeRefused, FreshRead
<1>6. ASSUME NEW c \in Callers, NEW t \in Targets, Delete(c, t)
      PROVE  TypeOK' /\ latest' \in [Targets -> Settings \cup {None}]
  BY <1>6, <1>a, <1>b DEF Delete, Call, FreshRead
<1>7. ASSUME NEW c \in Callers, NEW t \in Targets, StartValidation(c, t)
      PROVE  TypeOK' /\ latest' \in [Targets -> Settings \cup {None}]
  BY <1>7, <1>a, <1>b DEF StartValidation, Call, FreshRead
<1>8. ASSUME NEW c \in Callers, SubmitValidation(c)
      PROVE  TypeOK' /\ latest' \in [Targets -> Settings \cup {None}]
  BY <1>8, <1>a, <1>b DEF SubmitValidation, FreshRead
<1>9. ASSUME NEW c \in Callers, NEW t \in Targets, StartExecution(c, t)
      PROVE  TypeOK' /\ latest' \in [Targets -> Settings \cup {None}]
  BY <1>9, <1>a, <1>b DEF StartExecution, Call, FreshRead
<1>10. ASSUME NEW j \in Jobs, GetTarget(j)
      PROVE  TypeOK' /\ latest' \in [Targets -> Settings \cup {None}]
  BY <1>10, <1>a, <1>b DEF GetTarget, FreshRead
<1>11. ASSUME NEW j \in Jobs, Validate(j)
      PROVE  TypeOK' /\ latest' \in [Targets -> Settings \cup {None}]
  BY <1>11, <1>a, <1>b DEF Validate, FreshRead
<1>12. ASSUME NEW j \in Jobs, Execute(j)
      PROVE  TypeOK' /\ latest' \in [Targets -> Settings \cup {None}]
  BY <1>12, <1>a, <1>b DEF Execute, Call, FreshRead, Actors
<1>13. ASSUME NEW j \in Jobs, SyncMirror(j)
      PROVE  TypeOK' /\ latest' \in [Targets -> Settings \cup {None}]
  BY <1>13, <1>a, <1>b DEF SyncMirror, FreshRead
<1>14. ASSUME NEW j \in Jobs, Transfer(j)
      PROVE  TypeOK' /\ latest' \in [Targets -> Settings \cup {None}]
  BY <1>14, <1>a, <1>b DEF Transfer, FreshRead
<1>15. ASSUME NEW j \in Jobs, PersistSnapshot(j)
      PROVE  TypeOK' /\ latest' \in [Targets -> Settings \cup {None}]
  BY <1>15, <1>a, <1>b DEF PersistSnapshot, FreshRead
<1>16. ASSUME Crash PROVE TypeOK' /\ latest' \in [Targets -> Settings \cup {None}]
  BY <1>16, <1>a, <1>b DEF Crash, FreshRead
<1>17. CASE UNCHANGED vars
  BY <1>17, <1>a, <1>b DEF vars, disk, history, FreshRead
<1> QED
  BY <1>1, <1>2, <1>3, <1>4, <1>5, <1>6, <1>7, <1>8, <1>9, <1>10, <1>11, <1>12, <1>13,
     <1>14, <1>15, <1>16, <1>17
     DEF Next, CallStep, NewCall, JobStep, Actors

\* The step an actor is at tells the operation it is in, and a job in the middle
\* of its work holds its own target.
LEMMA OperationStep ==
    Types /\ (\A a \in Actors : OperationAt(a)) /\ [Next]_vars
      => \A b \in Actors : OperationAt(b)'
<1> SUFFICES ASSUME Types, \A a \in Actors : OperationAt(a), [Next]_vars
             PROVE  \A b \in Actors : OperationAt(b)'
  OBVIOUS
<1> USE DEF Types, Memory, OperationAt, Held, CallerSteps, JobSteps, Actors, Nothing, JobRecord
<1>d. Callers \cap Jobs = {} /\ None \notin Targets
  BY DistinctAssumption
<1>1. ASSUME NEW a \in Actors, SaveTargetLoad(a) PROVE \A b \in Actors : OperationAt(b)'
  BY <1>1, <1>d DEF SaveTargetLoad, Goes
<1>2. ASSUME NEW a \in Actors, Save(a) PROVE \A b \in Actors : OperationAt(b)'
  BY <1>2, <1>d DEF Save, Goes, AfterSave
<1>3. ASSUME NEW c \in Callers, NEW t \in Targets,
             NEW payload \in Payloads, ChangeLoad(c, t, payload)
      PROVE  \A b \in Actors : OperationAt(b)'
  BY <1>3, <1>d DEF ChangeLoad, Goes
<1>4. ASSUME NEW c \in Callers, ChangeBuild(c) PROVE \A b \in Actors : OperationAt(b)'
  BY <1>4, <1>d DEF ChangeBuild, Goes
<1>5. ASSUME NEW c \in Callers, ChangeRefused(c) PROVE \A b \in Actors : OperationAt(b)'
  BY <1>5, <1>d DEF ChangeRefused, Goes
<1>6. ASSUME NEW c \in Callers, NEW t \in Targets, Delete(c, t)
      PROVE  \A b \in Actors : OperationAt(b)'
  BY <1>6, <1>d DEF Delete, Goes
<1>7. ASSUME NEW c \in Callers, NEW t \in Targets, StartValidation(c, t)
      PROVE  \A b \in Actors : OperationAt(b)'
  BY <1>7, <1>d DEF StartValidation, Goes
<1>8. ASSUME NEW c \in Callers, SubmitValidation(c) PROVE \A b \in Actors : OperationAt(b)'
  BY <1>8, <1>d DEF SubmitValidation, Goes
<1>9. ASSUME NEW c \in Callers, NEW t \in Targets, StartExecution(c, t)
      PROVE  \A b \in Actors : OperationAt(b)'
  BY <1>9, <1>d DEF StartExecution, Goes
<1>10. ASSUME NEW j \in Jobs, GetTarget(j) PROVE \A b \in Actors : OperationAt(b)'
  <2>1. CASE document[job[j].target] = None
    BY <1>10, <1>d, <2>1 DEF GetTarget, Goes
  <2>2. CASE document[job[j].target] # None
    <3>1. /\ mem' = [mem EXCEPT ![j] = [Nothing EXCEPT !.op = "job", !.target = job[j].target,
                                                    !.read = document[job[j].target]]]
          /\ pc' = [pc EXCEPT ![j] = "validate"] /\ UNCHANGED job /\ pc[j] = "begin"
      BY <1>10, <2>2 DEF GetTarget, Goes
    <3>2. mem'[j].op = "job" /\ mem'[j].target = job[j].target
      BY <3>1
    <3>3. \A b \in Actors \ {j} : mem'[b] = mem[b] /\ pc'[b] = pc[b]
      BY <3>1
    <3>4. OperationAt(j)'
      BY <1>d, <3>1, <3>2
    <3>5. \A b \in Actors \ {j} : OperationAt(b)'
      BY <3>1, <3>3
    <3> QED
      BY <3>4, <3>5
  <2> QED
    BY <2>1, <2>2
<1>11. ASSUME NEW j \in Jobs, Validate(j) PROVE \A b \in Actors : OperationAt(b)'
  BY <1>11, <1>d DEF Validate, Goes
<1>12. ASSUME NEW j \in Jobs, Execute(j) PROVE \A b \in Actors : OperationAt(b)'
  BY <1>12, <1>d DEF Execute, Goes, Drops, AfterSave, AfterTransfer
<1>13. ASSUME NEW j \in Jobs, SyncMirror(j) PROVE \A b \in Actors : OperationAt(b)'
  BY <1>13, <1>d DEF SyncMirror, Goes, Drops
<1>14. ASSUME NEW j \in Jobs, Transfer(j) PROVE \A b \in Actors : OperationAt(b)'
  BY <1>14, <1>d DEF Transfer, Goes, AfterTransfer
<1>15. ASSUME NEW j \in Jobs, PersistSnapshot(j) PROVE \A b \in Actors : OperationAt(b)'
  BY <1>15, <1>d DEF PersistSnapshot, Goes
<1>16. ASSUME Crash PROVE \A b \in Actors : OperationAt(b)'
  BY <1>16, <1>d DEF Crash, Goes
<1>17. CASE UNCHANGED vars
  BY <1>17, <1>d DEF vars, disk, history, Goes
<1> QED
  BY <1>1, <1>2, <1>3, <1>4, <1>5, <1>6, <1>7, <1>8, <1>9, <1>10, <1>11, <1>12, <1>13,
     <1>14, <1>15, <1>16, <1>17
     DEF Next, CallStep, NewCall, JobStep

\* Secrets and finished backups are only added to.
LEMMA SoundGrows ==
    ASSUME NEW ids, NEW ids2, ids \subseteq ids2,
           NEW backups, NEW backups2, backups \subseteq backups2
    PROVE  /\ \A target : SoundTarget(target, ids, backups) => SoundTarget(target, ids2, backups2)
           /\ \A doc : SoundDocument(doc, ids, backups) => SoundDocument(doc, ids2, backups2)
<1>1. \A target : SoundTarget(target, ids, backups) => SoundTarget(target, ids2, backups2)
  BY DEF SoundTarget
<1> QED
  BY <1>1 DEF SoundDocument

\* No step removes a secret or a finished backup.
LEMMA DiskGrows ==
    Types /\ [Next]_vars
      => secrets \subseteq secrets' /\ Backups \subseteq Backups'
<1> SUFFICES ASSUME Types, [Next]_vars
             PROVE  secrets \subseteq secrets' /\ Backups \subseteq Backups'
  OBVIOUS
<1> USE DEF disk, history, Backups
<1>1. ASSUME NEW a \in Actors, SaveTargetLoad(a)
      PROVE  secrets \subseteq secrets' /\ Backups \subseteq Backups'
  BY <1>1 DEF SaveTargetLoad
<1>2. ASSUME NEW a \in Actors, Save(a)
      PROVE  secrets \subseteq secrets' /\ Backups \subseteq Backups'
  BY <1>2 DEF Save
<1>3. ASSUME NEW c \in Callers, NEW t \in Targets,
             NEW payload \in Payloads, ChangeLoad(c, t, payload)
      PROVE  secrets \subseteq secrets' /\ Backups \subseteq Backups'
  BY <1>3 DEF ChangeLoad
<1>4. ASSUME NEW c \in Callers, ChangeBuild(c)
      PROVE  secrets \subseteq secrets' /\ Backups \subseteq Backups'
  BY <1>4 DEF ChangeBuild
<1>5. ASSUME NEW c \in Callers, ChangeRefused(c)
      PROVE  secrets \subseteq secrets' /\ Backups \subseteq Backups'
  BY <1>5 DEF ChangeRefused
<1>6. ASSUME NEW c \in Callers, NEW t \in Targets, Delete(c, t)
      PROVE  secrets \subseteq secrets' /\ Backups \subseteq Backups'
  BY <1>6 DEF Delete
<1>7. ASSUME NEW c \in Callers, NEW t \in Targets, StartValidation(c, t)
      PROVE  secrets \subseteq secrets' /\ Backups \subseteq Backups'
  BY <1>7 DEF StartValidation
<1>8. ASSUME NEW c \in Callers, SubmitValidation(c)
      PROVE  secrets \subseteq secrets' /\ Backups \subseteq Backups'
  BY <1>8 DEF SubmitValidation
<1>9. ASSUME NEW c \in Callers, NEW t \in Targets, StartExecution(c, t)
      PROVE  secrets \subseteq secrets' /\ Backups \subseteq Backups'
  BY <1>9 DEF StartExecution
<1>10. ASSUME NEW j \in Jobs, GetTarget(j)
      PROVE  secrets \subseteq secrets' /\ Backups \subseteq Backups'
  BY <1>10 DEF GetTarget
<1>11. ASSUME NEW j \in Jobs, Validate(j)
      PROVE  secrets \subseteq secrets' /\ Backups \subseteq Backups'
  BY <1>11 DEF Validate
<1>12. ASSUME NEW j \in Jobs, Execute(j)
      PROVE  secrets \subseteq secrets' /\ Backups \subseteq Backups'
  BY <1>12 DEF Execute
<1>13. ASSUME NEW j \in Jobs, SyncMirror(j)
      PROVE  secrets \subseteq secrets' /\ Backups \subseteq Backups'
  BY <1>13 DEF SyncMirror
<1>14. ASSUME NEW j \in Jobs, Transfer(j)
      PROVE  secrets \subseteq secrets' /\ Backups \subseteq Backups'
  BY <1>14 DEF Transfer
<1>15. ASSUME NEW j \in Jobs, PersistSnapshot(j)
      PROVE  secrets \subseteq secrets' /\ Backups \subseteq Backups'
  BY <1>15 DEF PersistSnapshot
<1>16. ASSUME Crash PROVE secrets \subseteq secrets' /\ Backups \subseteq Backups'
  BY <1>16 DEF Crash
<1>17. CASE UNCHANGED vars
  BY <1>17 DEF vars, disk, history
<1> QED
  BY <1>1, <1>2, <1>3, <1>4, <1>5, <1>6, <1>7, <1>8, <1>9, <1>10, <1>11, <1>12, <1>13,
     <1>14, <1>15, <1>16, <1>17
     DEF Next, CallStep, NewCall, JobStep, Actors

\* No step leaves an unsound target in the file or in anybody's hands.
LEMMA SoundStep ==
    Types /\ (\A a \in Actors : OperationAt(a)) /\ Sound /\ [Next]_vars
      => Sound'
<1> SUFFICES ASSUME Types, \A a \in Actors : OperationAt(a), Sound, [Next]_vars
             PROVE  Sound'
  OBVIOUS
<1>g. secrets \subseteq secrets' /\ Backups \subseteq Backups'
  BY DiskGrows
<1>k. /\ SoundDocument(document, secrets', Backups')
      /\ \A b \in Actors :
           /\ pc[b] \in Held => SoundTarget(mem[b].read, secrets', Backups')
           /\ pc[b] \in {"build", "save"} => SoundDocument(mem[b].doc, secrets', Backups')
           /\ pc[b] = "build" => mem[b].payload \in Payloads
           /\ pc[b] = "persist" => b \in complete
  BY <1>g, SoundGrows DEF Sound, HoldsSound
<1>1. ASSUME NEW a \in Actors, SaveTargetLoad(a) PROVE Sound'
  <2> DEFINE t == mem[a].target
             doc == Placed(document, t, mem[a].read)
  <2>1. t \in Targets /\ SoundTarget(mem[a].read, secrets, Backups)
    BY <1>1 DEF SaveTargetLoad, OperationAt, Sound, HoldsSound, Held
  <2>2. SoundDocument(doc, secrets, Backups)
    BY <2>1 DEF Placed, SoundDocument, Documents, SoundTarget, Sound
  <2> HIDE DEF doc
  <2>3. SoundDocument(doc, secrets', Backups')
    BY <1>g, <2>2, SoundGrows
  <2>4. /\ mem' = [mem EXCEPT ![a].doc = doc]
        /\ pc' = [pc EXCEPT ![a] = "save"]
        /\ UNCHANGED <<document, complete>>
    BY <1>1 DEF SaveTargetLoad, Goes, disk, history, doc
  <2> QED
    BY <1>k, <2>3, <2>4 DEF Sound, HoldsSound, Held, Types, Memory
<1>2. ASSUME NEW a \in Actors, Save(a) PROVE Sound'
  <2>1. SoundDocument(mem[a].doc, secrets', Backups')
    BY <1>2, <1>k DEF Save, HoldsSound
  <2>2. document' = mem[a].doc
    BY <1>2 DEF Save
  <2>3. \A b \in Actors \ {a} : mem'[b] = mem[b] /\ pc'[b] = pc[b]
    BY <1>2 DEF Save, Goes, Types
  <2>4. pc'[a] \in {"done", "submit", "idle"}
    BY <1>2 DEF Save, Goes, AfterSave, Types
  <2>5. UNCHANGED complete
    BY <1>2 DEF Save
  <2> QED
    BY <1>k, <2>1, <2>2, <2>3, <2>4, <2>5 DEF Sound, HoldsSound, Held
<1>3. ASSUME NEW c \in Callers, NEW t \in Targets,
             NEW payload \in Payloads, ChangeLoad(c, t, payload) PROVE Sound'
  <2>1. UNCHANGED <<document, complete>>
    BY <1>3 DEF ChangeLoad, disk
  <2> QED
    BY <1>3, <1>k, <2>1 DEF ChangeLoad, Sound, HoldsSound, Held, Types, Goes, Nothing
<1>4. ASSUME NEW c \in Callers, ChangeBuild(c) PROVE Sound'
  <2> DEFINE t == mem[c].target
             payload == mem[c].payload
             existing == mem[c].doc[t]
  <2>1. t \in Targets /\ payload \in Payloads /\ SoundDocument(mem[c].doc, secrets, Backups)
    BY <1>4 DEF ChangeBuild, OperationAt, Sound, HoldsSound, Held, Actors
  <2>2. /\ existing \in Target \cup {None}
        /\ existing # None => SoundTarget(existing, secrets, Backups)
    BY <2>1 DEF SoundDocument, Documents
  <2>3. PICK fresh \in IF PersistsSecret(payload) THEN Secrets \ secrets ELSE {None} :
          /\ Acceptable(payload, existing, fresh)
          /\ secrets' = IF fresh = None THEN secrets ELSE secrets \cup {fresh}
          /\ mem' = [mem EXCEPT ![c].doc[t] = Built(payload, existing, fresh, calls)]
    BY <1>4 DEF ChangeBuild
  <2>4. calls \in 0 .. MaxCalls /\ secrets \subseteq Secrets
    BY DEF Types, TypeOK
  <2>5. UNCHANGED <<document, snapshots, complete>> /\ pc' = [pc EXCEPT ![c] = "save"]
    BY <1>4 DEF ChangeBuild, history, Goes
  <2>h. Backups' = Backups
    BY <2>5 DEF Backups
  <2> DEFINE new == Built(payload, existing, fresh, calls)
             doc == [mem[c].doc EXCEPT ![t] = new]
  <2>6. mem' = [mem EXCEPT ![c].doc = doc]
    BY <2>3
  <2> HIDE DEF t, payload, existing, new
  <2>7. SoundTarget(new, secrets', Backups')
    BY <2>1, <2>2, <2>3, <2>4, <2>h, BuiltSound DEF new
  <2>8. SoundDocument(mem[c].doc, secrets', Backups')
    BY <1>4, <1>k DEF ChangeBuild, Actors
  <2>9. SoundDocument(doc, secrets', Backups')
    BY <2>1, <2>7, <2>8 DEF SoundDocument, Documents, SoundTarget
  <2> HIDE DEF doc
  <2> QED
    BY <1>k, <2>5, <2>6, <2>9 DEF Sound, HoldsSound, Held, Types, Memory
<1>5. ASSUME NEW c \in Callers, ChangeRefused(c) PROVE Sound'
  BY <1>5, <1>k DEF ChangeRefused, disk, history, Sound, HoldsSound, Held, Types, Goes
<1>6. ASSUME NEW c \in Callers, NEW t \in Targets, Delete(c, t) PROVE Sound'
  <2>1. UNCHANGED <<document, complete>>
    BY <1>6 DEF Delete, disk
  <2>2. SoundDocument([document EXCEPT ![t] = None], secrets', Backups')
    BY <1>k DEF SoundDocument, Documents
  <2> QED
    BY <1>6, <1>k, <2>1, <2>2 DEF Delete, Sound, HoldsSound, Held, Types, Goes, Nothing
<1>7. ASSUME NEW c \in Callers, NEW t \in Targets, StartValidation(c, t) PROVE Sound'
  <2>1. UNCHANGED <<document, complete>>
    BY <1>7 DEF StartValidation, disk
  <2>2. SoundTarget(document[t], secrets', Backups')
    BY <1>7, <1>k DEF StartValidation, SoundDocument
  <2>3. SoundTarget([document[t] EXCEPT !.status = "running"], secrets', Backups')
    BY <2>2 DEF SoundTarget, Target, Status
  <2> QED
    BY <1>7, <1>k, <2>1, <2>3
       DEF StartValidation, Sound, HoldsSound, Held, Types, Goes, Nothing
<1>8. ASSUME NEW c \in Callers, SubmitValidation(c) PROVE Sound'
  BY <1>8, <1>k
     DEF SubmitValidation, disk, history, Sound, HoldsSound, Held, Types, Goes
<1>9. ASSUME NEW c \in Callers, NEW t \in Targets, StartExecution(c, t) PROVE Sound'
  BY <1>9, <1>k DEF StartExecution, disk, history, Sound, HoldsSound, Held, Types, Goes
<1>10. ASSUME NEW j \in Jobs, GetTarget(j) PROVE Sound'
  <2> DEFINE t == job[j].target
  <2>1. UNCHANGED <<document, complete>>
    BY <1>10 DEF GetTarget, disk
  <2>2. CASE document[t] = None
    BY <1>10, <1>k, <2>1, <2>2 DEF GetTarget, Sound, HoldsSound, Held, Types, Goes
  <2>3. CASE document[t] # None
    <3>1. t \in Targets
      BY <1>10 DEF GetTarget, OperationAt, Actors
    <3>2. SoundTarget(document[t], secrets', Backups')
      BY <1>k, <2>3, <3>1 DEF SoundDocument
    <3> QED
      BY ZenonT(60), <1>10, <1>k, <2>1, <2>3, <3>2
         DEF GetTarget, Sound, HoldsSound, Held, Types, Goes, Nothing
  <2> QED
    BY <2>2, <2>3
<1>11. ASSUME NEW j \in Jobs, Validate(j) PROVE Sound'
  <2> DEFINE read == mem[j].read
  <2>1. SoundTarget(read, secrets', Backups')
    BY <1>11, <1>k DEF Validate, HoldsSound, Held, Actors
  <2>2. PICK env \in Environment : mem' = [mem EXCEPT ![j].read = Tested(read.settings, read, env)]
    BY <1>11 DEF Validate
  <2>3. SoundTarget(Tested(read.settings, read, env), secrets', Backups')
    BY <2>1, TestedSound
  <2>4. UNCHANGED <<document, complete>> /\ pc' = [pc EXCEPT ![j] = "load"]
    BY <1>11 DEF Validate, disk, history, Goes
  <2> DEFINE tested == Tested(read.settings, read, env)
  <2> HIDE DEF tested
  <2>5. mem' = [mem EXCEPT ![j].read = tested] /\ SoundTarget(tested, secrets', Backups')
    BY <2>2, <2>3 DEF tested
  <2> QED
    BY <1>k, <2>4, <2>5 DEF Sound, HoldsSound, Held, Types, Memory
<1>12. ASSUME NEW j \in Jobs, Execute(j) PROVE Sound'
  BY <1>12, <1>k
     DEF Execute, disk, history, Sound, HoldsSound, Held, Types, Goes, Drops, Actors
<1>13. ASSUME NEW j \in Jobs, SyncMirror(j) PROVE Sound'
  <2>1. UNCHANGED <<document, complete>>
    BY <1>13 DEF SyncMirror, disk, history
  <2>2. CASE Drops(j)
    BY <1>k, <2>1, <2>2 DEF Drops, Sound, HoldsSound, Held, Types, Goes
  <2>3. CASE /\ Goes(j, "load")
             /\ \E state \in States :
                   mem' = [mem EXCEPT ![j].read.backup = [snapshot |-> None, state |-> state]]
    <3>1. SoundTarget(mem[j].read, secrets', Backups')
      BY <1>13, <1>k DEF SyncMirror, HoldsSound, Held, Actors
    <3>2. PICK state \in States :
            mem' = [mem EXCEPT ![j].read.backup = [snapshot |-> None, state |-> state]]
      BY <2>3
    <3> DEFINE read == [mem[j].read EXCEPT !.backup = [snapshot |-> None, state |-> state]]
    <3>3. SoundTarget(read, secrets', Backups')
      BY <3>1 DEF SoundTarget, Target, LastBackup
    <3>4. mem' = [mem EXCEPT ![j].read = read]
      BY <3>2
    <3> HIDE DEF read
    <3>5. pc' = [pc EXCEPT ![j] = "load"]
      BY <2>3 DEF Goes
    <3> QED
      BY <1>k, <2>1, <3>3, <3>4, <3>5 DEF Sound, HoldsSound, Held, Types, Memory
  <2> QED
    BY <1>13, <2>2, <2>3 DEF SyncMirror
<1>14. ASSUME NEW j \in Jobs, Transfer(j) PROVE Sound'
  <2>1. UNCHANGED document
    BY <1>14 DEF Transfer, disk
  <2>2. PICK whole \in BOOLEAN :
          /\ complete' = IF whole THEN complete \cup {j} ELSE complete
          /\ pc' = [pc EXCEPT ![j] = IF whole THEN "persist" ELSE "done"]
          /\ mem' = IF whole THEN mem ELSE [mem EXCEPT ![j] = Nothing]
    BY <1>14 DEF Transfer, AfterTransfer, Goes
  <2>3. pc[j] = "transfer"
    BY <1>14 DEF Transfer
  <2> QED
    BY <1>k, <2>1, <2>2, <2>3 DEF Sound, HoldsSound, Held, Types
<1>15. ASSUME NEW j \in Jobs, PersistSnapshot(j) PROVE Sound'
  <2>1. /\ UNCHANGED <<document, complete>>
        /\ snapshots' = snapshots \cup {j}
        /\ pc' = [pc EXCEPT ![j] = "load"]
    BY <1>15 DEF PersistSnapshot, history, Goes
  <2>2. SoundTarget(mem[j].read, secrets', Backups') /\ j \in complete
    BY <1>15, <1>k DEF PersistSnapshot, HoldsSound, Held, Actors
  <2> DEFINE read == [mem[j].read EXCEPT !.backup = [snapshot |-> j, state |-> "completed"]]
  <2>3. j \in Backups'
    BY <2>1, <2>2 DEF Backups
  <2>4. SoundTarget(read, secrets', Backups')
    BY <2>2, <2>3 DEF SoundTarget, Target, LastBackup, States
  <2>5. mem' = [mem EXCEPT ![j].read = read]
    BY <1>15 DEF PersistSnapshot
  <2> HIDE DEF read
  <2> QED
    BY <1>k, <2>1, <2>4, <2>5 DEF Sound, HoldsSound, Held, Types, Memory
<1>16. ASSUME Crash PROVE Sound'
  BY <1>16, <1>k DEF Crash, disk, history, Sound, HoldsSound, Held, Types, Goes
<1>17. CASE UNCHANGED vars
  BY <1>17, <1>k
     DEF vars, disk, history, disk, history, Sound, HoldsSound, Held, Types, Goes
<1> QED
  BY <1>1, <1>2, <1>3, <1>4, <1>5, <1>6, <1>7, <1>8, <1>9, <1>10, <1>11, <1>12, <1>13,
     <1>14, <1>15, <1>16, <1>17
     DEF Next, CallStep, NewCall, JobStep, Actors

\* Only start_validation writes running, and a validation replaces it.
LEMMA DecidedStep ==
    /\ Types
    /\ \A a \in Actors : OperationAt(a)
    /\ Sound
    /\ \A a \in Actors : Decided(a)
    /\ [Next]_vars
  => \A b \in Actors : Decided(b)'
<1> SUFFICES ASSUME Types, \A a \in Actors : OperationAt(a), Sound,
                    \A a \in Actors : Decided(a), [Next]_vars
             PROVE  \A b \in Actors : Decided(b)'
  OBVIOUS
<1>d. Callers \cap Jobs = {}
  BY DistinctAssumption
<1>1. ASSUME NEW a \in Actors, SaveTargetLoad(a) PROVE \A b \in Actors : Decided(b)'
  <2> DEFINE t == mem[a].target
             doc == Placed(document, t, mem[a].read)
  <2>1. /\ t \in Targets
        /\ pc' = [pc EXCEPT ![a] = "save"] /\ mem' = [mem EXCEPT ![a].doc = doc]
        /\ pc[a] = "load" /\ mem[a].op # "change" /\ UNCHANGED job
    BY <1>1 DEF SaveTargetLoad, Goes, OperationAt, Held, Actors
  <2>2. doc[t] = mem[a].read
    BY <2>1 DEF Placed, Types, TypeOK, Documents
  <2> HIDE DEF doc
  <2> QED
    BY <2>1, <2>2 DEF Decided, Types, Memory
<1>2. ASSUME NEW a \in Actors, Save(a) PROVE \A b \in Actors : Decided(b)'
  BY <1>2, <1>d
     DEF Save, disk, history, Decided, Types, Memory, Goes, Nothing, OperationAt,
         AfterSave
<1>3. ASSUME NEW c \in Callers, NEW t \in Targets,
             NEW payload \in Payloads, ChangeLoad(c, t, payload)
      PROVE  \A b \in Actors : Decided(b)'
  BY <1>3, <1>d
     DEF ChangeLoad, disk, history, Decided, Types, Memory, Goes, Nothing, OperationAt
<1>4. ASSUME NEW c \in Callers, ChangeBuild(c) PROVE \A b \in Actors : Decided(b)'
  <2> DEFINE t == mem[c].target
  <2>1. PICK fresh :
          mem' = [mem EXCEPT ![c].doc[t] = Built(mem[c].payload, mem[c].doc[t], fresh, calls)]
    BY <1>4 DEF ChangeBuild
  <2> DEFINE new == Built(mem[c].payload, mem[c].doc[t], fresh, calls)
             doc == [mem[c].doc EXCEPT ![t] = new]
  <2>2. new.status = "unknown"
    BY DEF Built, BuiltStatus
  <2>3. t \in Targets /\ mem[c].doc \in Documents
    BY <1>4 DEF ChangeBuild, OperationAt, Held, Sound, HoldsSound, SoundDocument, Actors
  <2>4. doc[t].status = "unknown"
    BY <2>2, <2>3 DEF Documents
  <2>5. mem' = [mem EXCEPT ![c].doc = doc]
    BY <2>1
  <2>6. pc' = [pc EXCEPT ![c] = "save"] /\ UNCHANGED job /\ c \notin Jobs
    BY <1>4, <1>d DEF ChangeBuild, Goes
  <2> HIDE DEF new, doc
  <2> QED
    BY <2>4, <2>5, <2>6 DEF Decided, Types, Memory
<1>5. ASSUME NEW c \in Callers, ChangeRefused(c) PROVE \A b \in Actors : Decided(b)'
  BY <1>5, <1>d
     DEF ChangeRefused, disk, history, Decided, Types, Memory, Goes, Nothing,
         OperationAt
<1>6. ASSUME NEW c \in Callers, NEW t \in Targets, Delete(c, t)
      PROVE  \A b \in Actors : Decided(b)'
  <2> DEFINE doc == [document EXCEPT ![t] = None]
  <2>1. doc[t] = None
    BY DEF Types, TypeOK, Documents
  <2>2. /\ mem' = [mem EXCEPT ![c] = [Nothing EXCEPT !.op = "change", !.target = t, !.doc = doc]]
        /\ pc' = [pc EXCEPT ![c] = "save"] /\ UNCHANGED job /\ c \notin Jobs
    BY <1>6, <1>d DEF Delete, Goes
  <2> HIDE DEF doc
  <2> QED
    BY <2>1, <2>2 DEF Decided, Types, Memory, Nothing
<1>7. ASSUME NEW c \in Callers, NEW t \in Targets, StartValidation(c, t)
      PROVE  \A b \in Actors : Decided(b)'
  BY <1>7, <1>d
     DEF StartValidation, disk, history, Decided, Types, Memory, Goes, Nothing,
         OperationAt
<1>8. ASSUME NEW c \in Callers, SubmitValidation(c) PROVE \A b \in Actors : Decided(b)'
  BY <1>8, <1>d
     DEF SubmitValidation, disk, history, Decided, Types, Memory, Goes, Nothing,
         OperationAt
<1>9. ASSUME NEW c \in Callers, NEW t \in Targets, StartExecution(c, t)
      PROVE  \A b \in Actors : Decided(b)'
  BY <1>9, <1>d
     DEF StartExecution, disk, history, Decided, Types, Memory, Goes, Nothing,
         OperationAt
<1>10. ASSUME NEW j \in Jobs, GetTarget(j) PROVE \A b \in Actors : Decided(b)'
  BY <1>10, <1>d
     DEF GetTarget, disk, history, Decided, Types, Memory, Goes, Nothing, OperationAt
<1>11. ASSUME NEW j \in Jobs, Validate(j) PROVE \A b \in Actors : Decided(b)'
  <2> DEFINE read == mem[j].read
  <2>1. PICK env \in Environment : mem' = [mem EXCEPT ![j].read = Tested(read.settings, read, env)]
    BY <1>11 DEF Validate
  <2> DEFINE tested == Tested(read.settings, read, env)
  <2>2. tested.status # "running"
    BY <1>11, TestedSound DEF Validate, Sound, HoldsSound, Held, Actors
  <2>3. mem' = [mem EXCEPT ![j].read = tested] /\ pc' = [pc EXCEPT ![j] = "load"] /\ UNCHANGED job
    BY <1>11, <2>1 DEF Validate, Goes
  <2> HIDE DEF tested
  <2> QED
    BY <2>2, <2>3 DEF Decided, Types, Memory
<1>12. ASSUME NEW j \in Jobs, Execute(j) PROVE \A b \in Actors : Decided(b)'
  BY <1>12, <1>d
     DEF Execute, disk, history, Decided, Types, Memory, Goes, Drops, Nothing,
         OperationAt, Actors, AfterSave, AfterTransfer
<1>13. ASSUME NEW j \in Jobs, SyncMirror(j) PROVE \A b \in Actors : Decided(b)'
  BY <1>13, <1>d
     DEF SyncMirror, disk, history, Decided, Types, Memory, Goes, Drops, Nothing,
         OperationAt
<1>14. ASSUME NEW j \in Jobs, Transfer(j) PROVE \A b \in Actors : Decided(b)'
  BY <1>14, <1>d
     DEF Transfer, disk, history, Decided, Types, Memory, Goes, Nothing, OperationAt,
         AfterTransfer
<1>15. ASSUME NEW j \in Jobs, PersistSnapshot(j) PROVE \A b \in Actors : Decided(b)'
  BY <1>15, <1>d
     DEF PersistSnapshot, disk, history, Decided, Types, Memory, Goes, Nothing,
         OperationAt
<1>16. ASSUME Crash PROVE \A b \in Actors : Decided(b)'
  BY <1>16, <1>d
     DEF Crash, disk, history, Decided, Types, Memory, Goes, Nothing, OperationAt
<1>17. CASE UNCHANGED vars
  BY <1>17, <1>d
     DEF vars, disk, history, disk, history, Decided, Types, Memory, Goes, Nothing,
         OperationAt
<1> QED
  BY <1>1, <1>2, <1>3, <1>4, <1>5, <1>6, <1>7, <1>8, <1>9, <1>10, <1>11, <1>12, <1>13,
     <1>14, <1>15, <1>16, <1>17
     DEF Next, CallStep, NewCall, JobStep, Actors

\* An actor since whose read nobody saved holds what the file holds.
LEMMA QuietStep ==
    Types /\ (\A a \in Actors : OperationAt(a)) /\ Sound /\ Quiet /\ [Next]_vars
      => Quiet'
<1> SUFFICES ASSUME Types, \A a \in Actors : OperationAt(a), Sound, Quiet, [Next]_vars
             PROVE  Quiet'
  OBVIOUS
<1>d. Callers \cap Jobs = {}
  BY DistinctAssumption
<1>1. ASSUME NEW a \in Actors, SaveTargetLoad(a) PROVE Quiet'
  <2> SUFFICES ASSUME ~raced, NEW b \in Actors \ dirty
               PROVE  Current(b)'
    BY <1>1 DEF SaveTargetLoad, history, Quiet
  <2> DEFINE t == mem[a].target
             doc == Placed(document, t, mem[a].read)
  <2>1. /\ pc' = [pc EXCEPT ![a] = "save"] /\ mem' = [mem EXCEPT ![a].doc = doc]
        /\ pc[a] = "load" /\ UNCHANGED <<document, job>>
    BY <1>1 DEF SaveTargetLoad, Goes, disk
  <2>2. CASE b = a
    <3>1. t \in Targets /\ doc[t] = mem[a].read /\ \A u \in Targets \ {t} : doc[u] = document[u]
      BY <2>1 DEF OperationAt, Held, Placed, Types, TypeOK, Documents
    <3>2. mem[a].read # None
      BY <2>1, NoneAssumption DEF Sound, HoldsSound, Held, SoundTarget
    <3>3. /\ document[t] # None
          /\ mem[a].read.settings = document[t].settings
          /\ a \in Jobs /\ job[a].type = "execution" => mem[a].read.status = document[t].status
      BY <2>1, <2>2 DEF Quiet, Current, Held
    <3> HIDE DEF doc
    <3>4. pc'[a] = "save" /\ mem'[a].doc = doc /\ mem'[a].target = t /\ mem'[a].op = mem[a].op
      BY <2>1 DEF Types, Memory
    <3> QED
      BY <2>1, <2>2, <3>1, <3>2, <3>3, <3>4 DEF Current, Held
  <2>3. CASE b # a
    BY <2>1, <2>3 DEF Quiet, Current, Types
  <2> QED
    BY <2>2, <2>3
<1>2. ASSUME NEW a \in Actors, Save(a) PROVE Quiet'
  <2> SUFFICES ASSUME NEW b \in Actors \ dirty'
               PROVE  Current(b)'
    BY DEF Quiet
  <2>1. CASE b = a
    BY <1>2, <2>1 DEF Save, Goes, AfterSave, Types, Current, Held
  <2>2. CASE b # a
    <3>1. b \notin Holding /\ pc'[b] = pc[b]
      BY <1>2, <2>2 DEF Save, Goes, Types
    <3>2. pc[b] \notin Held
      BY <3>1, NoneAssumption DEF Holding, Sound, HoldsSound, SoundTarget
    <3>3. pc[b] \notin {"build", "save"}
      BY <3>1, NoneAssumption DEF Holding, Sound, HoldsSound, SoundDocument
    <3> QED
      BY <3>1, <3>2, <3>3 DEF Current
  <2> QED
    BY <2>1, <2>2
<1>3. ASSUME NEW c \in Callers, NEW t \in Targets,
             NEW payload \in Payloads, ChangeLoad(c, t, payload) PROVE Quiet'
  BY <1>3, <1>d
     DEF ChangeLoad, disk, history, Quiet, Current, Types, Memory, Goes, Held, Nothing,
         OperationAt, FreshRead
<1>4. ASSUME NEW c \in Callers, ChangeBuild(c) PROVE Quiet'
  BY <1>4, <1>d
     DEF ChangeBuild, disk, history, Quiet, Current, Types, Memory, Goes, Held, Nothing,
         OperationAt, FreshRead
<1>5. ASSUME NEW c \in Callers, ChangeRefused(c) PROVE Quiet'
  BY <1>5, <1>d
     DEF ChangeRefused, disk, history, Quiet, Current, Types, Memory, Goes, Held,
         Nothing, OperationAt, FreshRead
<1>6. ASSUME NEW c \in Callers, NEW t \in Targets, Delete(c, t) PROVE Quiet'
  BY <1>6, <1>d
     DEF Delete, disk, history, Quiet, Current, Types, Memory, Goes, Held, Nothing,
         OperationAt, FreshRead
<1>7. ASSUME NEW c \in Callers, NEW t \in Targets, StartValidation(c, t) PROVE Quiet'
  BY <1>7, <1>d
     DEF StartValidation, disk, history, Quiet, Current, Types, Memory, Goes, Held,
         Nothing, OperationAt, FreshRead
<1>8. ASSUME NEW c \in Callers, SubmitValidation(c) PROVE Quiet'
  BY <1>8, <1>d
     DEF SubmitValidation, disk, history, Quiet, Current, Types, Memory, Goes, Held,
         Nothing, OperationAt, FreshRead
<1>9. ASSUME NEW c \in Callers, NEW t \in Targets, StartExecution(c, t) PROVE Quiet'
  BY <1>9, <1>d
     DEF StartExecution, disk, history, Quiet, Current, Types, Memory, Goes, Held,
         Nothing, OperationAt, FreshRead
<1>10. ASSUME NEW j \in Jobs, GetTarget(j) PROVE Quiet'
  <2> SUFFICES ASSUME ~raced, NEW b \in Actors \ dirty'
               PROVE  Current(b)'
    BY <1>10 DEF GetTarget, Quiet
  <2> DEFINE t == job[j].target
  <2>1. UNCHANGED <<document, job>>
    BY <1>10 DEF GetTarget, disk
  <2>2. CASE b = j /\ document[t] = None
    BY <1>10, <2>2 DEF GetTarget, Goes, Types, Current, Held
  <2>3. CASE b = j /\ document[t] # None
    <3>1. j \in Actors /\ mem \in [Actors -> Memory] /\ pc \in [Actors -> CallerSteps \cup JobSteps]
      BY DEF Actors, Types
    <3>2. /\ mem' = [mem EXCEPT ![j] = [Nothing EXCEPT !.op = "job", !.target = t,
                                                       !.read = document[t]]]
          /\ pc' = [pc EXCEPT ![j] = "validate"]
      BY <1>10, <2>3 DEF GetTarget, Goes
    <3>3. /\ mem'[j] = [Nothing EXCEPT !.op = "job", !.target = t, !.read = document[t]]
          /\ pc'[j] = "validate"
      BY <3>1, <3>2
    <3>4. mem'[j].target = t /\ mem'[j].read = document[t]
      BY <3>3 DEF Nothing
    <3> QED
      BY <2>1, <2>3, <3>3, <3>4 DEF Current
  <2>4. CASE b # j
    <3>1. b \notin dirty /\ mem'[b] = mem[b] /\ pc'[b] = pc[b]
      BY <1>10, <2>4 DEF GetTarget, FreshRead, Goes, Types
    <3> QED
      BY <2>1, <3>1 DEF Quiet, Current
  <2> QED
    BY <2>2, <2>3, <2>4
<1>11. ASSUME NEW j \in Jobs, Validate(j) PROVE Quiet'
  <2> SUFFICES ASSUME ~raced, NEW b \in Actors \ dirty
               PROVE  Current(b)'
    BY <1>11 DEF Validate, history, Quiet
  <2> DEFINE read == mem[j].read
  <2>1. PICK env \in Environment : mem' = [mem EXCEPT ![j].read = Tested(read.settings, read, env)]
    BY <1>11 DEF Validate
  <2> DEFINE tested == Tested(read.settings, read, env)
  <2>2. tested.settings = read.settings
    BY <1>11, TestedSound DEF Validate, Sound, HoldsSound, Held, Actors
  <2>3. /\ mem' = [mem EXCEPT ![j].read = tested] /\ pc' = [pc EXCEPT ![j] = "load"]
        /\ UNCHANGED <<document, job>> /\ pc[j] = "validate" /\ job[j].type = "validation"
    BY <1>11, <2>1 DEF Validate, Goes, disk
  <2> HIDE DEF tested
  <2>4. mem'[j].read = tested /\ mem'[j].target = mem[j].target /\ pc'[j] = "load"
    BY <2>3 DEF Types, Memory, Actors
  <2>5. CASE b = j
    BY <2>2, <2>3, <2>4, <2>5 DEF Quiet, Current, Held
  <2>6. CASE b # j
    BY <2>3, <2>6 DEF Quiet, Current, Types
  <2> QED
    BY <2>5, <2>6
<1>12. ASSUME NEW j \in Jobs, Execute(j) PROVE Quiet'
  BY <1>12, <1>d
     DEF Execute, disk, history, Quiet, Current, Types, Memory, Goes, Drops, Held,
         Nothing, OperationAt, FreshRead, Actors, AfterTransfer
<1>13. ASSUME NEW j \in Jobs, SyncMirror(j) PROVE Quiet'
  <2> SUFFICES ASSUME ~raced, NEW b \in Actors \ dirty
               PROVE  Current(b)'
    BY <1>13 DEF SyncMirror, history, Quiet
  <2>1. UNCHANGED <<document, job>> /\ pc[j] = "sync"
    BY <1>13 DEF SyncMirror, disk
  <2>2. CASE b # j
    BY <1>13, <2>1, <2>2 DEF SyncMirror, Drops, Goes, Quiet, Current, Types
  <2>3. CASE b = j /\ Drops(j)
    BY <2>3 DEF Drops, Goes, Types, Current, Held
  <2>4. CASE b = j /\ ~Drops(j)
    <3>1. PICK state \in States :
            mem' = [mem EXCEPT ![j].read.backup = [snapshot |-> None, state |-> state]]
      BY <1>13, <2>4 DEF SyncMirror
    <3> DEFINE read == [mem[j].read EXCEPT !.backup = [snapshot |-> None, state |-> state]]
    <3>2. mem[j].read \in Target
      BY <2>1 DEF Sound, HoldsSound, Held, SoundTarget, Actors
    <3>3. read.settings = mem[j].read.settings /\ read.status = mem[j].read.status
      BY <3>2 DEF Target
    <3>4. mem' = [mem EXCEPT ![j].read = read]
      BY <3>1
    <3> HIDE DEF read
    <3>5. mem'[j].read = read /\ mem'[j].target = mem[j].target /\ pc'[j] = "load"
      BY <1>13, <2>4, <3>4 DEF SyncMirror, Goes, Types, Memory
    <3> QED
      BY <2>1, <2>4, <3>3, <3>5 DEF Quiet, Current, Held
  <2> QED
    BY <2>2, <2>3, <2>4
<1>14. ASSUME NEW j \in Jobs, Transfer(j) PROVE Quiet'
  BY <1>14, <1>d
     DEF Transfer, disk, history, Quiet, Current, Types, Memory, Goes, Held, Nothing,
         OperationAt, FreshRead, AfterTransfer
<1>15. ASSUME NEW j \in Jobs, PersistSnapshot(j) PROVE Quiet'
  BY <1>15, <1>d
     DEF PersistSnapshot, disk, history, Quiet, Current, Types, Memory, Goes, Held,
         Nothing, OperationAt, FreshRead
<1>16. ASSUME Crash PROVE Quiet'
  BY <1>16, <1>d
     DEF Crash, disk, history, Quiet, Current, Types, Memory, Goes, Held, Nothing,
         OperationAt, FreshRead
<1>17. CASE UNCHANGED vars
  BY <1>17, <1>d
     DEF vars, disk, history, disk, history, Quiet, Current, Types, Memory, Goes, Held,
         Nothing, OperationAt, FreshRead
<1> QED
  BY <1>1, <1>2, <1>3, <1>4, <1>5, <1>6, <1>7, <1>8, <1>9, <1>10, <1>11, <1>12, <1>13,
     <1>14, <1>15, <1>16, <1>17
     DEF Next, CallStep, NewCall, JobStep, Actors

\* A write that is not from an old read changes the actor's own target only.
LEMMA KeptStep ==
    /\ Types
    /\ \A a \in Actors : OperationAt(a)
    /\ Sound
    /\ Quiet
    /\ QuietUpdatesKept
    /\ [Next]_vars
  => QuietUpdatesKept'
<1> SUFFICES ASSUME Types, \A a \in Actors : OperationAt(a), Sound, Quiet,
                    QuietUpdatesKept, [Next]_vars
             PROVE  QuietUpdatesKept'
  OBVIOUS
<1>1. ASSUME NEW a \in Actors, SaveTargetLoad(a) PROVE QuietUpdatesKept'
  BY <1>1 DEF SaveTargetLoad, disk, history, QuietUpdatesKept
<1>2. ASSUME NEW a \in Actors, Save(a) PROVE QuietUpdatesKept'
  <2> SUFFICES ASSUME ~raced'
               PROVE  \A u \in Targets : IF document'[u] = None THEN latest'[u] = None
                                          ELSE latest'[u] = document'[u].settings
    BY DEF QuietUpdatesKept
  <2> DEFINE t == mem[a].target
             doc == mem[a].doc
  <2>1. ~raced /\ a \notin dirty /\ pc[a] = "save" /\ document' = doc
    BY <1>2 DEF Save
  <2>2. /\ \A u \in Targets \ {t} : doc[u] = document[u]
        /\ mem[a].op # "change" => /\ document[t] # None /\ doc[t] # None
                                   /\ doc[t].settings = document[t].settings
    BY <2>1 DEF Quiet, Current
  <2>3. latest' = IF mem[a].op = "change"
                  THEN [latest EXCEPT ![t] = IF doc[t] = None THEN None ELSE doc[t].settings]
                  ELSE latest
    BY <1>2 DEF Save
  <2> QED
    BY <2>1, <2>2, <2>3 DEF QuietUpdatesKept, Types
<1>3. ASSUME NEW c \in Callers, NEW t \in Targets,
             NEW payload \in Payloads, ChangeLoad(c, t, payload) PROVE QuietUpdatesKept'
  BY <1>3 DEF ChangeLoad, disk, history, QuietUpdatesKept
<1>4. ASSUME NEW c \in Callers, ChangeBuild(c) PROVE QuietUpdatesKept'
  BY <1>4 DEF ChangeBuild, disk, history, QuietUpdatesKept
<1>5. ASSUME NEW c \in Callers, ChangeRefused(c) PROVE QuietUpdatesKept'
  BY <1>5 DEF ChangeRefused, disk, history, QuietUpdatesKept
<1>6. ASSUME NEW c \in Callers, NEW t \in Targets, Delete(c, t) PROVE QuietUpdatesKept'
  BY <1>6 DEF Delete, disk, history, QuietUpdatesKept
<1>7. ASSUME NEW c \in Callers, NEW t \in Targets, StartValidation(c, t)
      PROVE  QuietUpdatesKept'
  BY <1>7 DEF StartValidation, disk, history, QuietUpdatesKept
<1>8. ASSUME NEW c \in Callers, SubmitValidation(c) PROVE QuietUpdatesKept'
  BY <1>8 DEF SubmitValidation, disk, history, QuietUpdatesKept
<1>9. ASSUME NEW c \in Callers, NEW t \in Targets, StartExecution(c, t)
      PROVE  QuietUpdatesKept'
  BY <1>9 DEF StartExecution, disk, history, QuietUpdatesKept
<1>10. ASSUME NEW j \in Jobs, GetTarget(j) PROVE QuietUpdatesKept'
  BY <1>10 DEF GetTarget, disk, history, QuietUpdatesKept
<1>11. ASSUME NEW j \in Jobs, Validate(j) PROVE QuietUpdatesKept'
  BY <1>11 DEF Validate, disk, history, QuietUpdatesKept
<1>12. ASSUME NEW j \in Jobs, Execute(j) PROVE QuietUpdatesKept'
  BY <1>12 DEF Execute, disk, history, QuietUpdatesKept
<1>13. ASSUME NEW j \in Jobs, SyncMirror(j) PROVE QuietUpdatesKept'
  BY <1>13 DEF SyncMirror, disk, history, QuietUpdatesKept
<1>14. ASSUME NEW j \in Jobs, Transfer(j) PROVE QuietUpdatesKept'
  BY <1>14 DEF Transfer, disk, history, QuietUpdatesKept
<1>15. ASSUME NEW j \in Jobs, PersistSnapshot(j) PROVE QuietUpdatesKept'
  BY <1>15 DEF PersistSnapshot, disk, history, QuietUpdatesKept
<1>16. ASSUME Crash PROVE QuietUpdatesKept'
  BY <1>16 DEF Crash, disk, history, QuietUpdatesKept
<1>17. CASE UNCHANGED vars
  BY <1>17 DEF vars, disk, history, disk, history, QuietUpdatesKept
<1> QED
  BY <1>1, <1>2, <1>3, <1>4, <1>5, <1>6, <1>7, <1>8, <1>9, <1>10, <1>11, <1>12, <1>13,
     <1>14, <1>15, <1>16, <1>17
     DEF Next, CallStep, NewCall, JobStep, Actors

\* The mark goes with the validation: another writer does not bring it back.
LEMMA RunningStep ==
    /\ Types
    /\ \A a \in Actors : OperationAt(a)
    /\ Sound
    /\ \A a \in Actors : Decided(a)
    /\ Quiet
    /\ RunningIsUnderWay
    /\ [Next]_vars
  => RunningIsUnderWay'
<1> SUFFICES ASSUME Types, \A a \in Actors : OperationAt(a), Sound,
                    \A a \in Actors : Decided(a), Quiet, RunningIsUnderWay, [Next]_vars
             PROVE  RunningIsUnderWay'
  OBVIOUS
<1>d. Callers \cap Jobs = {}
  BY DistinctAssumption
<1>1. ASSUME NEW a \in Actors, SaveTargetLoad(a) PROVE RunningIsUnderWay'
  BY <1>1, <1>d
     DEF SaveTargetLoad, disk, history, RunningIsUnderWay, UnderWay, Types, Memory,
         OperationAt, Held, Nothing, Goes
<1>2. ASSUME NEW a \in Actors, Save(a) PROVE RunningIsUnderWay'
  <2> SUFFICES ASSUME ~raced', crashes' = 0, NEW u \in Targets,
                      document'[u] # None, document'[u].status = "running"
               PROVE  UnderWay(u)'
    BY DEF RunningIsUnderWay
  <2> DEFINE t == mem[a].target
             doc == mem[a].doc
  <2>1. /\ ~raced /\ a \notin dirty /\ crashes = 0 /\ pc[a] = "save" /\ document' = doc
        /\ UNCHANGED job
        /\ mem'[a].op = mem[a].op /\ mem'[a].target = t
        /\ \A b \in Actors \ {a} : mem'[b] = mem[b] /\ pc'[b] = pc[b]
    BY <1>2 DEF Save, Goes, Nothing, Types
  <2>2. /\ \A v \in Targets \ {t} : doc[v] = document[v]
        /\ mem[a].op # "change" => document[t] # None
        /\ a \in Jobs /\ job[a].type = "execution" => doc[t].status = document[t].status
    BY <2>1 DEF Quiet, Current
  <2>3. CASE mem[a].op = "start"
    BY <1>d, <2>1, <2>2, <2>3 DEF UnderWay, RunningIsUnderWay, OperationAt, Held, Actors
  <2>4. CASE mem[a].op = "change"
    <3>1. u # t
      BY <2>1, <2>4 DEF Decided
    <3>2. UnderWay(u)
      BY <2>1, <2>2, <3>1 DEF RunningIsUnderWay
    <3>3. a \notin Jobs
      BY <2>1, <2>4 DEF OperationAt, Held
    <3> QED
      BY <2>1, <3>2, <3>3 DEF UnderWay, Actors
  <2>5. CASE a \in Jobs
    <3>1. /\ mem[a].op = "job" /\ t = job[a].target /\ t \in Targets
          /\ job[a].type \in {"validation", "execution"}
      BY <2>1, <2>5 DEF OperationAt, Held, Types, JobRecord
    <3>2. u = t => job[a].type = "execution"
      BY <2>1, <2>5, <3>1 DEF Decided
    <3>3. UnderWay(u)
      BY <2>1, <2>2, <2>5, <3>1, <3>2 DEF RunningIsUnderWay
    <3>4. job[a] # [type |-> "validation", target |-> u]
      BY <3>1, <3>2
    <3> QED
      BY <1>d, <2>1, <2>5, <3>3, <3>4 DEF UnderWay, Actors
  <2> QED
    BY <2>1, <2>3, <2>4, <2>5 DEF OperationAt, Actors
<1>3. ASSUME NEW c \in Callers, NEW t \in Targets,
             NEW payload \in Payloads, ChangeLoad(c, t, payload) PROVE RunningIsUnderWay'
  BY <1>3, <1>d
     DEF ChangeLoad, disk, history, RunningIsUnderWay, UnderWay, Types, Memory,
         OperationAt, Held, Nothing, Goes
<1>4. ASSUME NEW c \in Callers, ChangeBuild(c) PROVE RunningIsUnderWay'
  BY <1>4, <1>d
     DEF ChangeBuild, disk, history, RunningIsUnderWay, UnderWay, Types, Memory,
         OperationAt, Held, Nothing, Goes
<1>5. ASSUME NEW c \in Callers, ChangeRefused(c) PROVE RunningIsUnderWay'
  BY <1>5, <1>d
     DEF ChangeRefused, disk, history, RunningIsUnderWay, UnderWay, Types, Memory,
         OperationAt, Held, Nothing, Goes
<1>6. ASSUME NEW c \in Callers, NEW t \in Targets, Delete(c, t) PROVE RunningIsUnderWay'
  BY <1>6, <1>d
     DEF Delete, disk, history, RunningIsUnderWay, UnderWay, Types, Memory, OperationAt,
         Held, Nothing, Goes
<1>7. ASSUME NEW c \in Callers, NEW t \in Targets, StartValidation(c, t)
      PROVE  RunningIsUnderWay'
  BY <1>7, <1>d
     DEF StartValidation, disk, history, RunningIsUnderWay, UnderWay, Types, Memory,
         OperationAt, Held, Nothing, Goes
<1>8. ASSUME NEW c \in Callers, SubmitValidation(c) PROVE RunningIsUnderWay'
  <2> SUFFICES ASSUME ~raced, crashes = 0, NEW u \in Targets,
                      document[u] # None, document[u].status = "running"
               PROVE  UnderWay(u)'
    BY <1>8 DEF SubmitValidation, disk, history, RunningIsUnderWay
  <2>1. UnderWay(u)
    BY DEF RunningIsUnderWay
  <2>2. PICK i \in Jobs :
          /\ pc[i] = "none"
          /\ job' = [job EXCEPT ![i] = [type |-> "validation", target |-> mem[c].target]]
          /\ pc' = [pc EXCEPT ![i] = "begin", ![c] = "idle"]
    BY <1>8 DEF SubmitValidation
  <2>3. mem' = [mem EXCEPT ![c] = Nothing]
    BY <1>8 DEF SubmitValidation
  <2>4. pc'[i] = "begin" /\ i # c /\ \A b \in Jobs \ {i} : pc'[b] = pc[b]
    BY <1>d, <2>2 DEF Types, Actors
  <2>5. job'[i] = [type |-> "validation", target |-> mem[c].target]
    BY <2>2 DEF Types
  <2>6. CASE mem[c].target = u
    BY <2>4, <2>5, <2>6 DEF UnderWay
  <2>7. CASE \E b \in Callers \ {c} : mem[b].op = "start" /\ mem[b].target = u
    <3>1. PICK b \in Callers \ {c} : mem[b].op = "start" /\ mem[b].target = u
      BY <2>7
    <3>2. mem'[b] = mem[b]
      BY <2>3, <3>1 DEF Types
    <3> QED
      BY <3>1, <3>2 DEF UnderWay
  <2>8. CASE \E b \in Jobs : job[b] = [type |-> "validation", target |-> u] /\ pc[b] # "done"
    <3>1. PICK b \in Jobs : job[b] = [type |-> "validation", target |-> u] /\ pc[b] # "done"
      BY <2>8
    <3>2. CASE b = i
      BY <2>2, <3>1, <3>2 DEF OperationAt, Actors
    <3>3. CASE b # i
      <4>1. job'[b] = job[b] /\ pc'[b] = pc[b]
        BY <2>2, <2>4, <3>3 DEF Types
      <4> QED
        BY <3>1, <4>1 DEF UnderWay
    <3> QED
      BY <3>2, <3>3
  <2> QED
    BY <2>1, <2>6, <2>7, <2>8 DEF UnderWay
<1>9. ASSUME NEW c \in Callers, NEW t \in Targets, StartExecution(c, t)
      PROVE  RunningIsUnderWay'
  <2> SUFFICES ASSUME ~raced, crashes = 0, NEW u \in Targets,
                      document[u] # None, document[u].status = "running"
               PROVE  UnderWay(u)'
    BY <1>9 DEF StartExecution, disk, history, RunningIsUnderWay
  <2>1. UnderWay(u)
    BY DEF RunningIsUnderWay
  <2>2. PICK i \in Jobs :
          /\ pc[i] = "none"
          /\ job' = [job EXCEPT ![i] = [type |-> "execution", target |-> t]]
          /\ pc' = [pc EXCEPT ![i] = "begin"]
          /\ UNCHANGED mem
    BY <1>9 DEF StartExecution, Goes
  <2>3. job[i].type = "none"
    BY <2>2 DEF OperationAt, Actors
  <2>4. \A b \in Jobs \ {i} : job'[b] = job[b] /\ pc'[b] = pc[b]
    BY <2>2 DEF Types
  <2>5. \A b \in Jobs : job[b] = [type |-> "validation", target |-> u] => b # i
    BY <2>3
  <2> QED
    BY <2>1, <2>2, <2>4, <2>5 DEF UnderWay
<1>10. ASSUME NEW j \in Jobs, GetTarget(j) PROVE RunningIsUnderWay'
  BY SMTT(30), <1>10, <1>d
     DEF GetTarget, disk, history, RunningIsUnderWay, UnderWay, Types, Memory,
         OperationAt, Held, Nothing, Goes, Actors
<1>11. ASSUME NEW j \in Jobs, Validate(j) PROVE RunningIsUnderWay'
  BY <1>11, <1>d
     DEF Validate, disk, history, RunningIsUnderWay, UnderWay, Types, Memory,
         OperationAt, Held, Nothing, Goes
<1>12. ASSUME NEW j \in Jobs, Execute(j) PROVE RunningIsUnderWay'
  BY <1>12, <1>d
     DEF Execute, disk, history, RunningIsUnderWay, UnderWay, Types, Memory,
         OperationAt, Held, Nothing, Goes, Drops, Actors, AfterTransfer
<1>13. ASSUME NEW j \in Jobs, SyncMirror(j) PROVE RunningIsUnderWay'
  <2>1. /\ UNCHANGED <<document, job, raced, crashes>> /\ job[j].type = "execution"
        /\ \A b \in Actors \ {j} : mem'[b] = mem[b] /\ pc'[b] = pc[b]
    BY <1>13 DEF SyncMirror, Drops, Goes, disk, history, Types, OperationAt, Actors
  <2>2. \A u \in Targets : UnderWay(u) => UnderWay(u)'
    <3> SUFFICES ASSUME NEW u \in Targets, UnderWay(u) PROVE UnderWay(u)'
      OBVIOUS
    <3>1. \A b \in Jobs : job[b] = [type |-> "validation", target |-> u] => b # j
      BY <2>1
    <3> QED
      BY <1>d, <2>1, <3>1 DEF UnderWay, Actors
  <2> QED
    BY <2>1, <2>2 DEF RunningIsUnderWay
<1>14. ASSUME NEW j \in Jobs, Transfer(j) PROVE RunningIsUnderWay'
  BY <1>14, <1>d
     DEF Transfer, disk, history, RunningIsUnderWay, UnderWay, Types, Memory,
         OperationAt, Held, Nothing, Goes
<1>15. ASSUME NEW j \in Jobs, PersistSnapshot(j) PROVE RunningIsUnderWay'
  BY <1>15, <1>d
     DEF PersistSnapshot, disk, history, RunningIsUnderWay, UnderWay, Types, Memory,
         OperationAt, Held, Nothing, Goes
<1>16. ASSUME Crash PROVE RunningIsUnderWay'
  BY <1>16 DEF Crash, RunningIsUnderWay, Types, TypeOK
<1>17. CASE UNCHANGED vars
  BY <1>17, <1>d
     DEF vars, disk, history, disk, history, RunningIsUnderWay, UnderWay, Types, Memory,
         OperationAt, Held, Nothing, Goes
<1> QED
  BY <1>1, <1>2, <1>3, <1>4, <1>5, <1>6, <1>7, <1>8, <1>9, <1>10, <1>11, <1>12, <1>13,
     <1>14, <1>15, <1>16, <1>17
     DEF Next, CallStep, NewCall, JobStep, Actors

\* Every target of the first file is as create_target leaves it.
LEMMA InitInv == Init => Inv
<1> SUFFICES ASSUME Init PROVE Inv
  OBVIOUS
<1>1. \A target \in FirstTargets \ {None} :
         SoundTarget(target, {}, {}) /\ target.status = "unknown"
  <2> SUFFICES ASSUME NEW payload \in Payloads, SecretKind(payload.kind) = "none"
               PROVE  LET target == Built(payload, None, None, 0) IN
                      SoundTarget(target, {}, {}) /\ target.status = "unknown"
    BY DEF FirstTargets
  <2> DEFINE settings == [kind |-> payload.kind, enabled |-> payload.enabled,
                          strict |-> payload.strict, secret |-> None, revision |-> 0]
  <2>1. Built(payload, None, None, 0) =
          [settings |-> settings, status |-> "unknown", test |-> None, backup |-> None]
    BY DEF Built, BuiltStatus, ResolvedSecret
  <2>2. settings \in Settings
    BY PayloadsAssumption, BoundsAssumption DEF Settings, Payload
  <2> QED
    BY <2>1, <2>2 DEF SoundTarget, Target, Status
<1>2. document \in Documents
  BY <1>1 DEF Init, SoundTarget, Documents
<1>3. latest \in [Targets -> Settings \cup {None}]
  BY <1>2 DEF Init, Documents, Target
<1>4. Types
  <2>1. TypeOK
    <3>1. \A t \in Targets : latest[t] \in Settings \cup {None}
      BY <1>3
    <3>2. calls \in 0 .. MaxCalls /\ crashes \in 0 .. MaxCrashes
      BY BoundsAssumption DEF Init
    <3> QED
      BY <1>2, <3>1, <3>2 DEF Init, TypeOK
  <2>2. mem \in [Actors -> Memory]
    BY DEF Init, Memory, Nothing
  <2>3. job \in [Jobs -> JobRecord]
    BY DEF Init, JobRecord
  <2>4. pc \in [Actors -> CallerSteps \cup JobSteps]
    BY DEF Init, CallerSteps, JobSteps
  <2> QED
    BY <1>3, <2>1, <2>2, <2>3, <2>4 DEF Types
<1>5. \A a \in Actors : OperationAt(a)
  BY DistinctAssumption DEF Init, OperationAt, Nothing, Held, CallerSteps, JobSteps
<1>6. Sound
  <2>1. secrets = {} /\ Backups = {}
    BY DEF Init, Backups
  <2>2. SoundDocument(document, secrets, Backups)
    BY <1>1, <1>2, <2>1 DEF Init, SoundDocument
  <2> QED
    BY <2>2 DEF Init, Sound, HoldsSound, Held
<1>7. \A a \in Actors : Decided(a)
  BY DEF Init, Decided
<1>8. Quiet
  BY DEF Init, Quiet, Current, Held
<1>9. QuietUpdatesKept
  BY DEF Init, QuietUpdatesKept
<1>10. RunningIsUnderWay
  BY <1>1 DEF Init, RunningIsUnderWay
<1> QED
  BY <1>4, <1>5, <1>6, <1>7, <1>8, <1>9, <1>10 DEF Inv

\* The invariant is inductive.
LEMMA InvStep == Inv /\ [Next]_vars => Inv'
<1>1. Inv /\ [Next]_vars => Types'
  BY StepsTyped, MemTyped, JobsTyped, RestTyped DEF Inv, Types
<1> QED
  BY <1>1, OperationStep, SoundStep, DecidedStep, QuietStep, KeptStep, RunningStep
     DEF Inv

-----------------------------------------------------------------------------
(* The theorems.                                                            *)

\* In every state the file and all that requests and jobs hold of it satisfy Inv.
THEOREM SpecInv == Spec => []Inv
  BY InitInv, InvStep, PTL DEF Spec

\* The file, the jobs and the memory of every actor keep their types.
THEOREM TypeCorrect == Spec => []TypeOK
<1>1. Inv => TypeOK
  BY DEF Inv, Types
<1> QED
  BY <1>1, SpecInv, PTL

\* BackupTargetStore.save_target and the validation job: whatever requests and
\* jobs overlap, a verdict in the file is about the settings beside it, and
\* "ready" means the destination was written to.
THEOREM VerdictsAreOfSettings == Spec => []VerifiedSettings
<1>1. Inv => VerifiedSettings
  BY DEF Inv, Sound, SoundDocument, SoundTarget, VerifiedSettings
<1> QED
  BY <1>1, SpecInv, PTL

\* _build_target and _persist_remote_snapshot: the secret a target refers to can
\* be loaded, and the backup it records is on disk and was whole, at any crash,
\* failed transfer or write from an old read.
THEOREM ReferencesResolve == Spec => []ReferencesHold
<1>1. Inv => ReferencesHold
  BY DEF Inv, Sound, SoundDocument, SoundTarget, Backups, ReferencesHold,
         SecretRefsResolve, RecordedBackupReal
<1> QED
  BY <1>1, SpecInv, PTL

\* create_target, update_target and delete_target: until someone has saved what he
\* had read before another's save, the last request stands.
THEOREM UpdatesKept == Spec => []QuietUpdatesKept
<1>1. Inv => QuietUpdatesKept
  BY DEF Inv
<1> QED
  BY <1>1, SpecInv, PTL

\* start_validation: without such a save and without a crash, a target shown as
\* running has a validation under way, from the first mark to the job's end.
THEOREM RunningHasJob == Spec => []RunningIsUnderWay
<1>1. Inv => RunningIsUnderWay
  BY DEF Inv
<1> QED
  BY <1>1, SpecInv, PTL
=============================================================================
