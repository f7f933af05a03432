--------------------------- MODULE BackupTargets ---------------------------
(***************************************************************************)
(* Backup targets: the document of BackupTargetStore, its secrets, and     *)
(* everything that reads a target, works on it and writes it back:         *)
(* BackupTargetSettingsService, the validation job of                      *)
(* BackupTargetValidationService and the backup job of                     *)
(* ManualBackupExecutionService.                                           *)
(*                                                                         *)
(* All targets are one JSON file, which each change loads and saves as a   *)
(* whole without a lock.  A job holds the target it read at its start for  *)
(* as long as it runs and then saves all of it.                            *)
(*                                                                         *)
(* Settings keep what the code tells apart: how the target is reached and  *)
(* authenticated (kind), whether it is enabled, whether the host key is    *)
(* checked, the secret, and the revision a request brought.  SSH and rsync *)
(* targets are treated alike.  The paths, the hosts and the tools are the  *)
(* environment a validation meets.                                         *)
(***************************************************************************)
EXTENDS Naturals, FiniteSets

CONSTANTS
    Targets,     \* target ids
    Callers,     \* threads serving API requests
    Jobs,        \* job ids start_job may draw
    Secrets,     \* ids of LocalSecretStore
    Payloads,    \* requests to create or update a target, without revision
    None,
    MaxCalls,    \* bound: API calls
    MaxCrashes   \* bound: crashes of the process

PathKinds == {"local", "mounted"}
RemoteKinds == {"agent", "private_key", "password"}
Kinds == PathKinds \cup RemoteKinds \cup {"system_mount"}
SecretInputs == {"keep", "new"} \cup Secrets
Payload == [kind : Kinds, enabled : BOOLEAN, strict : BOOLEAN, secret : SecretInputs]

ASSUME PayloadsAssumption == Payloads \subseteq Payload
ASSUME DistinctAssumption == Callers \cap Jobs = {} /\ None \notin Secrets \cup Targets
ASSUME BoundsAssumption == MaxCalls \in Nat /\ MaxCrashes \in Nat

VARIABLES
    document,   \* target id -> the target in the file, None without one
    secrets,    \* ids of the secrets on disk
    snapshots,  \* backup ids whose manifest is on disk
    pc,         \* actor -> where it stands
    mem,        \* actor -> what it holds
    job,        \* job id -> its type and target
    calls,      \* API calls made (bound)
    crashes,    \* crashes so far (bound)
    complete,   \* history: backup ids whose transfer ran to its end
    latest,     \* history: target id -> settings the last request saved
    dirty,      \* history: actors since whose read another actor saved
    raced       \* history: an actor has saved although it was dirty

disk == <<document, secrets, snapshots>>
history == <<complete, latest, dirty, raced>>
vars == <<disk, pc, mem, job, calls, crashes, history>>

-----------------------------------------------------------------------------
Actors == Callers \cup Jobs
Settings == [kind : Kinds, enabled : BOOLEAN, strict : BOOLEAN,
             secret : Secrets \cup {None}, revision : 0 .. MaxCalls]
States == {"completed", "partial", "failed", "unsupported"}
Status == {"unknown", "ready", "warning", "failed", "running", "unsupported"}
\* last_test_result; settings and probed say what was tested (history).
TestResult == [status : Status, settings : Settings, probed : BOOLEAN]
\* last_successful_backup, with the state of the run that recorded it.
LastBackup == [snapshot : Jobs \cup {None}, state : States]
Target == [settings : Settings, status : Status,
           test : TestResult \cup {None}, backup : LastBackup \cup {None}]
Documents == [Targets -> Target \cup {None}]
\* None is told apart from every value it may stand for.
ASSUME NoneAssumption == None \notin Target \cup TestResult \cup Documents

Nothing == [op |-> "none", target |-> None, payload |-> None, read |-> None, doc |-> None]

\* What a validation finds: the directory of a path-like target, and ssh,
\* rsync, the agent, the known_hosts file and the probe of a remote one.
Environment == [writable : BOOLEAN, space : BOOLEAN, ssh : BOOLEAN, rsync : BOOLEAN,
                agent : BOOLEAN, hosts : BOOLEAN, probe : {"ok", "refused", "raises"}]

-----------------------------------------------------------------------------
(* Validation: _checks_for_target and what is made of the checks.           *)

Outcome(good, bad, ok) == IF ok THEN good ELSE bad

DirectoryChecks(env) ==
    {<<"directory", Outcome("pass", "fail", env.writable)>>,
     <<"free_space", Outcome("pass", "warn", env.space)>>}

SmbChecks(s, env) ==
    IF s.kind = "mounted"
    THEN DirectoryChecks(env) \cup {<<"smb_execution_mode", "pass">>}
    ELSE {<<"smb_execution_mode", "skip">>,
          <<"smb_password_secret_ref", Outcome("pass", "fail", s.secret # None)>>}

ToolChecks(s, env) ==
    {<<"tool_ssh", Outcome("pass", "fail", env.ssh)>>,
     <<"tool_rsync", Outcome("pass", "warn", env.rsync)>>}

AgentChecks(s, env) ==
    IF s.kind = "agent"
    THEN {<<"remote_agent_socket", Outcome("pass", "fail", env.agent)>>}
    ELSE {}

KnownHostsChecks(s, env) ==
    IF s.strict
    THEN {<<"remote_known_hosts_path", Outcome("pass", "fail", env.hosts)>>}
    ELSE {<<"remote_known_host_mode", "warn">>, <<"remote_security_warning", "warn">>}

ProbeChecks(env) ==
    IF env.probe = "raises"
    THEN {<<"remote_transport", "fail">>}
    ELSE {<<"remote_write_probe", Outcome("pass", "fail", env.probe = "ok")>>,
          <<"remote_free_space", Outcome("pass", "warn", env.space)>>}

Statuses(checks) == {check[2] : check \in checks}

RemoteChecks(s, env) ==
    LET local == ToolChecks(s, env) \cup AgentChecks(s, env) \cup KnownHostsChecks(s, env) IN
    IF s.kind = "password" THEN {<<"remote_auth_mode", "skip">>}
    ELSE IF "fail" \in Statuses(local) THEN local
    ELSE local \cup ProbeChecks(env)

Checks(s, env) ==
    {<<"target_enabled", Outcome("pass", "warn", s.enabled)>>}
        \cup (CASE s.kind = "local"        -> DirectoryChecks(env)
                [] s.kind \in RemoteKinds  -> RemoteChecks(s, env)
                [] OTHER                   -> SmbChecks(s, env))

\* A missing rsync blocks execution, not the validation of a remote target.
RelevantChecks(s, checks) ==
    IF s.kind \in RemoteKinds THEN {c \in checks : c[1] # "tool_rsync"} ELSE checks

StateFromChecks(checks) ==
    CASE "fail" \in Statuses(checks) -> "failed"
      [] Statuses(checks) \subseteq {"pass", "skip"} /\ "skip" \in Statuses(checks)
           -> "unsupported"
      [] "warn" \in Statuses(checks) /\ "fail" \notin Statuses(checks) -> "partial"
      [] OTHER -> "completed"

ValidationState(s, env) == StateFromChecks(RelevantChecks(s, Checks(s, env)))

Verification(state) ==
    CASE state = "completed"   -> "ready"
      [] state = "failed"      -> "failed"
      [] state = "unsupported" -> "unsupported"
      [] OTHER                 -> "warning"

ExecutionSupported(s, env) ==
    \/ s.kind \in PathKinds
    \/ /\ s.kind \in {"agent", "private_key"}
       /\ ValidationState(s, env) \in {"completed", "partial"}
       /\ env.rsync

\* The destination was written to when it was checked.
Probed(s, env) ==
    IF s.kind \in PathKinds THEN env.writable
    ELSE s.kind \in {"agent", "private_key"} /\ env.ssh /\ env.probe = "ok"

-----------------------------------------------------------------------------
(* Settings: _build_target.                                                 *)

SecretKind(kind) ==
    CASE kind \in {"system_mount", "password"} -> "password"
      [] kind = "private_key"                  -> "private_key"
      [] OTHER                                 -> "none"

KeptSecret(kind, existing) ==
    IF existing # None /\ SecretKind(existing.settings.kind) = SecretKind(kind)
    THEN existing.settings.secret
    ELSE None

\* The secret the target will refer to; fresh is the id of new material.
ResolvedSecret(payload, existing, fresh) ==
    IF SecretKind(payload.kind) = "none" THEN None
    ELSE CASE payload.secret = "keep" -> KeptSecret(payload.kind, existing)
           [] payload.secret = "new"  -> fresh
           [] OTHER                   -> payload.secret

PersistsSecret(payload) == SecretKind(payload.kind) # "none" /\ payload.secret = "new"

\* reuse_secret loads the record, so it must be there.
Reusable(id) == id \in secrets

\* _resolve_secret_reference and _validate_resolved_transport do not raise.
Acceptable(payload, existing, fresh) ==
    LET id == ResolvedSecret(payload, existing, fresh) IN
    /\ SecretKind(payload.kind) # "none" => id # None
    /\ payload.secret \in Secrets /\ SecretKind(payload.kind) # "none" => Reusable(id)

MutantBuiltStatus(existing) == IF existing = None THEN "unknown" ELSE existing.status
\* Whatever was verified before, changed settings are not.
BuiltStatus(existing) == "unknown"

Built(payload, existing, fresh, revision) ==
    [settings |-> [kind |-> payload.kind, enabled |-> payload.enabled,
                   strict |-> payload.strict,
                   secret |-> ResolvedSecret(payload, existing, fresh),
                   revision |-> revision],
     status |-> BuiltStatus(existing),
     test |-> IF existing = None THEN None ELSE existing.test,
     backup |-> IF existing = None THEN None ELSE existing.backup]

\* A target as create_target leaves it, before any call of this run.
FirstTargets ==
    {None} \cup {Built(payload, None, None, 0) :
                   payload \in {p \in Payloads : SecretKind(p.kind) = "none"}}

Init ==
    /\ document \in [Targets -> FirstTargets]
    /\ secrets = {}
    /\ snapshots = {}
    /\ pc = [a \in Actors |-> IF a \in Callers THEN "idle" ELSE "none"]
    /\ mem = [a \in Actors |-> Nothing]
    /\ job = [j \in Jobs |-> [type |-> "none", target |-> None]]
    /\ calls = 0
    /\ crashes = 0
    /\ complete = {}
    /\ latest = [t \in Targets |-> IF document[t] = None THEN None
                                ELSE document[t].settings]
    /\ dirty = {}
    /\ raced = FALSE

-----------------------------------------------------------------------------
(* Reading and writing the file.                                            *)

Goes(a, step) == pc' = [pc EXCEPT ![a] = step]
Call == calls < MaxCalls /\ calls' = calls + 1

\* a starts from what the file holds now.
FreshRead(a) == dirty' = dirty \ {a}

\* Actors that hold something they have read.
Holding == {a \in Actors : mem[a].read # None \/ mem[a].doc # None}

MutantPlaced(doc, t, target) == [u \in Targets |-> IF u = t THEN target ELSE None]
\* save_target replaces the target in the loaded document, or appends it.
Placed(doc, t, target) == [doc EXCEPT ![t] = target]

SaveTargetLoad(a) ==
    /\ pc[a] = "load"
    /\ mem' = [mem EXCEPT ![a].doc = Placed(document, mem[a].target, mem[a].read)]
    /\ Goes(a, "save")
    /\ UNCHANGED <<disk, job, calls, crashes, history>>

AfterSave(a) ==
    CASE mem[a].op = "job"   -> "done"
      [] mem[a].op = "start" -> "submit"
      [] OTHER               -> "idle"

\* store.save_document
Save(a) ==
    LET t == mem[a].target IN
    /\ pc[a] = "save"
    /\ document' = mem[a].doc
    /\ mem' = [mem EXCEPT ![a] = [Nothing EXCEPT !.op = mem[a].op,
                                              !.target = t]]
    /\ Goes(a, AfterSave(a))
    /\ dirty' = (dirty \cup Holding) \ {a}
    /\ raced' = (raced \/ a \in dirty)
    /\ latest' = IF mem[a].op = "change"
                 THEN [latest EXCEPT ![t] = IF mem[a].doc[t] = None THEN None
                                            ELSE mem[a].doc[t].settings]
                 ELSE latest
    /\ UNCHANGED <<secrets, snapshots, job, calls, crashes, complete>>

-----------------------------------------------------------------------------
(* API calls.                                                               *)

\* create_target and update_target load the document.
ChangeLoad(c, t, payload) ==
    /\ pc[c] = "idle" /\ Call
    /\ mem' = [mem EXCEPT ![c] = [Nothing EXCEPT !.op = "change", !.target = t,
                                              !.payload = payload, !.doc = document]]
    /\ FreshRead(c)
    /\ Goes(c, "build")
    /\ UNCHANGED <<disk, job, crashes, complete, latest, raced>>

\* The secret is stored while the target is built, before the document is saved.
ChangeBuild(c) ==
    LET t == mem[c].target
        payload == mem[c].payload
        existing == mem[c].doc[t] IN
    /\ pc[c] = "build"
    /\ \E fresh \in IF PersistsSecret(payload) THEN Secrets \ secrets ELSE {None} :
          /\ Acceptable(payload, existing, fresh)
          /\ secrets' = IF fresh = None THEN secrets ELSE secrets \cup {fresh}
          /\ mem' = [mem EXCEPT ![c].doc[t] = Built(payload, existing, fresh, calls)]
    /\ Goes(c, "save")
    /\ UNCHANGED <<document, snapshots, job, calls, crashes, history>>

\* ValueError, or the secret to reuse is not there.
ChangeRefused(c) ==
    /\ pc[c] = "build"
    /\ ~PersistsSecret(mem[c].payload)
    /\ ~Acceptable(mem[c].payload, mem[c].doc[mem[c].target], None)
    /\ mem' = [mem EXCEPT ![c] = Nothing]
    /\ Goes(c, "idle")
    /\ UNCHANGED <<disk, job, calls, crashes, history>>

Delete(c, t) ==
    /\ pc[c] = "idle" /\ Call
    /\ mem' = [mem EXCEPT ![c] = [Nothing EXCEPT !.op = "change", !.target = t,
                                              !.doc = [document EXCEPT ![t] = None]]]
    /\ FreshRead(c)
    /\ Goes(c, "save")
    /\ UNCHANGED <<disk, job, crashes, complete, latest, raced>>

Active(type, t) ==
    \E j \in Jobs : /\ job[j].type = type /\ (type = "validation" => job[j].target = t)
                    /\ pc[j] # "done"

\* start_validation marks the target before the job is started.
StartValidation(c, t) ==
    /\ pc[c] = "idle" /\ Call
    /\ ~Active("validation", t) /\ document[t] # None
    /\ mem' = [mem EXCEPT ![c] =
               [Nothing EXCEPT !.op = "start", !.target = t,
                               !.read = [document[t] EXCEPT !.status = "running"]]]
    /\ FreshRead(c)
    /\ Goes(c, "load")
    /\ UNCHANGED <<disk, job, crashes, complete, latest, raced>>

SubmitValidation(c) ==
    /\ pc[c] = "submit"
    /\ \E j \in Jobs :
          /\ pc[j] = "none"
          /\ job' = [job EXCEPT ![j] = [type |-> "validation", target |-> mem[c].target]]
          /\ pc' = [pc EXCEPT ![j] = "begin", ![c] = "idle"]
    /\ mem' = [mem EXCEPT ![c] = Nothing]
    /\ UNCHANGED <<disk, calls, crashes, history>>

StartExecution(c, t) ==
    /\ pc[c] = "idle" /\ Call
    /\ ~Active("execution", t) /\ document[t] # None
    /\ \E j \in Jobs :
          /\ pc[j] = "none"
          /\ job' = [job EXCEPT ![j] = [type |-> "execution", target |-> t]]
          /\ Goes(j, "begin")
    /\ UNCHANGED <<disk, mem, crashes, history>>

-----------------------------------------------------------------------------
(* The jobs.                                                                *)

\* get_target; a target that is gone fails the job.
GetTarget(j) ==
    LET t == job[j].target IN
    /\ pc[j] = "begin"
    /\ FreshRead(j)
    /\ IF document[t] = None
       THEN Goes(j, "done") /\ UNCHANGED mem
       ELSE /\ mem' = [mem EXCEPT ![j] = [Nothing EXCEPT !.op = "job", !.target = t,
                                                   !.read = document[t]]]
            /\ Goes(j, "validate")
    /\ UNCHANGED <<disk, job, calls, crashes, complete, latest, raced>>

Drops(j) == Goes(j, "done") /\ mem' = [mem EXCEPT ![j] = Nothing]

MutantTested(s, target, env) ==
    [target EXCEPT !.test = [status |-> Verification(ValidationState(s, env)),
                             settings |-> s, probed |-> Probed(s, env)]]
Tested(s, target, env) ==
    LET status == Verification(ValidationState(s, env)) IN
    [target EXCEPT !.status = status,
                   !.test = [status |-> status, settings |-> s, probed |-> Probed(s, env)]]

\* _run_validation: the result goes into the target that was read.
Validate(j) ==
    LET s == mem[j].read.settings IN
    /\ pc[j] = "validate" /\ job[j].type = "validation"
    /\ \E env \in Environment :
          mem' = [mem EXCEPT ![j].read = Tested(s, mem[j].read, env)]
    /\ Goes(j, "load")
    /\ UNCHANGED <<disk, job, calls, crashes, history>>

\* _run_execution up to its preparation: it ends without a transfer, syncs a
\* path-like target, or transfers to a remote one.
Execute(j) ==
    LET s == mem[j].read.settings IN
    /\ pc[j] = "validate" /\ job[j].type = "execution"
    /\ \E env \in Environment :
          LET passed == ValidationState(s, env) \in {"completed", "partial"} IN
          \/ /\ ~passed \/ ~ExecutionSupported(s, env)
             /\ Drops(j)
          \/ /\ passed /\ s.kind \in PathKinds
             /\ Goes(j, "sync") /\ UNCHANGED mem
          \/ /\ passed /\ s.kind \in RemoteKinds /\ ExecutionSupported(s, env)
             /\ Goes(j, "transfer") /\ UNCHANGED mem
    /\ UNCHANGED <<disk, job, calls, crashes, history>>

\* sync_missing looks the target up again; any end of it but an exception is
\* recorded as a backup.
SyncMirror(j) ==
    /\ pc[j] = "sync"
    /\ \/ /\ document[mem[j].target] = None
          /\ Drops(j)
       \/ /\ document[mem[j].target] # None
          /\ \E state \in States :
                mem' = [mem EXCEPT ![j].read.backup = [snapshot |-> None, state |-> state]]
          /\ Goes(j, "load")
    /\ UNCHANGED <<disk, job, calls, crashes, history>>

MutantAfterTransfer(whole) == "persist"
\* rsync ended well, or it failed or was terminated, which raises.
AfterTransfer(whole) == IF whole THEN "persist" ELSE "done"

\* A cancel terminates rsync, one of the ways it can fail; after it a cancel is
\* not seen.
Transfer(j) ==
    /\ pc[j] = "transfer"
    /\ \E whole \in BOOLEAN :
          /\ complete' = IF whole THEN complete \cup {j} ELSE complete
          /\ Goes(j, AfterTransfer(whole))
          /\ mem' = IF AfterTransfer(whole) = "done" THEN [mem EXCEPT ![j] = Nothing] ELSE mem
    /\ UNCHANGED <<disk, job, calls, crashes, latest, dirty, raced>>

\* The manifest is written before the target refers to it.
PersistSnapshot(j) ==
    /\ pc[j] = "persist"
    /\ snapshots' = snapshots \cup {j}
    /\ mem' = [mem EXCEPT ![j].read.backup = [snapshot |-> j, state |-> "completed"]]
    /\ Goes(j, "load")
    /\ UNCHANGED <<document, secrets, job, calls, crashes, history>>

\* Jobs under way are gone; the files stay.
Crash ==
    /\ crashes < MaxCrashes
    /\ crashes' = crashes + 1
    /\ pc' = [a \in Actors |-> IF a \in Callers THEN "idle"
                               ELSE IF pc[a] = "none" THEN "none" ELSE "done"]
    /\ mem' = [a \in Actors |-> Nothing]
    /\ dirty' = {}
    /\ UNCHANGED <<disk, job, calls, complete, latest, raced>>

-----------------------------------------------------------------------------
CallStep(c) ==
    \/ ChangeBuild(c) \/ ChangeRefused(c) \/ SaveTargetLoad(c) \/ Save(c)
    \/ SubmitValidation(c)

NewCall(c) ==
    \E t \in Targets :
        \/ \E payload \in Payloads : ChangeLoad(c, t, payload)
        \/ Delete(c, t) \/ StartValidation(c, t) \/ StartExecution(c, t)

JobStep(j) ==
    \/ GetTarget(j) \/ Validate(j) \/ Execute(j) \/ SyncMirror(j) \/ Transfer(j)
    \/ PersistSnapshot(j) \/ SaveTargetLoad(j) \/ Save(j)

Next ==
    \/ \E c \in Callers : CallStep(c) \/ NewCall(c)
    \/ \E j \in Jobs : JobStep(j)
    \/ Crash

Spec == Init /\ [][Next]_vars

-----------------------------------------------------------------------------
TypeOK ==
    /\ document \in Documents
    /\ secrets \subseteq Secrets
    /\ snapshots \subseteq Jobs
    /\ \A j \in Jobs : job[j] \in [type : {"none", "validation", "execution"},
                                   target : Targets \cup {None}]
    /\ calls \in 0 .. MaxCalls /\ crashes \in 0 .. MaxCrashes
    /\ complete \subseteq Jobs /\ dirty \subseteq Actors /\ raced \in BOOLEAN
    /\ \A t \in Targets : latest[t] \in Settings \cup {None}

\* What a target says of its verification is about the settings it shows,
\* whatever requests and jobs overlapped (update_target resets the status, a
\* job writes back the settings it has tested), and nothing is shown as ready
\* whose destination was not written to.
VerifiedSettings ==
    \A t \in Targets :
        document[t] # None /\ document[t].status \in {"ready", "warning", "failed", "unsupported"}
            => /\ document[t].test # None
               /\ document[t].test.settings = document[t].settings
               /\ document[t].status = document[t].test.status
               /\ document[t].status = "ready" => document[t].test.probed

\* Every secret a target in the file refers to can be loaded: new material is
\* stored before the document that names it, and reused material is looked up.
SecretRefsResolve ==
    \A t \in Targets :
        document[t] # None /\ document[t].settings.secret # None
            => document[t].settings.secret \in secrets

\* A snapshot recorded as the last successful backup of a target is on disk and
\* its transfer ran to the end, with failures, cancels and crashes between
\* transfer, manifest and target.
RecordedBackupReal ==
    \A t \in Targets :
        document[t] # None /\ document[t].backup # None /\ document[t].backup.snapshot # None
            => document[t].backup.snapshot \in snapshots \cap complete

\* What a target in the file names is there, its secret and its last backup,
\* though both are written before the file and by others.
ReferencesHold == SecretRefsResolve /\ RecordedBackupReal

\* As long as no one has saved what he had read before another's save, a target
\* has the settings of the last request, and exists as the last request left it.
QuietUpdatesKept ==
    ~raced => \A t \in Targets :
                  IF document[t] = None THEN latest[t] = None
                  ELSE latest[t] = document[t].settings

UnderWay(t) ==
    \/ \E c \in Callers : mem[c].op = "start" /\ mem[c].target = t
    \/ \E j \in Jobs : job[j] = [type |-> "validation", target |-> t] /\ pc[j] # "done"

\* A target shown as being validated is being validated, without a crash and
\* without writes from stale reads.
RunningIsUnderWay ==
    ~raced /\ crashes = 0 =>
        \A t \in Targets :
            document[t] # None /\ document[t].status = "running" => UnderWay(t)
=============================================================================
