# immich-doctor: models and proofs

immich-doctor inspects and repairs an Immich installation: it keeps a catalog of the files
below the storage roots, compares it with Immich's database, backs assets up, and quarantines
or repairs what is broken. This directory holds TLA+ modules of its stateful core, the TLC
configurations that check them, and theorems about them that TLAPS proves. Source paths below
are relative to `src/immich_doctor/`.

    tlc -config scan_controls.cfg MCCatalogScan     # any run: module and .cfg as listed below
    tlapm Repairs_proofs.tla                        # any module whose name ends in _proofs

## 1. Inventory

One Python process serves the API on a thread pool and runs long operations on the job
runtime; the command line runs the same services synchronously in a process of its own. State
that outlives the process is in one SQLite database (the catalog), JSON files (jobs, reports,
indexes, journals), the storage itself, and Immich's PostgreSQL database.

| Component | State | Operations | Hard because | Correct when |
|---|---|---|---|---|
| Job runtime (`services/backup_job_service.py`) | active entry and attachment per job type, handles, events, job files | start, active check, pause/resume/stop, `_run_job`, shutdown | API threads and workers write one record without a lock; check and start are separate; the entry is made after the submit | final records are truthful, a job keeps its handle and attachment until it ends, one job per type, queued jobs are carried out |
| Catalog scan of one root (`catalog/service.py`, `catalog/store.py`) | session row, work queue, counter; events; controller; worker threads | create/reopen, walk, seed, claim, apply, pause/stop per job and per actor, commit, recover | threads, shared lists, two levels of control, crashes between transactions | units done once, claims exclusive, interruptions at a boundary, commits complete, jobs end |
| Catalog snapshots (`catalog/store.py`) | sessions, snapshots with generations, file records | scan over several sessions, listing | records are rewritten before the snapshot commits; storage changes or cannot be read; directories change their chunks | a committed scan saw what was there or counts what it missed; readers list what it saw |
| Consistency comparison (`catalog/consistency_*.py`) | report file with its basis | start, collect, staleness | reads basis and listing in two transactions while a scan may be resumed | a report shown as current says what the scan saw |
| Catalog workflow (`catalog/workflow_service.py`, root registry in `catalog/service.py`) | `storage_root` rows; one controller per job | start/pause/resume/stop/status of scan and comparison, recovery, root loop, root sync | ties the four above together by checks on the job runtime; roots overlap, move and vanish between restarts | a report shown as current covers the roots there are now; a job's state tells what its roots came to; interrupted sessions are taken up |
| Catalog remediation (`catalog/remediation_service.py`) | quarantine with its index, ignored findings, repair runs | scan, preview, apply, quarantine, restore, delete, ignore | findings come from an index that ages; content is verified long before it is used; the index line follows the move; read-modify-write of files by concurrent requests | only what was previewed and is still so is done; no file is lost; the indexes are true |
| Missing-asset repair and album links (`consistency/`) | database rows, restore points with their index, repair runs | preview, apply, restore, delete point; deletion of orphaned links | database, index and journal are written apart; a commit may get no answer | each removed row has a restore point; present files keep their rows; runs are truthful |
| Repair runs, undo, permission repair (`repair/`, `runtime/metadata_failures/`) | run and journal files, plan tokens, file modes | plan, apply, undo | guards are evaluated after the state moved on | undo restores what the run changed and nothing newer |
| Empty-folder quarantine (`storage/empty_folders/`) | quarantine sessions, one index of all | scan, move, restore, finalise | the index is written after the moves; users fill directories meanwhile | no file is lost; the index is true |
| Backup asset workflow (`services/backup_asset_workflow_service.py`) | library, mirror, quarantine and temporary files | comparison, sync of what is missing, restore with quarantine and rollback | each restore is several copies and moves that can fail, crash or overlap; copies grow under their final name | no version is lost; "completed" means covered; whole mirror copies stay |
| Backup targets and manual backup (`services/backup_target_*.py`, `services/manual_backup_*.py`, `backup/targets/`) | one document of all targets, secrets, snapshot manifests | create, update, delete, validate, back up, cancel | every change loads and saves the whole document; jobs hold a target through a long run | a verification is about the settings shown; what a target names exists; quiet updates survive |
| Database corruption repair (`db/corruption/`) | Immich's database, repair runs | preview, apply | the database changes between preview and apply; each statement commits by itself and may fail | what is carried out was previewed; "completed" means done |
| Size estimation (`backup/estimation/`, `services/backup_size_service.py`) | job records | collect, serve, cancel | values are carried over from record to record and across restarts | what is served as fresh was collected by this process |
| rsync file backup, verification, restore simulation, remote sync, read-only diagnosis, health, settings, UI, testbed | none that other steps depend on, or external | mostly sequential I/O | | |

The workflow calls the job runtime (`active_job`, `start_job`, `request_*`); the scan job
attaches its `ScanRuntimeController` to the runtime so that per-actor controls reach its
workers; job and workers meet in the queue table and in the job's two events; the comparison
job reads the tables the scan writes; a status request is what recovers an interrupted scan.
Every repair goes through the same run and journal files and is guarded by a plan token that is
computed again when it is applied. Manual backups reach the mirror through the asset workflow.

`PROJECT.json` lists each component with its status, and each hazard at its line with the
properties that watch it, or the reason why none does yet.

## 2. The modules

### BackgroundJobs: the job runtime

Threads are API callers and jobs (each job's worker is named by the job). The dictionaries
`_active_jobs` and `_job_attachments` are `active_jobs` and `job_attachments`. A handle method
reads `handle.record`, writes the job file and assigns the record; the code holds no lock over
these, so each is a step (`Copies`, `Persist`, `RequestAssign`/`WorkerAssign`) and all interleavings
of a request with `mark_started`, `update` and `mark_finished` occur. `start_job` is
`StartCheck` (made by every service), `StartPersist`, `StartSubmit`, `StartRegister`;
`_run_job` is `Dispatch` to `FutureDone`. The executor is a pool of `MaxWorkers`. What
runners do is reduced to progress updates, an attachment and an outcome; a runner ends paused
or stopped only if the event is set.

### CatalogScan: one session of one root

`session`, `queue`, `owner` and `directories_completed` are database columns and survive
`Crash`; the other variables are the process. The job thread goes through select, prepare,
seed, scan, then commit, or finalize and mark. Each worker's `pc` follows `_scan_worker_loop`:
read the control state (`ReadControl`), obey it (`ObeyControl`), wait on its actor
(`LeaveStopped`, `Runnable`), claim or leave (`Claim`, `LeaveDrained`), apply in one
transaction (`Apply`), count and check the limit (`CountFiles`). The control state that was
read is acted upon in a later step, as in the code, so a resume can come too late. `died`,
`late` and `spent` are bookkeeping of the model: which threads were lost, how many units each
worker took up against a request, and the bounds used.

### ScanSession: what a session promises

A session completes each unit once, keeps completed work through interruptions and is
committed only when nothing is left. `CatalogScan` instantiates it as `Promise` with
`done <- Done`; the session's status and counter are those of the database.

### CatalogSnapshots: the catalog over several sessions

Sessions, their snapshots and generations, the chunk rows of each queue with their keys
(`_directory_work_items` is `WorkItems`), `last_seen_snapshot_id` of each file record, the
scan and comparison jobs, and the storage itself, on which files come and go at any time.
`Listing` is the query of `list_latest_snapshot_files`; `Current` is
`_consistency_report_is_current`. A chunk is observed and applied in one step: how workers
share the queue is `CatalogScan`'s subject.

Directories lie below others (`Above`), and reading may fail in the three places where the code
takes an `OSError` and goes on. In `Walk` a directory of `unreadable` becomes an empty row with
an error and nothing below it is visited (`catalog/service.py:606`), an entry of `failing` is
passed over, with all below it and without an error (`:594`). In `Observe` the files of `unread`
are errors of their chunk (`:1236`), and with the error of its row they make the session one of
`erred` (`error_count` above 0). Whatever failed, the session is committed. A file that is gone
when it is observed is no error.

`seen`, `stable`, `alone`, `passed` and `unheard` are history: what a session observed, what was
there since it was created, which sessions no other overlapped, what its walks passed over, and
what lay below an error that could not be queued because its key was taken.

### AssetBackup: library and mirror

`file` maps paths to contents: the library, the mirror (`backup_root`), the temporary file of a
restore, and one quarantine path per asset and second. A content is a version and whether it is
whole. `_compare_entries` is `Mismatch`, `RestoreCandidate` and `MissingInBackup`;
`sync_missing` goes from `SyncReview` to `SyncEnds`, one asset at a time (`SyncOpen`,
`SyncClose`, `SyncVerify`, `SyncFails`); `restore_items` from `RestoreReview` to `RestoreEnds`,
and `_restore_one` is every `Restore...` and `Move...` action between, its `except` branch
from `RestoreRaises` to `Rollback`, `MoveBackOpen`, `MoveBackUnlink`, `RollbackRaises`. A copy is
opened, which empties its target, and closed, which completes it; in between it may fail or the
process may crash, and what is half written stays. `shutil.move` is a copy and an unlink, as it
is when the quarantine is mounted elsewhere. A leftover temporary file is an asset to later
comparisons (`Names`). Immich may write or delete library files at any time. `reviewed`, `owed`
and `exposed` are history: what the sync compared, the versions Immich has not itself
discarded, and the assets whose restores overlapped another writer. `CompletedMeansCovered` speaks
of `Assets`: of a temporary name it would be false, since a second restore may write there what the
sync has not seen.

### CatalogWorkflow: jobs over several roots

`rows` are the `storage_root` rows, `session` the sessions of all roots in the order of their
start, `layout` the settings of the process, which may differ after a restart. `Scanned` is
`scan_roots` (a root that contains another is left out), `Sync` is `CatalogRootRegistry.sync`,
and `fresh` holds what `snapshot_current` computes from the two timestamps: the sessions
committed since their root's row changed. `_scan_coverage` is `Basis` and `Complete`;
`_consistency_report_is_current` is `ReportCurrent`. A scan job is a record with the roots it
has to do, taken in the order of `_SCAN_PRIORITY` (`FirstOf`), its flags and its controller
reduced to "all workers were stopped" (`halted`), which no later root undoes. Requests are whole steps here. `moved` and `starved` are history: sessions
that were open when their root moved, and those committed without workers.

### BackupTargets: the document of targets

`document` is the one JSON file; each request and job reads it, works, loads it again and saves
all of it, and each of these is a step. `mem[c]` is the target an actor holds, `Placed` the
merge of `save_target`. Settings that change lose their
verification (`BuiltStatus`). A validation job goes from `running` to what it found (`Tested`), a backup job through transfer, manifest and the target record.
`latest`, `dirty`, `raced` and `complete` are history: what the last request wrote, who holds a
copy another has since replaced, whether such a copy was ever saved, and the transfers that
ran to their end.

### RepairJournal, and the repairs on it

`RepairJournal` has the run file with its plan token, the journal that only grows,
`_final_run_status` and the plan guard, together with callers (`pc`, `mem`) and a crash. A fingerprint is
the value it hashes. The modules below extend it.

* `PermissionRepair`: `mode` of files, diagnosis, plan, guard, mode snapshot, fix and journal
  entry as separate steps, and the undo with its per-entry comparison. `given` and `blurred` are
  history: the mode others gave a file last, and files that changed between a look and an entry.
* `MissingAssets`: rows, album rows and links, the files that are there, the restore points.
  Capture, point file, index (read, then written), deletion, commit and journal entry are steps;
  the answer to the commit may be lost. The album-link repair is here as well. `clashed`,
  `overwrote`, `dropped` and `reapplied` are history; an asset clashes when its rows or file change
  under an apply (`UnderApply`), by Immich or by a restore of another caller.
* `Repairs` composes both on one store, so that an undo or an apply can name the other's run. The
  undoable entries of a run are a set of positions with their entries, taken in journal order.
* `DbCorruption`: the snapshot is the state of indexes, TOAST and duplicate groups; `Plan` is
  `_plan_rows`, `Allowed` its preconditions; each statement, its journal entry and its failure
  are steps. Groups are read in the order the query gives (`ReadBefore`).
* `CatalogRemediation`: `walk` is the catalog scan as remediation sees it, `committed` the index
  with the window of `_within_window`. It holds what the scans could read (`WalkRoots`): a file that
  cannot be read costs the outside change, and no error count is looked at. Findings are
  classified from the index, `Verified`
  looks at the content behind a path fix; an apply scans again, compares the token with what
  it selects now (`Compared`) and acts.
* `FileQuarantine`: place of a finding, index lines, ignored list; move, append, restore and
  delete are separate steps. `muddled`, `stranded`, `oldList` are history: findings whose place
  two items share, because two callers were at them, a file was quarantined over another, or one
  was quarantined while an active line still named the place for an earlier file (`Outdated`).
* `EmptyDirs`: directories are sets of files; a session moves them one by one and writes the index
  last. `slipped`, `cut`, `oldIndex` are history.
* `Remediation` composes these three, the services of the consistency workspace. They share
  threads and no state: a variable `service` picks one at the start.
* `SizeEstimate`: job records in order of `updated_at`, the snapshot that each carries, freshness
  against `started_at` of the runtime and a window, the check of `active_job` apart from the
  registration, partial records written as progress.

### MC modules

Each gives constants and initial states. `MCBackgroundJobs` has a variable `serial`: callers at
once, or one client that waits for each answer, whichever threads serve it (`OneCallAtATime`).
`MCOperations` composes services that share threads and no state, as `Remediation` does, and
`MCCatalog` the job runtime with the catalog of one root. In all of them what is not picked stays in
one state, so that a run covers each without multiplying them. In `MCCatalog` the first job drawn is
`j1` of type `t1` (`InOrder`): jobs and types are interchangeable.

### Proof modules

`CatalogScan_proofs`, `CatalogSnapshots_proofs`, `BackgroundJobs_proofs`, `BackupTargets_proofs`,
`AssetBackup_proofs`, `Repairs_proofs`, `Remediation_proofs` and `Operations_proofs` (for
`DbCorruption`, `SizeEstimate` and `CatalogWorkflow`) hold the theorems of section 5.

## 3. The runs

| Run | Instance | Answer |
|---|---|---|
| `jobs_api_threads` | Two callers at once or one client, a pool of one, two jobs of one type, three calls, one update, fairness. | `FinishedTruthful`: unless a request was in a handle method at the same time as `mark_finished`, file and memory agree on outcome, result and cancel flag. `OneClientOneJob`: for one client the active check suffices, and its controls reach the job. `EveryJobFinishes`: whatever is queued is carried out. |
| `scan_controls` | Two workers, three units, three requests, one actor paused, one stopped, one thread lost, one crash. | `TypeOK`, `CountedOnce`, `ClaimExclusive`, `PausedAtBoundary`, `PauseStopsScheduling`, `CommitDrained`, and `PromiseKeptUnlessLost`: each step is one of `ScanSession` as long as no worker was lost. |
| `scan_cli` | Four units in portions of `max_files` = 2, two crashes. | The refinement `ImplementsPromise`, outright. |
| `scan_ends` | Fair threads, one request, one actor pause, one lost thread, one crash. | `ScanEnds` and `InterruptedScanRecovers`: the only way to keep a job from ending is to hold an actor paused. |
| `catalog_lifecycle` | One session over three files, of which two share a directory and one lies below it, with chunks of one; or two sessions over two of them and a comparison. Two changes of the storage and two interruptions, and one walk or chunk in which something cannot be read (with two sessions in place of a change). Or jobs: two callers, a pool of two, two jobs of one type or of two, three calls. | `MissedFilesCounted`: if a committed scan counts no error, then a file that was there throughout and was missed is one whose entry, or that of a directory above it, was passed over, or lies below a directory that was queued before it became unreadable. `ListingIsScan` (of snapshots no later session has touched), `ReportSound`. `ControlsOutliveJob`: until a job has ended its handle is never dropped, only replaced by another start; its attachment is lost only while a second unfinished job of its type exists. |
| `assets_lifecycle` | One asset, two restore calls, two syncs, one write of Immich, one failing operation, one crash, two seconds. | `NothingLost`: no failure, rollback, crash or cut-short mirror copy costs a version. `CompletedMeansCovered`: a completed sync left in the mirror what it compared. `MirrorOnlyGrows`: a whole mirror copy is never touched again. |
| `targets_lifecycle` | Two targets, two callers, two jobs, two calls, one crash. | `VerifiedSettings`: a verification is about the settings shown with it, whoever overlapped. `ReferencesHold`: the secret and the last backup a target names exist. `QuietUpdatesKept`: a target has the last request's settings as long as nobody saved an old copy. `RunningIsUnderWay`: a target shown as running is, without crash and old copies. |
| `repairs_lifecycle` | Two callers, two runs, two sources on one file, two assets, one album, three calls, one outside change, one crash. | `ModesExplained`: a mode nobody outside gave is in a journal with the mode to go back to. `UndoRestores`. `RemovedRecoverable`: what was removed has a restore point with all its links. `PresentKept`. `RunTruthful`: the final status of a run is what its journal says. |
| `remediation_lifecycle` | Two callers, three calls, one outside change, one crash; for each of the three services. | `FixVerified`, `AsPreviewed`, `SteadyFileKeepsRow` (of files the scan read) of catalog findings; `QuarantineKeeps` and `IndexesTrue` of both quarantines and the ignored list. |
| `operations_lifecycle` | Corruption repair and size estimates: two callers, three calls, one outside change, one crash. Workflow: two roots of one unit, three layouts (moved; one root above the other), three sessions, three requests, one restart. | `AppliedAsPreviewed`, `CompletedMeansDone`; `FreshIsOfThisRuntime`; `ReportOfPresentRoots`: a report shown as current compared each root that is scanned now, scanned whole at its present place. `CompletedScanWhole`: a completed or partial job committed each root it could begin, and a completed one counted no error. `OrphanIsFound`: a session left running is the one recovery looks for. |
| `remediation_late_file` | The instance of `remediation_lifecycle`. | `CleanupOnlyUnlisted` is violated (finding 1). |
| `corruption_last_copy` | Two groups of two copies, one caller, two calls. | `OnlyDuplicatesDeleted` is violated (finding 2). |

Each property of a passing run has a mutant in `PROJECT.json`: a plausible slip in a definition
that translates code, under which the same run finds the property violated.

What a property sets aside is behaviour the code really has, kept in a history variable so that
the rest can be stated: section 4 lists it.

### Bounds

* Two callers and two jobs are the least number with a race of two starts and of an old and
  a new job of a type; two workers and three units the least with contention, work left behind
  at an interruption, and a unit finished before it.
* Three requests allow pause, resume and stop in any order, also twice the same. One lost
  thread leaves the other to finish; one crash between any two steps shows recovery, two (in
  `scan_cli`) a crash during it.
* Two sessions suffice for a newer scan, an older one resumed after it, and a listing between
  them, and one for `MissedFilesCounted`, since an error is counted for its session alone. Files 1 and
  2 share a directory and chunks hold one file, so adding or removing one moves the directory
  between its own key and batch keys; file 3 lies in the directory below, which is lost with the one
  above it. One walk or chunk with read errors, in which any number of things may fail, comes before
  or after an interruption.
* One asset suffices for `AssetBackup`: assets share no file, and an asset's temporary file is a
  second name with a mirror copy of its own. Two seconds separate the quarantine directories of
  two restores or let them share one; two restores and two syncs let each follow an
  interrupted other.
* Three calls are a preview, its apply, and a third that overlaps or follows either: a second
  apply, an undo, a restore, a deletion. Two sources on one file, and an asset beside one whose
  row JSON cannot hold, are the cases in which items of a run differ. `MaxDrift` = 1 puts one
  outside change between any two steps.
* Three paths are an original, a second place for it, and a hidden file; two scans are the preview's and
  the apply's. Three files let a finding's source come back while its first file is in quarantine.
* Two duplicate groups are the least in which one group decides for another.
* `Window` = 1 with `MaxNow` = 2 lets a record be fresh, expired, or from before a restart.
* With two roots a job can end between them. Three sessions are one of each root and one that
  rescans or follows an interruption; three requests are a scan, a comparison and a control, a resume
  or a status request in any order. The layouts cover a root that stays, moves, and comes to contain
  the other.
* `MaxCalls`, `MaxUpdates`, `MaxRequests`, `MaxActorPauses`, `MaxActorStops`, `MaxFaults`,
  `MaxCrashes`, `MaxRestarts`, `MaxSessions`, `MaxScans`, `MaxDrift`, `MaxNow`, `MaxChanges`,
  `MaxBreaks`, `MaxErrors`, `MaxReports`, `MaxTime`, `MaxWrites`, `MaxRestores`, `MaxItems` and `MaxSyncs`
  bound how often the environment acts, never what the code does in answer. Sets of ids (`Runs`,
  `Points`, `Items`, `Marks`, `Jobs`, `Sessions`) bound how many are drawn.

Deadlock checking is off: the system stops when the bounded requests are used up and no job is
left. Runs use symmetry only for sets of interchangeable values, and only where each property is a
safety property that names none of them.

### Fairness

A thread that can run is scheduled: `WF` on the job thread, on each worker, on a call under
way. `_run_incremental_root_scan` and its workers wait only in polling loops that look again,
so weak fairness is what the operating system gives. `RecoverScan` is fair because the UI polls
the status for as long as it is open. Nothing is assumed of the operator: no pause need be
resumed. A runner ends by itself because its updates are bounded, which stands for finite work.

## 4. What the checks found

Two disagreements are runs of their own.

1. `remediation_late_file`. The uploads index leaves out rows of the committed snapshot whose file
   was modified after the comparison window opened (`catalog/consistency_state.py:227`), while the
   asset's row, unchanged and older, is kept. The file is on disk and in the snapshot, and
   its asset is offered for removal from the database. `docs/workflows/repair.md:93`: "scope: DB asset rows
   whose mapped `originalPath` is absent from the cached uploads snapshot".
2. `corruption_last_copy`. `_selection_state` overwrites its verdict with each group that has
   selected rows (`db/corruption/service.py:696`), so the last group decides: all copies of
   another group can be selected, and the apply deletes them. The step calls itself (`:578`)
   "Delete only the operator-selected duplicate asset rows."
The following are known of the code as well, without a run; the models contain them, and the
properties set them aside or are stated for the case without them.

* Two concurrent start requests run two scans: `catalog/workflow_service.py:94` checks
  `active_job`, and `start_job` registers in a later, separately locked step
  (`docs/architecture/adr-persistent-file-index.md:144`: "keep one active catalog writer at a time").
  `OneClientOneJob` is about one client.
* A worker stopped by its actor leaves without a stop reason; when all were, the session is committed
  with pending units (`catalog/service.py:1047`), and so are those of the roots after it, because
  the controller is shared (`docs/ui-contract.md:110`: "must not be shown as completed").
  `CommitDrained`, `CompletedScanWhole` and `ReportOfPresentRoots` set it aside.
* `wait_until_runnable` (`catalog/service.py:138`) looks at the actor's own flags only, so a job with a
  paused actor does not end on a stop request (`README.md:277`). `ScanEnds` sets it aside.
* `apply_directory_files` (`catalog/store.py:548`) moves `last_seen_snapshot_id` at once, so a
  comparison after an interrupted rescan reports files the rescan has seen as missing
  (`adr-persistent-file-index.md:146`). `ListingIsScan` and `ReportSound` set it aside.
* A resumed scan walks the root again, and what it finds is inserted with `ON CONFLICT DO NOTHING`
  (`catalog/store.py:435`). A directory that the first walk has queued and that the second cannot
  read becomes a row with an error whose key is taken: the error is dropped, nothing below the
  directory is visited, and the session is committed as completed with an `error_count` of 0
  (`docs/roadmaps/persistent-file-index-redesign.md:365` wants interrupted scans to "resume
  safely"). `MissedFilesCounted` sets it aside (`unheard`).
* An entry of a directory for which `is_dir` or `is_file` fails is passed over without an error
  (`catalog/service.py:594`), a directory with all that lies below it. `MissedFilesCounted` sets it
  aside (`passed`).
* The consistency state and remediation take a committed snapshot for whole, whatever its error count:
  a row whose file could not be read when the catalog was scanned is offered for removal like one whose
  file is gone. `SteadyFileKeepsRow` speaks of the files the scan read.
* Of two jobs of a type that run at once, the one that ends drops the attachment of the other
  (`services/backup_job_service.py:278`), and the per-actor controls no longer reach a scan that still
  runs. `ControlsOutliveJob` states that it takes a second job; `OneClientOneJob` that one client does
  not make one.
* A session resumed after its root moved goes on at the new place and is committed as current
  (`catalog/service.py:376`). `ReportOfPresentRoots` sets it aside (`moved`).
* `request_stop` (`services/backup_job_service.py:226`) uses the handle after it released the lock and
  can leave "stopping" as the final state (`README.md:275`). `FinishedTruthful` sets it aside.
* Two restores of an asset within a second share the quarantine directory, and the second moves the
  restored copy over the original (`services/backup_asset_workflow_service.py:892`; `README.md:102`,
  `docs/backup/targets.md:145`). `NothingLost` sets assets aside whose restores overlapped another restore or a write
  of Immich.
* A backup or validation job saves the whole target it read at its start, over settings saved
  meanwhile. `QuietUpdatesKept` speaks of the time before (`raced`).
* A restore-point index, a directory index or a list of ignored findings that is written over a newer one
  loses entries (`overwrote`, `oldIndex`, `oldList`); a crash between the moves and the index leaves
  directories unlisted (`cut`), a crash or failed append a file (`stranded`).
* A commit of which the answer is lost counts as failed: the restore point is deleted and the rows
  are gone (`clashed`). A run that is applied again is rewritten as failed (`reapplied`).
* A file put into a directory between the scan that found it empty and the move goes with it (`slipped`).

## 5. What is proved

Each theorem holds for every value of the constants that the module's own assumptions allow: any
number of threads, jobs, runs, files, assets, points and targets, any bounds. No proof module
assumes anything more; what the assumptions say is that `None` is none of the values it stands
beside (`NoneAssumption`, `NoRunAssumption`, `ModesAssumption`, `DistinctAssumption`,
`NoFileAssumption`, `NoDirAssumption`, `NoRemAssumption`, `NoTimeAssumption`,
`NothingAssumption`), that actors of different kinds differ
(`ActorsAssumption`), that a temporary name is not an asset's (`NamesAssumption`), that units,
sources and indexes are finitely many (`SetsAssumption`, `SourcesAssumption`,
`CorruptionAssumption`), that files are numbered in the order of their names (`FilesAssumption`),
that the order of the roots names them all and each place lies below itself
(`WorkflowAssumption`), that the index lists every path in some order (`RemediationConstants`), and
that bounds are numbers. One is about the environment: no asset has the name of a
`.fuse_hidden` file (`HiddenAssumption`), since FUSE gives those no extension and Immich takes no
medium without one. Without it a path could be corrected to a file that another caller deletes as
hidden, and `FixVerified` would not hold. Modules that use a fairness condition do so for
liveness alone; the theorems below need none.

None of the invariants below is inductive as the runs state it. What each proof adds, and why, is
said beside the tables.

### The scan (`CatalogScan_proofs`)

| Theorem | Statement |
|---|---|
| `TypeCorrect` | `Spec => []TypeOK` |
| `CountedOnceAlways` | the counter equals the number of finished units |
| `ClaimExclusiveAlways` | a unit under work belongs to that worker, in a running session |
| `PausedAtBoundaryAlways` | no unit is claimed in a paused or stopped session |
| `PauseStopsSchedulingAlways` | each worker takes up at most one unit after the end was requested |
| `CommitDrainedAlways` | a committed scan did every unit unless workers were lost or all stopped |
| `PromiseKeptUnlessLostAlways` | every step from a state without losses is one of `ScanSession` |
| `PromiseKept` | `Spec /\ []NobodyLost => ImplementsPromise` |

None of these is inductive alone. The inductive invariant `Inv` (theorem `Invariance`) adds what
ties the threads to the rows:

* `Phases`: workers run only while the job thread waits for them; from selection to the final
  mark the session is running; a walk that was not broken off has found the whole root; a
  commit has no stop reason and an interruption has one.
* `Rows`: a worker in the middle of a unit holds that unit's row, which is why `Apply` raises the
  counter for a row that was not done; a row in progress belongs to a worker that works on it or
  died, and none is in progress between selection and scan or once the session is interrupted;
  the workers run on a queue that holds the whole root.
* `LeaverSawDrained`, with `CommitDrained` itself: without reason and losses, a worker that has
  left and was not stopped had seen that nothing was pending. A row in progress still has its
  worker, so when all have left every row is done: this is why `Drained` may ignore rows in
  progress elsewhere.
* `StopIsReal`: "stopped" is read, obeyed and recorded only while the stop event is set, and
  nothing clears it.
* `LateWorkerLeaves`: a worker that took up one unit against a request meets the request at the
  top of its loop before it claims again, which bounds `late`.

Each conjunct has its step lemma (`TypeStep`, `PhaseStep`, `RowStep`, `DrainStep`, `CommitStep`,
`StopStep`, `LateStep`, `CountStep`), split into the actions of `Next`.
The refinement maps each action to `Open`, `Complete`, `Interrupt`, `Commit` or a stutter;
`CommitSession` needs `NobodyLost` before the step: a commit after every worker was lost or stopped
leaves units behind, which `ScanSession` does not allow.

### Snapshots and file records (`CatalogSnapshots_proofs`)

| Theorem | Statement |
|---|---|
| `SnapshotsOrdered` | sessions, snapshots and generations are numbered alike; the latest snapshot is the committed one of the greatest number |
| `MissedFilesAreCounted` | `SnapSpec => []MissedFilesCounted` |
| `ListingsAreScans` | `SnapSpec => []ListingIsScan` |
| `ReportsSound` | `SnapSpec => []ReportSound` |

* `Numbering`: a session takes the next number and the next generation, which are the same, and its
  rows come after it. So the snapshot of the highest generation is the newest committed one.
* `Covering`: each lasting file is observed, in a pending chunk, passed over or unheard, as soon as
  its directory has a row in the session's queue, pending or done (`Reached`) - unless the session
  counts an error, or a pending row will when it is done (`Counted`). Seeding
  again may cut other chunks, and keeps the rows it finds by their keys, so a chunk that was done
  under an old cut may stand for a new one that holds other files. No lasting file is lost by this,
  because the first walk into a directory seeds all its chunks at once, and these hold every file
  that lasts from the beginning of the session. A directory that cannot be read leaves an error row
  of its own key (`ErrorItem`); if that key is taken, what lies below it is `unheard`. The arithmetic is
  in `ChunkCount` and `ChunksCover`: for any chunk size the chunks hold all files of a directory.
* `WalkedAll`: a session that is at work has been walked whole, so `Covering` then speaks of every
  lasting file; at the commit nothing is pending, and `MissedFilesCounted` follows.
* `Listed`: a file record names a session that observed the file, and the session that was alone
  since it began is named by every file it observed.
* `Settled` and `Reported`: a committed session's observations do not change, and what once ceased
  to be the latest snapshot does not become it again, which is why one comparison of ids tells
  whether a report is current.

### The job runtime (`BackgroundJobs_proofs`)

| Theorem | Statement |
|---|---|
| `SpecInv`, `TypeCorrect` | the inductive invariant, and `TypeOK` |
| `OutcomesAreTruthful` | `Spec => []FinishedTruthful` |
| `ControlsOutliveJobs` | `Spec => ControlsOutliveJob` |
| `SerialClients` | `MCSpec => []OneClientOneJob` |

`JobAt` ties a job's future to its place in `_run_job`: a future is done only after `_run_job` has
returned, so an entry that is dropped, by the job or by `active_job`, belongs to a job that is
over. An attachment is replaced by a job that has just begun and dropped by one that has not
returned yet, which is the second unfinished job `ControlsOutliveJob` speaks of. `Settled` follows
an outcome from `mark_finished` on: no request is writing to the job, and the copy about to be
assigned, then the file, then the record, is the outcome. `CallAt` and `OwnSubmit` say that nobody
else submits the id a start has drawn. For serial clients `SerialInv` adds that between the check of
`active_job` and the registration nothing was registered: the window two concurrent starts fall into
needs a second call.

### Backup targets (`BackupTargets_proofs`)

| Theorem | Statement |
|---|---|
| `SpecInv`, `TypeCorrect` | the inductive invariant, and `TypeOK` |
| `CompletedIsProbed` | a validation that ends "completed" has written to the destination |
| `VerdictsAreOfSettings` | `Spec => []VerifiedSettings` |
| `ReferencesResolve` | `Spec => []ReferencesHold` |
| `UpdatesKept` | `Spec => []QuietUpdatesKept` |
| `RunningHasJob` | `Spec => []RunningIsUnderWay` |

The document is saved whole from whatever was read before, so a claim about the targets in the
file is inductive only together with the same claim about every target and document in somebody's
memory (`HoldsSound`). The two theorems about quiet times need `Current`: an actor since whose
read nobody saved holds what the file holds, its own change apart. `Decided` keeps "running" out
of what requests and finished validations save.

### Asset backup (`AssetBackup_proofs`)

| Theorem | Statement |
|---|---|
| `SpecInv` | the inductive invariant |
| `RestoreLosesNothing` | `Spec => []NothingLost` |
| `CompletedIsCovered` | `Spec => []CompletedMeansCovered` |
| `MirrorIsKept` | `Spec => MirrorOnlyGrows` |

`Writers` and `PathsOf` say who may write which file, `MirrorAt` that the sync only writes where
there was nothing. `AtStep` says at each step of a restore where the content it moved away is. For
coverage, `Pristine`: without a mirror copy no restore of the asset has begun, so a version
that has left the library then is nowhere (`Gone`), and `Numbered`, that versions grow with
Immich's writes, keeps it from coming back; `CoveredOr` then says of each asset the sync saw what it
has come to.

### Repairs on one store (`Repairs_proofs`)

| Theorem | Statement |
|---|---|
| `TypeCorrect` | `Spec => []TypeOK`; among it one restore point per id |
| `FinishedRunsTruthful` | `Spec => []RunTruthful` |
| `ModesAreExplained` | `Spec => []ModesExplained` |
| `UndosRestore` | `Spec => UndoRestores` |
| `PresentIsKept` | `Spec => PresentKept` |
| `RemovedIsRecoverable` | `Spec => []RemovedRecoverable` |

`Spec` is that of `Repairs`: permission repair, undo, apply, restore and album-link repair by any
number of callers on the same runs. The invariant is built in layers.

* `Types`: what a caller holds fits the step it stands at (`Fitting`), and runs and entries are of
  the four kinds.
* `Journaled`: a run that is being worked on has one caller at it (`Owners`), and what that caller
  has in mind as done is in the journal (`RunAt`). A final status is computed from the former and
  is therefore true of the latter. It also gives the stability the next layer needs: once a run is
  completed, nobody writes its entries.
* `Modal`: a file nobody interfered with has the mode it was given, or that mode with access
  granted and an entry that knows the former (`ModeOf`); a caller between look, chmod and entry
  knows the mode (`CallerMode`); an undo under way has restored what it has passed (`UndoAt`,
  `Settled`).
* `MissingAt`: what an apply has yet to remove was found missing and still is, unless it clashed.
  The deletion itself does not look.
* `Rows`, while nothing was overwritten or deleted: a caller that is about to write the index holds
  what the index is (`Loaded`); the id a capture drew is nobody else's (`Unclaimed`); what was
  captured is all there is (`Captured`) and is in the index before the deletion (`Pointing`); two
  applies work on two points (`Apart`); a point id means one asset, in the index and in
  what restores hold (`OneTie`); a point has links of its own asset only (`OwnPoints`). From these
  follows that an asset whose rows are gone has a point that no caller is about to change
  (`Witness`), which is `RemovedRecoverable` made inductive.

Each layer has one lemma per action (`...Facts` for what it does to its caller, `Runs...`,
`Modal...`, `Missing...`, `Rows...` for what it preserves).

### Remediation (`Remediation_proofs`)

| Theorem | Statement |
|---|---|
| `KeepsFiles` | `Spec => []QuarantineKeeps` |
| `IndexesTell` | `Spec => []IndexesTrue` |
| `AppliesAsPreviewed` | `Spec => []AsPreviewed` |
| `FixesVerified` | `Spec => []FixVerified` |
| `SteadyRowsStay` | `Spec => SteadyFileKeepsRow` |

`Spec` is that of `Remediation`; in `WorkspaceInv` the service that was picked keeps its invariant
and the other two their initial states.

* `QuarInv`, the quarantine of files. A finding that is not `muddled` has one caller at work on it
  (`Alone`), so what that caller has looked at is still so. `FilesPlaced` adds to `FilesKept` that
  every active line and every transition under way is about the file that is in the place, and
  that a restore about to move a file back has a free source. `Lined` keeps the ids apart, and
  `AllIndexed` says what holds between a move and its line (`Half`), one caller and one active
  line for each finding; with nobody in between this is `FileIndexTrue`. `Listed` is about ignored
  findings: a caller not in `oldList` holds the list as it is.
* `DirInv`, that of directories. `DirSafe`: sessions, and directories found empty and still to be
  moved, hold nothing but files of `slipped`. `DirTold` is `DirIndexTrue` before the index is written:
  what a session holds is what the index says, changed by what its callers have done so far.
* `RemInv`, catalog remediation. `Bound` and `Recorded` tie what an apply has left to do, and what it
  wrote, to the token of its run, which nobody changes: this is `AsPreviewed` made inductive.
  `Targets` says that a file about to be made the original of a row is of the right name and
  content or has been changed since the apply looked, and is not hidden; it gives `FixedWell`.
  `IndexWhole` says that a walked index lists every file of its snapshot that was not changed since
  its window opened, and `CleanupSound` that a row about to be removed is younger than the index, or its
  original and every file of its name are missing from it. The latter survives another caller's
  path fix only because a fix leads to a file of the asset's name. From the two follows
  `SteadyFileKeepsRow`.

The attempt to prove `FilesKept` showed that it needs `Outdated`: when the line that ends an item
could not be appended, the item stays active, and a later quarantine of the same finding shares its
place. The run does not show it, since four requests are needed (quarantine, restore, quarantine,
delete) and it has three.

### Database corruption repair (`Operations_proofs`)

| Theorem | Statement |
|---|---|
| `CorrSpecInv` | the inductive invariant |
| `PreviewIsBinding` | `CorrSpec => []AppliedAsPreviewed` |
| `CompletedIsDone` | `CorrSpec => []CompletedMeansDone` |

A plan is a function of the snapshot in the token and of the request, and neither changes once the
run is saved (`PlansFromTokens`); so the plan an apply makes behind the guard is the one shown
(`PlansHeld`). `Progress` says that what an apply has passed is in the journal as applied, which
no concurrent apply of the same run takes away.

### Size estimate (`Operations_proofs`)

| Theorem | Statement |
|---|---|
| `EstSpecInv` | the inductive invariant, `EstSpec => []EstInv` |
| `FreshIsRecent` | `EstSpec => []FreshIsOfThisRuntime` |

A value is `Dated` when it says which job collected it and when; one of an earlier process is
older than `startedAt`. It is `Sound` when it is called stale in that case. What a file holds
of an earlier process is only dated: the job that was interrupted may have written it as fresh. What a job of
this process writes, and what is served, is sound (`RecordsDated`), because whatever is taken from a
file passes `apply_freshness` or `mark_stale` first; `OfThisProcess` says that whoever is in the
middle of a collection works on a job of this process, so a job's record cannot outlive the
restart without being dated again.

### Catalog workflow (`Operations_proofs`)

| Theorem | Statement |
|---|---|
| `WfSpecInv` | types, numbering and the session in hand, `WfSpec => []WfInv` |
| `OrphansAreFound` | `WfSpec => []OrphanIsFound` |
| `ReportsOfPresentRoots` | `WfSpec => []ReportOfPresentRoots` |
| `CompletedScansWhole` | `WfSpec => []CompletedScanWhole` |

Every step rewrites the row of one open session, or adds the row of the next number
(`Rewrites`); each operation has a lemma that says which row it writes (`...Writes`), and
`RowRewritten` what then stays. `WfInv` says that a session is committed exactly when it is
completed, and that a job inside a root, or one that took up a session, has a running session.
Upon it stand three invariants, each inductive with `WfInv`:

* `RunningIsLast`: no open session is newer than a running one, and none runs while a full job is
  between two roots. A full job starts only after recovery looked at the latest open session and
  found it not running, or retired it; by the invariant no other can run.
* `ScannedInPlace`: an open or fresh session was scanned where its root's row has the root now, unless
  its root moved while it was open. A synchronisation that moves a root takes the root's
  sessions out of `fresh`; afterwards a report whose basis is fresh was scanned where the
  layout has the root.
* `JobAccounts` and `EndAccounts`: the roots a full job was given are those still to do, those
  skipped, and those of the sessions it made. Since a committed session is never rewritten
  (`CommittedStay`), the account of the last job stays true through later jobs, requests and crashes.

### What is only model-checked

Every invariant and every action property of the passing runs is stated by a theorem above. With TLC
stay:

* Liveness: `ScanEnds`, `InterruptedScanRecovers`, `EveryJobFinishes`. The prover has no rules for
  fairness or `ENABLED`.
* The two violations of section 4, which need one counterexample each.


## 6. What is abstracted or left out

* Job runtime: capability snapshots (a dictionary copied under the lock); job files that fail
  to be written (`mark_started` and `mark_finished` stand outside the `try`); torn reads of a
  file that is being rewritten.
* Scan: the walk of the root is one step and its collector is not an actor that can be paused
  by itself; the priority that orders claims is left open; a unit counts as one file for
  `max_files`. An exception on the job thread is a `Crash`. The command line's resume of a
  failed or completed session by its id is not modelled.
* Snapshots: what can be read in a walk or a chunk is chosen at once for the whole of it; reading that
  fails after some entries counts as one that fails before them, since the code throws these away
  as well; an entry that `is_file` takes for none is a file that is gone (which
  errors it raises and which it takes for absence depends on the Python version). One root whose path
  does not change (`CatalogWorkflow` has several); one process (a scan on the command line
  beside the server would be recovered by the server's next status request, and two processes
  can draw the same generation); `presence_status`, which no reader uses; files of size zero; the
  time window of the comparison; item counts of snapshots.
* Asset backup: one target, whose settings do not change during a call; sizes, times and
  hashes are equality of contents, so two files alike in size and time but not in content do
  not occur, nor the `CONFLICT` of a file that cannot be read; Immich replaces files whole, and
  a copy reads one version; dry runs, previews and the representative test copy, which writes
  below a directory of its own.
* Workflow: a request over several roots is one step (its parts are in `BackgroundJobs` and
  `CatalogScan`); units are counted, not named; of the controller only that all workers were
  stopped; a walk at another place than before finds anything from what was left to a whole root;
  scans of the command line beside the server. That its few steps for a root stand for those of
  `CatalogScan` is not checked.
* Targets: how a target is reached is one of a few kinds that the code tells apart; SSH and rsync
  alike; hosts, tools and paths are what a validation happens to find; retention, warnings and the
  migration of old fields.
* Repairs: reads of one table set are one step; permissions are sets of what they grant; links stand for
  all rows that refer to an asset; supported schemas only; expiry of tokens is a choice.
* Remediation: names and contents are model values; the removal of a row with its restore point is
  one step here and several in `MissingAssets`; owners, cached payloads and the grouping of findings.
* Empty directories: only leaves, since a directory of empty directories is reported and cannot be
  selected; no dry runs.
* Corruption repair: review steps run nothing and are left out; rows that refer to a deleted asset;
  the read-only health, index and performance checks.
* Size estimate: of a size only which job collected it; records are written in one step.
* Not modelled: the components with status `not_modelled` in `PROJECT.json`. rsync file backup builds
  one command; verification and restore simulation only read; remote sync is sequential rules over
  rows; integrity and health checks only read; settings, API, command line and UI are thin layers; the
  testbed is a development tool.

## 7. Plan

What is left, the most consequential first. Every module states its constants with named
assumptions, has one action per operation and no recursive operators, so each can be proved
about.

1. Liveness of the remediation and backup jobs, which today have fairness only in the job
   runtime and the scan.
2. `CatalogWorkflow` with the scan of a root as an instance of `ScanSession`, so that its steps are
   shown to be those of `CatalogScan`.
3. Later, if wanted: classification of storage-side findings, nested empty directories, torn
   reads of JSON files, and two processes on one catalog.
