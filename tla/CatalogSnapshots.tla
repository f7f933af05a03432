-------------------------- MODULE CatalogSnapshots --------------------------
(***************************************************************************)
(* The catalog of one storage root over several scan sessions, as later    *)
(* steps read it: scan_session, scan_snapshot and file_record of           *)
(* CatalogStore (catalog/store.py), written by the scan job and read by    *)
(* the consistency job (catalog/consistency_state.py), both started by     *)
(* CatalogWorkflowService (catalog/workflow_service.py), while files come  *)
(* and go on the storage.                                                  *)
(*                                                                         *)
(* A session walks the root, queues the files of each directory in chunks  *)
(* and observes chunk after chunk; each observed file_record is rewritten  *)
(* to name the session's snapshot long before that snapshot is committed.  *)
(* The storage may fail: a directory that cannot be read becomes an empty  *)
(* row with an error, an entry that cannot be looked at is passed over, a  *)
(* file that cannot be observed is an error of its chunk.  Whatever failed *)
(* the session is committed; its error_count is all that tells.            *)
(* Session n has snapshot n; sessions are numbered as they are created, so *)
(* a later started_at is a greater number.  "paused" stands for paused and *)
(* stopped, which are resumed alike.  How workers share the queue is the   *)
(* subject of CatalogScan: here a chunk is observed and applied in one     *)
(* step.  One process and one storage path; requests come one at a time.   *)
(* presence_status, which nothing reads, is left out.                      *)
(***************************************************************************)
EXTENDS Naturals, FiniteSets, FiniteSetsExt

CONSTANTS
    Files,         \* file names, as numbers in their sorting order
    Dirs,          \* directories of the root
    DirOf,         \* file -> its directory
    Above,         \* directory -> the directories on the way to it from the root
    ChunkSize,     \* _DIRECTORY_FILE_CHUNK_SIZE
    MaxSessions,   \* bound: scan sessions
    MaxChanges,    \* bound: files added or removed
    MaxBreaks,     \* bound: pauses, failures and crashes
    MaxErrors,     \* bound: walks and chunks in which something cannot be read
    MaxReports     \* bound: consistency runs

ASSUME FilesAssumption == Files \subseteq Nat /\ IsFiniteSet(Files)
ASSUME DirsAssumption == DirOf \in [Files -> Dirs] /\ Above \in [Dirs -> SUBSET Dirs]
ASSUME SizesAssumption ==
    /\ ChunkSize \in Nat \ {0} /\ MaxSessions \in Nat
    /\ MaxChanges \in Nat /\ MaxBreaks \in Nat /\ MaxErrors \in Nat /\ MaxReports \in Nat

VARIABLES
    storage,      \* the files on disk
    status,       \* session -> scan_session.status
    snapshot,     \* session -> scan_snapshot.status of its snapshot
    generation,   \* session -> generation of its snapshot
    erred,        \* sessions whose error_count is above 0
    pending,      \* session -> queued chunks: [key, files, errors]
    done,         \* session -> keys of the finished rows of its queue
    last_seen,    \* file -> last_seen_snapshot_id, 0 without a file_record
    scan,         \* the scan job: [session, step]
    compare,      \* the consistency job: [step, basis]
    report,       \* the report of the last finished consistency job
    seen,         \* history: session -> files it has observed
    stable,       \* history: session -> files there ever since it was created
    alone,        \* history: sessions since whose creation no other one observed
    passed,       \* history: session -> files an entry on whose way it passed over
    unheard,      \* history: session -> files below an error it could not queue
    spent         \* bounded actions used so far

queueVars == <<pending, done>>
sessionVars == <<status, snapshot, generation>>
history == <<seen, stable, alone, passed, unheard>>
snapVars == <<storage, sessionVars, erred, queueVars, last_seen, scan, compare, report, history,
          spent>>

-----------------------------------------------------------------------------
Sessions == 1 .. MaxSessions
Bounded == {"changes", "breaks", "errors", "reports"}
Budgets ==
    [changes |-> MaxChanges, breaks |-> MaxBreaks, errors |-> MaxErrors, reports |-> MaxReports]
Spend(b) ==
    /\ spent[b] < Budgets[b]
    /\ spent' = [spent EXCEPT ![b] = @ + 1]

NoScan == [session |-> 0, step |-> "idle"]
NoCompare == [step |-> "idle", basis |-> 0]
Greatest(S) == IF S = {} THEN 0 ELSE Max(S)

\* The key of a queue row: the directory itself, or one of its batches.
Keys == Dirs \X (0 .. Cardinality(Files))
Chunks == [key : Keys, files : SUBSET Files, errors : 0 .. 1]

\* _directory_work_items: the sorted files in chunks; a directory that fits one
\* chunk has the directory's own key, here number 0, the others 1, 2, ...
WorkItems(d, files, errors) ==
    LET Before(f) == Cardinality({g \in files : g < f})
        Batch(n) == {f \in files : Before(f) \div ChunkSize = n - 1}
        count == (Cardinality(files) + ChunkSize - 1) \div ChunkSize IN
    IF count <= 1
    THEN {[key |-> <<d, 0>>, files |-> files, errors |-> errors]}
    ELSE {[key |-> <<d, n>>, files |-> Batch(n), errors |-> IF n = 1 THEN errors ELSE 0] :
             n \in 1 .. count}

\* What a directory is queued as: the entries that could be looked at, or none
\* and an error when reading it failed.
ItemsOf(d, unreadable, failing) ==
    IF d \in unreadable THEN WorkItems(d, {}, 1)
    ELSE WorkItems(d, {f \in storage \ failing : DirOf[f] = d}, 0)

\* _next_generation
NextGeneration == Max({0} \cup {generation[s] : s \in Sessions}) + 1

\* find_latest_incomplete_scan_session
Incomplete == {s \in Sessions : status[s] \in {"running", "paused"}}
LatestIncomplete == Greatest(Incomplete)

Committed == {s \in Sessions : snapshot[s] = "committed"}
\* ORDER BY generation DESC LIMIT 1 among the committed snapshots, 0 if none.
Latest ==
    IF Committed = {} THEN 0
    ELSE CHOOSE s \in Committed : \A t \in Committed : generation[t] <= generation[s]

\* list_latest_snapshot_files
Listing == {f \in Files : last_seen[f] # 0 /\ last_seen[f] = Latest}

SnapInit ==
    /\ storage \in SUBSET Files
    /\ status = [s \in Sessions |-> "none"]
    /\ snapshot = [s \in Sessions |-> "none"]
    /\ generation = [s \in Sessions |-> 0]
    /\ erred = {}
    /\ pending = [s \in Sessions |-> {}]
    /\ done = [s \in Sessions |-> {}]
    /\ last_seen = [f \in Files |-> 0]
    /\ scan = NoScan
    /\ compare = NoCompare
    /\ report = [basis |-> 0, files |-> {}]
    /\ seen = [s \in Sessions |-> {}]
    /\ stable = [s \in Sessions |-> {}]
    /\ alone = {}
    /\ passed = [s \in Sessions |-> {}]
    /\ unheard = [s \in Sessions |-> {}]
    /\ spent = [b \in Bounded |-> 0]

-----------------------------------------------------------------------------
(* The storage.                                                             *)

AddFile(f) ==
    /\ f \notin storage
    /\ Spend("changes")
    /\ storage' = storage \cup {f}
    /\ UNCHANGED <<sessionVars, erred, queueVars, last_seen, scan, compare, report, history>>

RemoveFile(f) ==
    /\ f \in storage
    /\ Spend("changes")
    /\ storage' = storage \ {f}
    /\ stable' = [s \in Sessions |-> stable[s] \ {f}]
    /\ UNCHANGED <<sessionVars, erred, queueVars, last_seen, scan, compare, report, seen, alone,
                   passed, unheard>>

-----------------------------------------------------------------------------
(* The scan job.                                                            *)

\* start_scan, not blocked by an active job; a session left running would be
\* recovered instead.  create_scan_session is part of it.
StartScan ==
    /\ scan = NoScan /\ compare = NoCompare
    /\ LatestIncomplete \notin {s \in Sessions : status[s] = "running"}
    /\ \E s \in Sessions :
          /\ s = Greatest({t \in Sessions : status[t] # "none"}) + 1
          /\ status' = [status EXCEPT ![s] = "running"]
          /\ snapshot' = [snapshot EXCEPT ![s] = "running"]
          /\ generation' = [generation EXCEPT ![s] = NextGeneration]
          /\ scan' = [session |-> s, step |-> "walk"]
          /\ stable' = [stable EXCEPT ![s] = storage]
          /\ alone' = alone \cup {s}
    /\ UNCHANGED <<storage, erred, queueVars, last_seen, compare, report, seen, passed, unheard,
                   spent>>

\* resume_scan and _recover_scan_job_if_needed: neither looks for a consistency
\* job.  Which of them takes the session depends on its status.
Reopen ==
    /\ scan = NoScan
    /\ LatestIncomplete # 0
    /\ status' = [status EXCEPT ![LatestIncomplete] = "running"]
    /\ scan' = [session |-> LatestIncomplete, step |-> "walk"]
    /\ UNCHANGED <<storage, snapshot, generation, erred, queueVars, last_seen, compare, report,
                   history, spent>>

\* mark_session_failed: the root is not readable.
FailScan ==
    /\ scan.step = "walk"
    /\ Spend("breaks")
    /\ status' = [status EXCEPT ![scan.session] = "failed"]
    /\ snapshot' = [snapshot EXCEPT ![scan.session] = "failed"]
    /\ scan' = NoScan
    /\ UNCHANGED <<storage, generation, erred, queueVars, last_seen, compare, report, history>>

\* Rows whose key is queued already, finished or not, are left as they are.
Queued(s) == done[s] \cup {p.key : p \in pending[s]}
Seeded(s, items) == {i \in items : i.key \notin Queued(s)}

\* The directories a walk comes to when none of these directories can be read and
\* none of these entries looked at.
Reachable(unreadable, failing) ==
    {d \in Dirs : Above[d] \cap unreadable = {} /\ (Above[d] \cup {d}) \cap failing = {}}

\* A walk that broke off on a request ends in a pause.
AfterWalk(visited, reachable) == IF visited = reachable THEN "work" ELSE "pause"

\* Files the walk does not come to without an error: their own entry or that of
\* a directory on the way failed.
PassedOver(failing) ==
    {f \in Files : f \in failing \/ (Above[DirOf[f]] \cup {DirOf[f]}) \cap failing # {}}

\* Files below a directory that was queued before it became unreadable: the row with
\* the error has a key that is taken, and is not queued.
Unheard(s, unreadable) ==
    {f \in Files : \E d \in Above[DirOf[f]] \cap unreadable : <<d, 0>> \in Queued(s)}

\* _prepare_directory_queue, over the directories visited before a request.
\* unreadable are those os.scandir fails for, failing the entries that can be told
\* neither a directory nor a file.
Walk ==
    LET s == scan.session IN
    /\ scan.step = "walk"
    /\ \E failing \in SUBSET (storage \cup {d \in Dirs : Above[d] # {}}), visited \in SUBSET Dirs :
       \E unreadable \in SUBSET visited :
          LET reachable == Reachable(unreadable, failing)
              whole == visited = reachable
              smooth == unreadable \cup failing = {} IN
          /\ visited \subseteq reachable
          /\ \A d \in visited : Above[d] \subseteq visited
          /\ whole \/ spent["breaks"] < MaxBreaks
          /\ smooth \/ spent["errors"] < MaxErrors
          /\ pending' = [pending EXCEPT ![s] =
                @ \cup Seeded(s, UNION {ItemsOf(d, unreadable, failing) : d \in visited})]
          /\ scan' = [scan EXCEPT !.step = AfterWalk(visited, reachable)]
          /\ passed' = [passed EXCEPT ![s] = @ \cup (stable[s] \cap PassedOver(failing))]
          /\ unheard' = [unheard EXCEPT ![s] = @ \cup (stable[s] \cap Unheard(s, unreadable))]
          /\ spent' = [spent EXCEPT !["breaks"] = IF whole THEN @ ELSE @ + 1,
                                    !["errors"] = IF smooth THEN @ ELSE @ + 1]
    /\ UNCHANGED <<storage, sessionVars, erred, done, last_seen, compare, report, seen, stable,
                   alone>>

MutantLastSeenAfter(s, files) ==
    [f \in Files |-> IF f \in files /\ last_seen[f] = 0 THEN s ELSE last_seen[f]]
\* The rewritten file_record rows.
LastSeenAfter(s, files) ==
    [f \in Files |-> IF f \in files THEN s ELSE last_seen[f]]

MutantErredAfter(s, unread, chunk) == IF unread = {} THEN erred ELSE erred \cup {s}
\* The errors of the chunk's files are added to those of its row.
ErredAfter(s, unread, chunk) ==
    IF unread = {} /\ chunk.errors = 0 THEN erred ELSE erred \cup {s}

\* _observe_file_batch skips files that are gone, and those it cannot look at with
\* an error; apply_directory_files.
Observe ==
    LET s == scan.session IN
    /\ scan.step = "work"
    /\ \E chunk \in pending[s] : \E unread \in SUBSET (chunk.files \cap storage) :
          LET found == (chunk.files \cap storage) \ unread IN
          /\ unread = {} \/ spent["errors"] < MaxErrors
          /\ last_seen' = LastSeenAfter(s, found)
          /\ pending' = [pending EXCEPT ![s] = @ \ {chunk}]
          /\ done' = [done EXCEPT ![s] = @ \cup {chunk.key}]
          /\ erred' = ErredAfter(s, unread, chunk)
          /\ seen' = [seen EXCEPT ![s] = @ \cup found]
          /\ alone' = IF found = {} THEN alone ELSE alone \cap {s}
          /\ spent' = [spent EXCEPT !["errors"] = IF unread = {} THEN @ ELSE @ + 1]
    /\ UNCHANGED <<storage, sessionVars, scan, compare, report, stable, passed, unheard>>

\* A pause or stop request is read between two chunks.
RequestPause ==
    /\ scan.step = "work"
    /\ Spend("breaks")
    /\ scan' = [scan EXCEPT !.step = "pause"]
    /\ UNCHANGED <<storage, sessionVars, erred, queueVars, last_seen, compare, report, history>>

\* mark_session_paused or mark_session_stopped; the snapshot row stays running.
PauseScan ==
    /\ scan.step = "pause"
    /\ status' = [status EXCEPT ![scan.session] = "paused"]
    /\ scan' = NoScan
    /\ UNCHANGED <<storage, snapshot, generation, erred, queueVars, last_seen, compare, report,
                   history, spent>>

\* commit_scan_session, whatever the error_count.
CommitScan ==
    /\ scan.step = "work"
    /\ pending[scan.session] = {}
    /\ status' = [status EXCEPT ![scan.session] = "completed"]
    /\ snapshot' = [snapshot EXCEPT ![scan.session] = "committed"]
    /\ scan' = NoScan
    /\ UNCHANGED <<storage, generation, erred, queueVars, last_seen, compare, report, history,
                   spent>>

-----------------------------------------------------------------------------
(* The consistency job.                                                     *)

\* start_consistency: no scan is active and a committed snapshot exists.
StartCompare ==
    /\ scan = NoScan /\ compare = NoCompare
    /\ Latest # 0
    /\ Spend("reports")
    /\ compare' = [step |-> "basis", basis |-> 0]
    /\ UNCHANGED <<storage, sessionVars, erred, queueVars, last_seen, scan, report, history>>

\* prepare_snapshot_state, as collect calls it.
CompareBasis ==
    /\ compare.step = "basis"
    /\ compare' = [step |-> "list", basis |-> Latest]
    /\ UNCHANGED <<storage, sessionVars, erred, queueVars, last_seen, scan, report, history,
                   spent>>

\* The files are listed in a later transaction; the report is persisted.
CompareList ==
    /\ compare.step = "list"
    /\ report' = [basis |-> compare.basis, files |-> Listing]
    /\ compare' = NoCompare
    /\ UNCHANGED <<storage, sessionVars, erred, queueVars, last_seen, scan, history, spent>>

\* The process dies: the jobs are gone, the database and the report stay.
Crash ==
    /\ scan # NoScan \/ compare # NoCompare
    /\ Spend("breaks")
    /\ scan' = NoScan
    /\ compare' = NoCompare
    /\ UNCHANGED <<storage, sessionVars, erred, queueVars, last_seen, report, history>>

-----------------------------------------------------------------------------
SnapNext ==
    \/ \E f \in Files : AddFile(f) \/ RemoveFile(f)
    \/ StartScan \/ Reopen \/ FailScan \/ Walk \/ Observe
    \/ RequestPause \/ PauseScan \/ CommitScan
    \/ StartCompare \/ CompareBasis \/ CompareList
    \/ Crash

SnapSpec == SnapInit /\ [][SnapNext]_snapVars

-----------------------------------------------------------------------------
(* Properties.                                                              *)

\* Every variable keeps its type; exactly the created sessions have a generation.
SnapTypes ==
    /\ storage \subseteq Files
    /\ status \in [Sessions -> {"none", "running", "paused", "failed", "completed"}]
    /\ snapshot \in [Sessions -> {"none", "running", "failed", "committed"}]
    /\ generation \in [Sessions -> 0 .. MaxSessions]
    /\ \A s \in Sessions : generation[s] = 0 <=> status[s] = "none"
    /\ erred \subseteq Sessions
    /\ pending \in [Sessions -> SUBSET Chunks]
    /\ done \in [Sessions -> SUBSET Keys]
    /\ last_seen \in [Files -> 0 .. MaxSessions]
    /\ scan \in [session : 0 .. MaxSessions, step : {"idle", "walk", "work", "pause"}]
    /\ compare \in [step : {"idle", "basis", "list"}, basis : 0 .. MaxSessions]
    /\ report \in [basis : 0 .. MaxSessions, files : SUBSET Files]
    /\ seen \in [Sessions -> SUBSET Files]
    /\ stable \in [Sessions -> SUBSET Files]
    /\ alone \subseteq Sessions
    /\ passed \in [Sessions -> SUBSET Files]
    /\ unheard \in [Sessions -> SUBSET Files]
    /\ spent \in [Bounded -> Nat]

\* Files a committed scan missed although they were there from its creation to its
\* commit: what pauses, broken-off walks, crashes and failures of the storage cost.
Missed(s) == IF status[s] = "completed" THEN stable[s] \ seen[s] ELSE {}

\* A scan that is committed without an error has missed a lasting file only where the
\* code counts no error: at an entry that failed, or below a directory that was queued
\* before it became unreadable (seeding keeps the rows it finds).
MissedFilesCounted ==
    \A s \in Sessions : s \notin erred => Missed(s) \subseteq passed[s] \cup unheard[s]

\* Readers list exactly what the latest committed scan observed, as long as no
\* other scan has observed files since that scan was created.
ListingIsScan == Latest \in alone => Listing = seen[Latest]

MutantCurrent == report.basis # 0
\* _consistency_report_is_current
Current == report.basis # 0 /\ report.basis = Latest

\* A report that is shown as current names no file the latest committed scan did
\* not observe, and all of them while no other scan has observed any: scans that
\* are resumed or recovered during the comparison make the report stale.
ReportSound ==
    Current =>
        /\ report.files \subseteq seen[Latest]
        /\ Latest \in alone => report.files = seen[Latest]
=============================================================================
