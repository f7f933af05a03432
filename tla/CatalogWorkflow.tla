--------------------------- MODULE CatalogWorkflow ---------------------------
(***************************************************************************)
(* CatalogWorkflowService over several storage roots: one job scans every  *)
(* root in turn, a request or a restart takes up one session, and a        *)
(* comparison runs when every root has a current snapshot.                 *)
(*                                                                         *)
(* A request is one step: BackgroundJobs takes the job runtime apart and   *)
(* CatalogScan the scan of a root, of which only the unfinished units and  *)
(* the places they were scanned at are kept here.  Which place a root has  *)
(* is fixed while the process runs and may differ after a restart.         *)
(***************************************************************************)
EXTENDS Naturals, SequencesExt

CONSTANTS
    Nothing,      \* no place, no session, no job
    RootOrder,    \* slugs of the roots, by _SCAN_PRIORITY
    Places,       \* absolute paths
    Below,        \* <<p, q>>: q is p or below it
    Layouts,      \* what the settings may configure: root -> its place, Nothing
    Units,        \* directories of a root
    MaxSessions,  \* bound: scan sessions
    MaxRequests,  \* bound: requests
    MaxRestarts   \* bound: crashes of the process

Roots == ToSet(RootOrder)
Sessions == 1 .. MaxSessions

\* scan_session with its snapshot: what is left to scan, and the places it was scanned at.
SessionRows == [root : Roots, status : {"running", "paused", "stopped", "failed", "completed"},
                left : 0 .. Units, through : SUBSET (Places \cup {Nothing}),
                errors : BOOLEAN, committed : BOOLEAN]

ASSUME WorkflowAssumption ==
    /\ RootOrder \in Seq(Roots)
    /\ Below \subseteq Places \X Places /\ \A p \in Places : <<p, p>> \in Below
    /\ Layouts \subseteq [Roots -> Places \cup {Nothing}] /\ Nothing \notin Places
    /\ Units \in Nat \ {0}
    /\ MaxSessions \in Nat /\ MaxRequests \in Nat /\ MaxRestarts \in Nat
\* Nothing is told apart from numbers and rows.
ASSUME NothingAssumption == Nothing \notin Nat /\ Nothing \notin SessionRows

VARIABLES
    layout,       \* the settings of the process
    rows,         \* storage_root: root -> absolute_path, Nothing without a row
    session,      \* scan_session with its snapshot, in the order of started_at
    fresh,        \* sessions committed since their root's row changed last
    scan,         \* the scan job of the process, Nothing
    comparison,   \* the comparison job of the process, Nothing
    latestScan,   \* the last scan job that ended, Nothing
    latestReport, \* the basis of the last comparison, {} if it has none, Nothing
    moved,        \* history: sessions that were open when their root moved
    starved,      \* history: sessions committed after all workers were stopped
    requests,     \* requests made (bound)
    restarts      \* crashes so far (bound)

control == <<scan, comparison>>
records == <<latestScan, latestReport>>
catalog == <<rows, session, fresh, moved, starved>>
wfVars == <<layout, catalog, control, records, requests, restarts>>

WfInit ==
    /\ layout \in Layouts
    /\ rows = [r \in Roots |-> Nothing]
    /\ session = [s \in Sessions |-> Nothing]
    /\ fresh = {} /\ moved = {} /\ starved = {}
    /\ scan = Nothing /\ comparison = Nothing
    /\ latestScan = Nothing /\ latestReport = Nothing
    /\ requests = 0 /\ restarts = 0

-----------------------------------------------------------------------------
(* Roots and coverage.                                                      *)

Configured == {r \in Roots : layout[r] # Nothing}

\* scan_roots: a root that contains another one is not scanned by itself.
Scanned == {r \in Configured : \A q \in Configured \ {r} : <<layout[r], layout[q]>> \notin Below}
\* The one of some roots that the order has first.
FirstOf(roots) == RootOrder[Min({i \in DOMAIN RootOrder : RootOrder[i] \in roots})]

Used == {s \in Sessions : session[s] # Nothing}
Open == {s \in Used : session[s].status \in {"running", "paused", "stopped"}}
OpenedFor(r) == {s \in Used : session[s].root = r}

\* sync: the rows of roots that are no longer configured stay as they are.
SyncedRows == [r \in Roots |-> IF r \in Configured THEN layout[r] ELSE rows[r]]
MutantTouched == {r \in Configured : rows[r] = Nothing}
Touched == {r \in Configured : rows[r] # layout[r]}

\* upsert_storage_root moves updated_at of a row that changes, after which no
\* earlier commit is current.
Fresh == {s \in fresh : session[s].root \notin Touched}

Sync ==
    /\ rows' = SyncedRows
    /\ fresh' = Fresh
    /\ moved' = moved \cup {s \in Open : session[s].root \in Touched}

Overlap(places) ==
    \E r, q \in Roots : /\ r # q /\ Nothing \notin {places[r], places[q]}
                        /\ <<places[r], places[q]>> \in Below

\* list_latest_snapshots: the committed snapshot of the highest generation.
LatestCommitted(r) ==
    LET done == {s \in OpenedFor(r) : session[s].committed} IN
    IF done = {} THEN Nothing ELSE Max(done)

\* _scan_coverage once the roots are synced: current, stale and missing roots.
Basis == {s \in Fresh : session[s].root \in Scanned /\ s = LatestCommitted(session[s].root)}
Complete == Scanned # {} /\ Scanned = {session[s].root : s \in Basis}

\* _consistency_report_is_current
ReportCurrent == Complete /\ latestReport # Nothing /\ latestReport = Basis

-----------------------------------------------------------------------------
(* Jobs.                                                                    *)

\* _run_scan_job, or _run_resumed_scan_job of one session.
ScanJob(full, todo, s) ==
    [at |-> "queued", full |-> full, todo |-> todo, session |-> s,
     worst |-> "completed", pause |-> FALSE, stop |-> FALSE, halted |-> FALSE,
     made |-> {}, skipped |-> {}, given |-> todo]

FullScan == ScanJob(TRUE, Scanned, Nothing)
Resumed(s) == ScanJob(FALSE, {session[s].root}, s)

MutantLatestOpen == IF Open = {} THEN Nothing ELSE Min(Open)
\* find_latest_incomplete_scan_session
LatestOpen == IF Open = {} THEN Nothing ELSE Max(Open)

WithStatus(s, status) == [session EXCEPT ![s].status = status]

\* mark_session_failed: the snapshot fails with its session.
Failed(s) == [session EXCEPT ![s].status = "failed", ![s].committed = FALSE]

Recoverable == LatestOpen # Nothing /\ session[LatestOpen].status = "running"
Obsolete == session[LatestOpen].root \notin Scanned

\* _recover_scan_job_if_needed: a session left running is taken up, or retired
\* when its root is no longer scanned.
Recover ==
    /\ Recoverable /\ ~Obsolete
    /\ scan' = Resumed(LatestOpen)
    /\ UNCHANGED session

Retire == Recoverable /\ Obsolete /\ session' = Failed(LatestOpen)

-----------------------------------------------------------------------------
(* Requests.                                                                *)

Asked == requests < MaxRequests /\ requests' = requests + 1
RestOfCall == UNCHANGED <<layout, restarts, starved>>

GetScanJob ==
    /\ Asked /\ scan = Nothing
    /\ Recover \/ (Retire /\ UNCHANGED scan)
    /\ UNCHANGED <<rows, fresh, moved, comparison, records>> /\ RestOfCall

\* The last scan will do when it is not forced and every root is covered;
\* _has_complete_scan_coverage syncs the roots.
StartScan(force) ==
    /\ Asked /\ scan = Nothing /\ comparison = Nothing
    /\ \/ Recover /\ UNCHANGED <<rows, fresh, moved>>
       \/ /\ Retire \/ (~Recoverable /\ UNCHANGED session)
          /\ IF latestScan = Nothing \/ force
             THEN scan' = FullScan /\ UNCHANGED <<rows, fresh, moved>>
             ELSE scan' = (IF Complete THEN Nothing ELSE FullScan) /\ Sync
    /\ UNCHANGED <<comparison, records>> /\ RestOfCall

\* pause_scan, stop_scan and resume_scan of the running job; the actors of the
\* workers stopped one by one until none is left, which no later root undoes.
Steer ==
    /\ Asked /\ scan # Nothing
    /\ \/ ~scan.pause /\ scan' = [scan EXCEPT !.pause = TRUE]
       \/ ~scan.stop /\ scan' = [scan EXCEPT !.stop = TRUE]
       \/ scan.pause /\ scan' = [scan EXCEPT !.pause = FALSE]
       \/ scan.at # "queued" /\ ~scan.halted /\ scan' = [scan EXCEPT !.halted = TRUE]
    /\ UNCHANGED <<rows, session, fresh, moved, comparison, records>> /\ RestOfCall

\* resume_scan without a job: the session of one root is taken up, and no other.
ResumeScan ==
    /\ Asked /\ scan = Nothing
    /\ LatestOpen # Nothing /\ session[LatestOpen].status \in {"paused", "stopped"}
    /\ session' = WithStatus(LatestOpen, "running")
    /\ scan' = Resumed(LatestOpen)
    /\ UNCHANGED <<rows, fresh, moved, comparison, records>> /\ RestOfCall

\* Without complete coverage start_consistency starts a forced scan instead.
StartConsistency(force) ==
    /\ Asked /\ scan = Nothing /\ comparison = Nothing
    /\ Sync
    /\ IF Complete
       THEN /\ comparison' = IF force \/ ~ReportCurrent THEN [at |-> "prepare"] ELSE Nothing
            /\ UNCHANGED <<session, scan>>
       ELSE /\ \/ Recover
               \/ (Retire \/ (~Recoverable /\ UNCHANGED session)) /\ scan' = FullScan
            /\ UNCHANGED comparison
    /\ UNCHANGED records /\ RestOfCall

\* get_consistency_job syncs the roots to tell whether the report is current.
GetConsistencyJob ==
    /\ Asked /\ scan = Nothing /\ comparison = Nothing /\ Touched # {}
    /\ Sync
    /\ UNCHANGED <<session, control, records>> /\ RestOfCall

-----------------------------------------------------------------------------
(* The scan job.                                                            *)

RestOfScan == UNCHANGED <<layout, comparison, latestReport, requests, restarts>>
EndsScan(state) ==
    /\ scan' = Nothing
    /\ latestScan' = [state |-> state, full |-> scan.full, given |-> scan.given,
                      made |-> scan.made, skipped |-> scan.skipped, halted |-> scan.halted]

MutantWorst(worst, status) == IF status = "fail" THEN "partial" ELSE worst
\* worst_state after the report of a root
Worst(worst, status) == IF status = "pass" THEN worst ELSE "partial"

\* _scan_report_state
ReportState(status) ==
    CASE status = "pass" -> "completed" [] status = "warn" -> "partial" [] OTHER -> "failed"

\* The report of a root is in: the loop goes on, a resumed job ends.
AfterReport(status) ==
    IF scan.full
    THEN /\ scan' = [scan EXCEPT !.at = "next", !.worst = Worst(@, status), !.todo = @ \ {FirstOf(@)},
                                 !.made = IF status = "fail" THEN @ ELSE @ \cup {scan.session},
                                 !.skipped = IF status = "fail" THEN @ \cup {FirstOf(scan.todo)}
                                             ELSE @]
         /\ UNCHANGED latestScan
    ELSE EndsScan(ReportState(status))

At(step) == scan # Nothing /\ scan.at = step
ThisSession == session[scan.session]

\* The runner begins, and attaches its controller unless there is nothing to scan.
BeginScan ==
    /\ At("queued")
    /\ IF scan.given = {} THEN EndsScan("failed")
       ELSE /\ scan' = [scan EXCEPT !.at = IF scan.full THEN "next" ELSE "select"]
            /\ UNCHANGED latestScan
    /\ UNCHANGED catalog /\ RestOfScan

\* The loop over the roots looks at stop requests only.
NextRoot ==
    /\ At("next")
    /\ IF scan.todo = {} THEN EndsScan(scan.worst)
       ELSE IF scan.stop THEN EndsScan("stopped")
       ELSE scan' = [scan EXCEPT !.at = "select"] /\ UNCHANGED latestScan
    /\ UNCHANGED catalog /\ RestOfScan

\* The catalog path cannot be written to: a report without a session.
CatalogPathFails ==
    /\ At("select")
    /\ AfterReport("fail")
    /\ UNCHANGED catalog /\ RestOfScan

NewSession(r) == [root |-> r, status |-> "running", left |-> Units, through |-> {},
                  errors |-> FALSE, committed |-> FALSE]

\* run syncs the roots and creates a session, or reopens the one it was given;
\* a root that cannot be read fails the session, and building its report raises.
SelectSession ==
    /\ At("select")
    /\ Sync
    /\ \E s \in Sessions :
          /\ IF scan.full THEN s = Cardinality(Used) + 1 ELSE s = scan.session
          /\ LET opened == IF scan.full
                           THEN [session EXCEPT ![s] = NewSession(FirstOf(scan.todo))]
                           ELSE WithStatus(s, "running") IN
             \/ /\ session' = opened
                /\ scan' = [scan EXCEPT !.at = "walk", !.session = s]
                /\ UNCHANGED latestScan
             \/ /\ session' = [opened EXCEPT ![s].status = "failed", ![s].committed = FALSE]
                /\ EndsScan("failed")
    /\ UNCHANGED starved /\ RestOfScan

\* The walk seeds what it finds; at another place than before that may be anything.
Walk ==
    /\ At("walk") /\ ~scan.pause /\ ~scan.stop
    /\ \E left \in IF ThisSession.through \subseteq {rows[ThisSession.root]} THEN {ThisSession.left}
                   ELSE ThisSession.left .. Units :
          session' = [session EXCEPT ![scan.session].left = left]
    /\ scan' = [scan EXCEPT !.at = "work"]
    /\ UNCHANGED <<rows, fresh, moved, starved, latestScan>> /\ RestOfScan

\* A worker scans a directory; some of its files may be unreadable.
Work ==
    /\ At("work") /\ ThisSession.left > 0 /\ ~scan.halted
    /\ \E failing \in BOOLEAN :
          session' = [session EXCEPT
              ![scan.session].left = @ - 1,
              ![scan.session].through = @ \cup {rows[ThisSession.root]},
              ![scan.session].errors = @ \/ failing]
    /\ UNCHANGED <<rows, fresh, moved, starved, scan, latestScan>> /\ RestOfScan

\* The walk or the workers meet a request: the job ends with this root.
InterruptScan ==
    /\ At("walk") \/ At("work")
    /\ \E status \in (IF scan.stop THEN {"stopped"} ELSE {}) \cup (IF scan.pause THEN {"paused"} ELSE {}) :
          /\ session' = WithStatus(scan.session, status)
          /\ EndsScan(status)
    /\ UNCHANGED <<rows, fresh, moved, starved>> /\ RestOfScan

\* An exception ends the job and leaves the session as it is.
ScanRaises ==
    /\ At("walk") \/ At("work")
    /\ EndsScan("failed")
    /\ UNCHANGED catalog /\ RestOfScan

\* No worker is left, because nothing is pending or because all were stopped.
CommitRoot ==
    /\ At("work") /\ (ThisSession.left = 0 \/ scan.halted)
    /\ session' = [session EXCEPT ![scan.session].status = "completed",
                                  ![scan.session].committed = TRUE]
    /\ fresh' = fresh \cup {scan.session}
    /\ starved' = IF scan.halted THEN starved \cup {scan.session} ELSE starved
    /\ AfterReport(IF ThisSession.errors \/ Overlap(rows) THEN "warn" ELSE "pass")
    /\ UNCHANGED <<rows, moved>> /\ RestOfScan

-----------------------------------------------------------------------------
(* The comparison job, a crash, and the whole.                              *)

\* prepare_snapshot_state is called twice; between and after them the database
\* may be out of reach.  A report without a basis, or none, ends the job too.
RunComparison ==
    /\ comparison # Nothing
    /\ Sync
    /\ IF Complete /\ comparison.at = "prepare"
       THEN comparison' = [at |-> "collect"] /\ UNCHANGED latestReport
       ELSE /\ comparison' = Nothing
            /\ latestReport' \in {{}} \cup (IF Complete THEN {Basis} ELSE {})
    /\ UNCHANGED <<layout, session, starved, scan, latestScan, requests, restarts>>

\* The process dies; the next one may be configured otherwise.
WfCrash ==
    /\ restarts < MaxRestarts /\ restarts' = restarts + 1
    /\ scan' = Nothing /\ comparison' = Nothing
    /\ layout' \in Layouts
    /\ UNCHANGED <<catalog, records, requests>>

WfNext ==
    \/ GetScanJob \/ Steer \/ ResumeScan \/ GetConsistencyJob
    \/ \E force \in BOOLEAN : StartScan(force) \/ StartConsistency(force)
    \/ BeginScan \/ NextRoot \/ CatalogPathFails \/ SelectSession \/ Walk \/ Work
    \/ InterruptScan \/ ScanRaises \/ CommitRoot
    \/ RunComparison
    \/ WfCrash

WfSpec == WfInit /\ [][WfNext]_wfVars

-----------------------------------------------------------------------------
(* Properties.                                                              *)

\* A report shown as current compared every root that is scanned now, each from
\* a snapshot whose units were all scanned at the place the root has now,
\* whatever was paused, restarted and configured otherwise meanwhile.  Set aside:
\* sessions that were open while their root moved, and workers stopped one by one.
ReportOfPresentRoots ==
    ReportCurrent =>
        /\ {session[s].root : s \in latestReport} = Scanned
        /\ \A s \in latestReport \ moved :
              /\ session[s].through \subseteq {layout[session[s].root]}
              /\ session[s].left = 0 \/ s \in starved

\* A scan job that ended completed or partial has committed each of its roots, but
\* those it could not begin, and completed means none and no counted error.  What a
\* scan misses without counting it is CatalogSnapshots' subject.
CompletedScanWhole ==
    latestScan # Nothing /\ latestScan.full /\ latestScan.state \in {"completed", "partial"} =>
        /\ latestScan.given = latestScan.skipped \cup {session[s].root : s \in latestScan.made}
        /\ \A s \in latestScan.made :
              /\ session[s].committed /\ (session[s].left = 0 \/ latestScan.halted)
              /\ latestScan.state = "completed" => ~session[s].errors
        /\ latestScan.state = "completed" => latestScan.skipped = {}

\* A session left running by a crash or an exception is the one recovery looks
\* for: no open session is newer.
OrphanIsFound ==
    \A s \in Used : session[s].status = "running" /\ (scan = Nothing \/ scan.session # s) =>
        s = LatestOpen
=============================================================================
