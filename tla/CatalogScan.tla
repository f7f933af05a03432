----------------------------- MODULE CatalogScan -----------------------------
(***************************************************************************)
(* One catalog scan session of one storage root, from creation to commit:  *)
(* CatalogInventoryScanService (catalog/service.py) with the session and   *)
(* work-queue tables of CatalogStore (catalog/store.py), under the         *)
(* pause/resume/stop controls and the recovery of CatalogWorkflowService   *)
(* (catalog/workflow_service.py).                                          *)
(*                                                                         *)
(* The job thread prepares the work queue, starts the worker threads and   *)
(* joins them.  A worker reads the job's control events, waits while its   *)
(* actor is paused, claims a pending unit in one transaction, observes its *)
(* files, applies them in another transaction and counts them.  The        *)
(* scan_session row, the queue and its counter are the database: they      *)
(* survive a crash of the process; the rest does not.                      *)
(*                                                                         *)
(* A unit is one row of scan_directory_queue (a directory, or a chunk of   *)
(* 256 of its files) and stands for one file when max_files is counted.    *)
(* Which pending unit is claimed (queue_priority) is left open.  The API   *)
(* never sets max_files; the command line sets it and has no controls.     *)
(***************************************************************************)
EXTENDS Naturals, FiniteSets

CONSTANTS
    Workers,          \* catalog_scan_workers
    Items,            \* the work units of the root
    None,
    MaxFiles,         \* max_files of the call, None when unlimited
    MaxRequests,      \* bound: pause, resume and stop requests for the job
    MaxActorPauses,   \* bound: pauses of single actors
    MaxActorStops,    \* bound: stops of single actors
    MaxFaults,        \* bound: worker threads ended by an exception
    MaxCrashes        \* bound: crashes of the process

ASSUME SetsAssumption ==
    IsFiniteSet(Items) /\ None \notin Items \cup Workers \cup {"paused", "stopped"}
ASSUME MaxFilesAssumption == MaxFiles \in Nat \cup {None}
ASSUME BoundsAssumption ==
    /\ MaxRequests \in Nat /\ MaxActorPauses \in Nat /\ MaxActorStops \in Nat
    /\ MaxFaults \in Nat /\ MaxCrashes \in Nat

VARIABLES
    session,                \* scan_session.status, "none" before the row exists
    queue,                  \* scan_directory_queue: unit -> status
    owner,                  \* scan_directory_queue: unit -> worker_id
    directories_completed,  \* the counter of the session row
    job,                    \* where the job thread stands, "none" without a job
    stop_event,             \* ManagedJobHandle.stop_event
    pause_event,            \* ManagedJobHandle.pause_event
    collected,              \* units found by the walk of the root
    control_state,          \* the last control state the walk has read
    stop_reason,            \* stop_reason["value"], shared by the workers
    files_seen,             \* files_seen[0], shared by the workers
    pc,                     \* worker -> where its loop stands
    item,                   \* worker -> the unit it has claimed
    paused,                 \* ScanRuntimeController._paused
    stopped,                \* ScanRuntimeController._stopped
    died,                   \* history: workers of this job ended by an exception
    late,                   \* history: units a worker claimed against a request
    spent                   \* bounded actions used so far

dbVars      == <<session, queue, owner, directories_completed>>
controlVars == <<stop_event, pause_event, paused, stopped>>
jobVars     == <<job, collected, control_state>>
workerVars  == <<stop_reason, files_seen, pc, item, died>>
vars == <<dbVars, controlVars, jobVars, workerVars, late, spent>>

-----------------------------------------------------------------------------
Statuses == {"none", "running", "paused", "stopped", "failed", "completed"}
QueueStatuses == {"absent", "pending", "processing", "done"}
Bounded == {"requests", "actor_pauses", "actor_stops", "faults", "crashes"}
Budgets == [requests |-> MaxRequests, actor_pauses |-> MaxActorPauses,
            actor_stops |-> MaxActorStops, faults |-> MaxFaults,
            crashes |-> MaxCrashes]

Done == {i \in Items : queue[i] = "done"}
AllOff == \A w \in Workers : pc[w] = "off"

Init ==
    /\ session = "none"
    /\ queue = [i \in Items |-> "absent"]
    /\ owner = [i \in Items |-> None]
    /\ directories_completed = 0
    /\ job = "none"
    /\ stop_event = FALSE
    /\ pause_event = FALSE
    /\ collected = {}
    /\ control_state = "running"
    /\ stop_reason = None
    /\ files_seen = 0
    /\ pc = [w \in Workers |-> "off"]
    /\ item = [w \in Workers |-> None]
    /\ paused = {}
    /\ stopped = {}
    /\ died = {}
    /\ late = [w \in Workers |-> 0]
    /\ spent = [b \in Bounded |-> 0]

Spend(b) ==
    /\ spent[b] < Budgets[b]
    /\ spent' = [spent EXCEPT ![b] = @ + 1]

\* UPDATE scan_directory_queue SET status = 'pending', worker_id = NULL for
\* the rows in progress among `rows`.
Requeue(rows) ==
    LET back == {i \in rows : queue[i] = "processing"} IN
    /\ queue' = [i \in Items |-> IF i \in back THEN "pending" ELSE queue[i]]
    /\ owner' = [i \in Items |-> IF i \in back THEN None ELSE owner[i]]

-----------------------------------------------------------------------------
(* Starting: every job has fresh events and a fresh controller.             *)

FreshJob ==
    /\ job' = "select"
    /\ stop_event' = FALSE
    /\ pause_event' = FALSE
    /\ paused' = {}
    /\ stopped' = {}
    /\ collected' = {}
    /\ control_state' = "running"
    /\ stop_reason' = None
    /\ died' = {}
    /\ late' = [w \in Workers |-> 0]

MutantReopen ==
    /\ session' = "running"
    /\ queue' = [i \in Items |-> IF queue[i] = "absent" THEN "absent" ELSE "pending"]
    /\ owner' = [i \in Items |-> None]
\* reopen_scan_session
Reopen ==
    /\ session' = "running"
    /\ Requeue(Items)

\* start_scan: the session row is created when the job selects its root.
StartScan ==
    /\ job = "none" /\ session = "none"
    /\ FreshJob
    /\ UNCHANGED <<dbVars, files_seen, pc, item, spent>>

\* resume_scan without an active job.
ResumeScan ==
    /\ job = "none" /\ session \in {"paused", "stopped"}
    /\ Reopen
    /\ FreshJob
    /\ UNCHANGED <<directories_completed, files_seen, pc, item, spent>>

\* _recover_scan_job_if_needed: a status request finds the session running
\* although no job is.
RecoverScan ==
    /\ job = "none" /\ session = "running"
    /\ Reopen
    /\ FreshJob
    /\ UNCHANGED <<directories_completed, files_seen, pc, item, spent>>

\* The other branch: the session's root is no longer configured.
RetireSession ==
    /\ job = "none" /\ session = "running"
    /\ session' = "failed"
    /\ UNCHANGED <<queue, owner, directories_completed, controlVars, jobVars,
                   workerVars, late, spent>>

\* _run_scan_job sees a stop request before it takes up the root.
StopBeforeRoot ==
    /\ job = "select" /\ session = "none" /\ stop_event
    /\ job' = "none"
    /\ UNCHANGED <<dbVars, controlVars, collected, control_state, workerVars, late, spent>>

\* _select_session_or_root: create_scan_session, or reopen once more.
SelectSession ==
    /\ job = "select"
    /\ Reopen
    /\ job' = "prepare"
    /\ files_seen' = directories_completed
    /\ UNCHANGED <<directories_completed, controlVars, collected, control_state,
                   stop_reason, pc, item, died, late, spent>>

\* The root is not readable: mark_session_failed, and the job ends failed.
RootUnreadable ==
    /\ job = "prepare"
    /\ session' = "failed"
    /\ job' = "none"
    /\ UNCHANGED <<queue, owner, directories_completed, controlVars, collected,
                   control_state, workerVars, late, spent>>

\* _prepare_directory_queue walks the whole root, or breaks off when it reads
\* a request, keeping what it has found so far.
WalkRoot ==
    /\ job = "prepare"
    /\ control_state' = IF stop_event THEN "stopped"
                        ELSE IF pause_event THEN "paused" ELSE "running"
    /\ IF control_state' = "running"
       THEN collected' = Items
       ELSE collected' \in SUBSET Items
    /\ job' = "seed"
    /\ UNCHANGED <<dbVars, controlVars, workerVars, late, spent>>

\* ON CONFLICT (scan_session_id, relative_path) DO NOTHING
Seeded(i) == i \in collected /\ queue[i] = "absent"

\* seed_directory_work_queue, then the workers start or the scan is cut short.
SeedQueue ==
    /\ job = "seed"
    /\ queue' = [i \in Items |-> IF Seeded(i) THEN "pending" ELSE queue[i]]
    /\ IF control_state = "running"
       THEN /\ job' = "scan"
            /\ pc' = [w \in Workers |-> "top"]
            /\ UNCHANGED stop_reason
       ELSE /\ job' = "finalize"
            /\ stop_reason' = control_state
            /\ UNCHANGED pc
    /\ UNCHANGED <<session, owner, directories_completed, controlVars, collected,
                   control_state, files_seen, item, died, late, spent>>

-----------------------------------------------------------------------------
(* The worker loop, _scan_worker_loop.                                      *)

MutantAfterControl == IF stop_event THEN "obey_stop" ELSE "wait"
AfterControl ==
    IF stop_event THEN "obey_stop" ELSE IF pause_event THEN "obey_pause" ELSE "wait"

\* current_control_state()
ReadControl(w) ==
    /\ pc[w] = "top"
    /\ pc' = [pc EXCEPT ![w] = AfterControl]
    /\ UNCHANGED <<dbVars, controlVars, jobVars, stop_reason, files_seen, item, died, late,
                   spent>>

\* The worker leaves on a request it has read, whatever was requested since.
ObeyControl(w) ==
    /\ pc[w] \in {"obey_stop", "obey_pause"}
    /\ Requeue({i \in Items : owner[i] = w})
    /\ IF pc[w] = "obey_stop"
       THEN /\ stop_reason' = "stopped"
            /\ stopped' = stopped \cup {w}
            /\ paused' = paused \ {w}
       ELSE /\ stop_reason' = "paused"
            /\ paused' = paused \cup {w}
            /\ UNCHANGED stopped
    /\ pc' = [pc EXCEPT ![w] = "off"]
    /\ UNCHANGED <<session, directories_completed, stop_event, pause_event, jobVars,
                   files_seen, item, died, late, spent>>

\* wait_until_runnable answers "stopped": the worker leaves without a reason.
LeaveStopped(w) ==
    /\ pc[w] = "wait" /\ w \in stopped
    /\ Requeue({i \in Items : owner[i] = w})
    /\ pc' = [pc EXCEPT ![w] = "off"]
    /\ UNCHANGED <<session, directories_completed, controlVars, jobVars, stop_reason,
                   files_seen, item, died, late, spent>>

Runnable(w) == pc[w] = "wait" /\ w \notin stopped \cup paused

\* A reason for the workers to leave exists: a request, or the file limit.
EndWanted == stop_event \/ pause_event \/ stop_reason # None

MutantClaimable(i) == queue[i] \in {"pending", "processing"}
Claimable(i) == queue[i] = "pending"

\* claim_next_directory
Claim(w) ==
    /\ Runnable(w)
    /\ \E i \in Items :
          /\ Claimable(i)
          /\ queue' = [queue EXCEPT ![i] = "processing"]
          /\ owner' = [owner EXCEPT ![i] = w]
          /\ item' = [item EXCEPT ![w] = i]
    /\ pc' = [pc EXCEPT ![w] = "work"]
    /\ late' = IF EndWanted THEN [late EXCEPT ![w] = @ + 1] ELSE late
    /\ UNCHANGED <<session, directories_completed, controlVars, jobVars, stop_reason,
                   files_seen, died, spent>>

MutantDrained == \A i \in Items : queue[i] \notin {"pending", "processing"}
\* Rows in progress elsewhere do not count.
Drained == \A i \in Items : queue[i] # "pending"

\* Nothing is pending and the collector has finished: the worker is through.
LeaveDrained(w) ==
    /\ Runnable(w) /\ Drained
    /\ pc' = [pc EXCEPT ![w] = "off"]
    /\ UNCHANGED <<dbVars, controlVars, jobVars, stop_reason, files_seen, item, died, late,
                   spent>>

\* The files are observed; apply_directory_files writes them, the finished row
\* and the counter in one transaction.
Apply(w) ==
    /\ pc[w] = "work"
    /\ queue' = [queue EXCEPT ![item[w]] = "done"]
    /\ owner' = [owner EXCEPT ![item[w]] = None]
    /\ directories_completed' = directories_completed + 1
    /\ pc' = [pc EXCEPT ![w] = "count"]
    /\ item' = [item EXCEPT ![w] = None]
    /\ UNCHANGED <<session, controlVars, jobVars, stop_reason, files_seen, died, late,
                   spent>>

LimitReached == MaxFiles # None /\ files_seen' >= MaxFiles

AfterCount(reason) == IF reason = "paused" THEN "off" ELSE "top"

\* The max_files check under files_seen_lock, and the end of the loop.
CountFiles(w) ==
    /\ pc[w] = "count"
    /\ files_seen' = files_seen + 1
    /\ stop_reason' = IF stop_reason = None /\ LimitReached THEN "paused" ELSE stop_reason
    /\ pc' = [pc EXCEPT ![w] = AfterCount(stop_reason')]
    /\ UNCHANGED <<dbVars, controlVars, jobVars, item, died, late, spent>>

\* An exception (a locked database, a failing job file) ends the thread; its
\* row stays 'processing' and nobody is told.
Die(w) ==
    /\ pc[w] \in {"top", "work", "count"}
    /\ Spend("faults")
    /\ pc' = [pc EXCEPT ![w] = "off"]
    /\ item' = [item EXCEPT ![w] = None]
    /\ died' = died \cup {w}
    /\ UNCHANGED <<dbVars, controlVars, jobVars, stop_reason, files_seen, late>>

-----------------------------------------------------------------------------
(* The end of the scan, on the job thread.                                  *)

MutantAlwaysFinalize == "finalize"
MutantAfterJoin == IF stop_reason = "stopped" THEN "finalize" ELSE "commit"
AfterJoin == IF stop_reason = None THEN "commit" ELSE "finalize"

Join ==
    /\ job = "scan" /\ AllOff
    /\ job' = AfterJoin
    /\ UNCHANGED <<dbVars, controlVars, collected, control_state, workerVars, late, spent>>

MutantFinalRequeue == UNCHANGED <<queue, owner>>
\* requeue_processing_directories of the whole session
FinalRequeue == Requeue(Items)

\* _finalize_interrupted_incremental_scan, first transaction ...
FinalizeRequeue ==
    /\ job = "finalize"
    /\ FinalRequeue
    /\ job' = "mark"
    /\ UNCHANGED <<session, directories_completed, controlVars, collected,
                   control_state, workerVars, late, spent>>

\* ... and mark_session_stopped or mark_session_paused.
FinalizeMark ==
    /\ job = "mark"
    /\ session' = stop_reason
    /\ job' = "none"
    /\ UNCHANGED <<queue, owner, directories_completed, controlVars, collected,
                   control_state, workerVars, late, spent>>

\* commit_scan_session looks at neither the status nor the queue.
CommitSession ==
    /\ job = "commit"
    /\ session' = "completed"
    /\ job' = "none"
    /\ UNCHANGED <<queue, owner, directories_completed, controlVars, collected,
                   control_state, workerVars, late, spent>>

-----------------------------------------------------------------------------
(* Requests of the operator, and crashes.                                   *)

RequestPause ==
    /\ job # "none"
    /\ Spend("requests")
    /\ pause_event' = TRUE
    /\ UNCHANGED <<dbVars, jobVars, workerVars, stop_event, paused, stopped, late>>

RequestResume ==
    /\ job # "none" /\ pause_event
    /\ Spend("requests")
    /\ pause_event' = FALSE
    /\ late' = IF stop_event THEN late ELSE [w \in Workers |-> 0]
    /\ UNCHANGED <<dbVars, jobVars, workerVars, stop_event, paused, stopped>>

RequestStop ==
    /\ job # "none" /\ ~stop_event
    /\ Spend("requests")
    /\ stop_event' = TRUE
    /\ UNCHANGED <<dbVars, jobVars, workerVars, pause_event, paused, stopped, late>>

\* ScanRuntimeController.request_pause
PauseActor(w) ==
    /\ job # "none" /\ w \notin paused
    /\ Spend("actor_pauses")
    /\ paused' = paused \cup {w}
    /\ UNCHANGED <<dbVars, jobVars, workerVars, stop_event, pause_event, stopped, late>>

\* ScanRuntimeController.request_resume: refused once the actor is stopped.
ResumeActor(w) ==
    /\ job # "none" /\ w \in paused \ stopped
    /\ paused' = paused \ {w}
    /\ UNCHANGED <<dbVars, jobVars, workerVars, stop_event, pause_event, stopped,
                   late, spent>>

\* ScanRuntimeController.request_stop
StopActor(w) ==
    /\ job # "none" /\ w \notin stopped
    /\ Spend("actor_stops")
    /\ paused' = paused \ {w}
    /\ stopped' = stopped \cup {w}
    /\ UNCHANGED <<dbVars, jobVars, workerVars, stop_event, pause_event, late>>

\* The process dies, or the job thread ends by an exception: the database is
\* left as the last transaction made it.
Crash ==
    /\ job # "none"
    /\ Spend("crashes")
    /\ job' = "none"
    /\ pc' = [w \in Workers |-> "off"]
    /\ item' = [w \in Workers |-> None]
    /\ UNCHANGED <<dbVars, controlVars, collected, control_state, stop_reason, files_seen,
                   died, late>>

-----------------------------------------------------------------------------
JobStep ==
    \/ StopBeforeRoot \/ SelectSession \/ RootUnreadable \/ WalkRoot \/ SeedQueue
    \/ Join \/ FinalizeRequeue \/ FinalizeMark \/ CommitSession

WorkerStep(w) ==
    \/ ReadControl(w) \/ ObeyControl(w) \/ LeaveStopped(w)
    \/ Claim(w) \/ LeaveDrained(w) \/ Apply(w) \/ CountFiles(w)

Operator ==
    \/ StartScan \/ ResumeScan \/ RequestPause \/ RequestResume \/ RequestStop
    \/ \E w \in Workers : PauseActor(w) \/ ResumeActor(w) \/ StopActor(w)

Next ==
    \/ JobStep
    \/ RecoverScan \/ RetireSession
    \/ \E w \in Workers : WorkerStep(w) \/ Die(w)
    \/ Operator
    \/ Crash

Spec == Init /\ [][Next]_vars

\* Threads that can run are scheduled.  Status requests keep coming, and each
\* recovers a session that was left running; no operator has to do anything.
Fairness ==
    /\ WF_vars(JobStep)
    /\ WF_vars(RecoverScan)
    /\ \A w \in Workers : WF_vars(WorkerStep(w))
FairSpec == Spec /\ Fairness

-----------------------------------------------------------------------------
(* Properties.                                                              *)

\* Every variable keeps its type (the rows of scan_session and
\* scan_directory_queue, the controller's sets, the positions in the loops).
TypeOK ==
    /\ session \in Statuses
    /\ queue \in [Items -> QueueStatuses]
    /\ owner \in [Items -> Workers \cup {None}]
    /\ directories_completed \in Nat
    /\ job \in {"none", "select", "prepare", "seed", "scan", "finalize", "mark", "commit"}
    /\ stop_event \in BOOLEAN
    /\ pause_event \in BOOLEAN
    /\ collected \in SUBSET Items
    /\ control_state \in {"running", "paused", "stopped"}
    /\ stop_reason \in {None, "paused", "stopped"}
    /\ files_seen \in Nat
    /\ pc \in [Workers -> {"off", "top", "obey_stop", "obey_pause", "wait", "work", "count"}]
    /\ item \in [Workers -> Items \cup {None}]
    /\ paused \in SUBSET Workers
    /\ stopped \in SUBSET Workers
    /\ died \in SUBSET Workers
    /\ late \in [Workers -> Nat]
    /\ spent \in [Bounded -> Nat]

\* The session's counter is the number of units that are done: through pauses,
\* resumes, crashes, recoveries and dying workers no unit is applied twice and
\* none that was applied is replayed (apply_directory_files, reopen, reseed).
CountedOnce == directories_completed = Cardinality(Done)

\* A unit being worked on belongs to exactly that worker (claim_next_directory),
\* and units are worked on only while the session is open.
ClaimExclusive ==
    \A w \in Workers : pc[w] = "work" =>
        /\ item[w] \in Items
        /\ queue[item[w]] = "processing"
        /\ owner[item[w]] = w
        /\ session = "running"

\* A paused or stopped session is at a safe boundary: no unit is left claimed,
\* whichever worker died or was told to leave.
PausedAtBoundary ==
    session \in {"paused", "stopped"} => \A i \in Items : queue[i] # "processing"

\* Once a pause or stop is requested, or max_files is reached, each worker takes
\* up at most one more unit: the scan ends at the next safe boundary and exceeds
\* the limit by no more than the workers had under way.
PauseStopsScheduling ==
    \A w \in Workers : late[w] <= 1

\* A committed scan covered the whole root, as long as one worker was neither
\* stopped by itself nor lost.
CommitDrained ==
    session = "completed" /\ died = {} /\ stopped # Workers => Done = Items

\* A worker sits in wait_until_runnable because its actor was paused by itself.
Held == \E w \in Workers : pc[w] = "wait" /\ w \in paused

\* A scan job ends by itself, whichever of its threads are lost, unless an actor
\* is held paused (_run_incremental_root_scan joins every worker).
ScanEnds == job # "none" ~> job = "none" \/ Held

\* A session left running by a crash is taken up again and reaches an end,
\* unless an actor is held paused (_recover_scan_job_if_needed).
InterruptedScanRecovers == session = "running" ~> session # "running" \/ Held

\* The scan implements what a session promises.
Promise == INSTANCE ScanSession WITH done <- Done
ImplementsPromise == Promise!Spec

\* No worker of the current job was ended by an exception, and one was left
\* running by the operator.
NobodyLost == died = {} /\ stopped # Workers

\* Under every control of the API a step keeps the promise as long as nobody was
\* lost: no reopened session loses or repeats a unit, none is committed early.
PromiseKeptUnlessLost ==
    [][NobodyLost => Promise!Next \/ UNCHANGED Promise!vars]_vars
=============================================================================
