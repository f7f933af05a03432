--------------------------- MODULE BackgroundJobs ---------------------------
(***************************************************************************)
(* The in-process job runtime every long operation runs on:                *)
(* BackgroundJobRuntime and ManagedJobHandle of                            *)
(* services/backup_job_service.py, with the records BackgroundJobStore     *)
(* keeps as one JSON file per job.                                         *)
(*                                                                         *)
(* API routes are plain functions, so the server runs them on a thread     *)
(* pool: the Callers.  A job's runner executes on a worker thread of the   *)
(* runtime's executor, named here by the job itself.  The runtime lock     *)
(* covers the two dictionaries only.  The handle methods take no lock:     *)
(* each reads handle.record, writes the changed copy to the file and then  *)
(* assigns it, and these are separate steps here ("persist", "assign").    *)
(*                                                                         *)
(* A record keeps what the properties tell apart: the state, the           *)
(* cancel_requested flag, and whether it carries the runner's final result *)
(* (completed_at).  "completed" stands for the outcomes the runtime treats *)
(* alike (completed, partial, unsupported, canceled).                      *)
(***************************************************************************)
EXTENDS Naturals, FiniteSets

CONSTANTS
    Callers,      \* threads serving API requests
    Jobs,         \* job ids start_job may draw
    Types,        \* job types
    None,         \* absence of a job, a type or a record
    MaxWorkers,   \* BackgroundJobRuntime.max_workers
    MaxCalls,     \* bound: API calls made in all
    MaxUpdates    \* bound: progress updates of one runner

ASSUME MaxWorkersAssumption == MaxWorkers \in Nat \ {0}
ASSUME BoundsAssumption == MaxCalls \in Nat /\ MaxUpdates \in Nat
ASSUME DistinctAssumption ==
    /\ Callers \cap Jobs = {}
    /\ None \notin Jobs \cup Types \cup Callers

VARIABLES
    persisted,        \* job -> the record in its file
    record,           \* job -> ManagedJobHandle.record
    stop_event,       \* jobs whose stop_event is set
    pause_event,      \* jobs whose pause_event is set
    job_type,         \* job -> its type, None while the id is unused
    active_jobs,      \* type -> _active_jobs entry
    job_attachments,  \* type -> job whose controller is attached
    future,           \* job -> state of its Future in the executor
    phase,            \* job -> where _run_job stands
    outcome,          \* job -> state the runner ended with
    write,            \* thread -> handle method in progress
    call,             \* caller -> API call in progress
    accepting,        \* FALSE once the executor is shut down
    calls,            \* API calls made (bound)
    updates,          \* job -> updates made (bound)
    raced             \* history: jobs whose mark_finished met a control request

handleVars  == <<persisted, record, stop_event, pause_event>>
runtimeVars == <<job_type, active_jobs, job_attachments, accepting>>
workerVars  == <<future, phase, outcome, updates>>
vars == <<handleVars, runtimeVars, workerVars, write, call, calls, raced>>

-----------------------------------------------------------------------------
Transitional == {"pending", "running", "pausing", "resuming", "stopping"}
\* TERMINAL_BACKGROUND_JOB_STATES: pausing and stopping are not among them,
\* paused and stopped are.
Terminal == {"completed", "failed", "paused", "stopped"}
JobRecord == [state : Transitional \cup Terminal, cancel : BOOLEAN, final : BOOLEAN]

Threads == Callers \cup Jobs
Requests == {"request_pause", "request_resume", "request_stop"}
NoWrite == [step |-> "none", job |-> None, copy |-> None]
Idle == [op |-> "idle", type |-> None, job |-> None]

Ended(j) == phase[j] = "exit"
Unfinished(j) == future[j] \in {"queued", "running"} /\ ~Ended(j)
Running == {j \in Jobs : future[j] = "running"}

Init ==
    /\ persisted = [j \in Jobs |-> None]
    /\ record = [j \in Jobs |-> None]
    /\ stop_event = {}
    /\ pause_event = {}
    /\ job_type = [j \in Jobs |-> None]
    /\ active_jobs = [t \in Types |-> None]
    /\ job_attachments = [t \in Types |-> None]
    /\ future = [j \in Jobs |-> "none"]
    /\ phase = [j \in Jobs |-> "idle"]
    /\ outcome = [j \in Jobs |-> None]
    /\ write = [th \in Threads |-> NoWrite]
    /\ call = [c \in Callers |-> Idle]
    /\ accepting = TRUE
    /\ calls = 0
    /\ updates = [j \in Jobs |-> 0]
    /\ raced = {}

-----------------------------------------------------------------------------
(* The parts every handle method shares.                                    *)

\* model_copy of handle.record: from here on the thread holds a private copy.
Copies(th, j, copy) ==
    write' = [write EXCEPT ![th] = [step |-> "persist", job |-> j, copy |-> copy]]

\* store.persist_job: the whole file is rewritten with the copy.
Persist(th) ==
    /\ write[th].step = "persist"
    /\ persisted' = [persisted EXCEPT ![write[th].job] = write[th].copy]
    /\ write' = [write EXCEPT ![th].step = "assign"]
    /\ UNCHANGED <<record, stop_event, pause_event, runtimeVars, workerVars,
                   call, calls, raced>>

\* self.record = ...
Assigns(th) ==
    /\ write[th].step = "assign"
    /\ record' = [record EXCEPT ![write[th].job] = write[th].copy]
    /\ write' = [write EXCEPT ![th] = NoWrite]

-----------------------------------------------------------------------------
(* API calls.                                                               *)

BeginsCall(c, new) ==
    /\ call[c] = Idle
    /\ calls < MaxCalls
    /\ calls' = calls + 1
    /\ call' = [call EXCEPT ![c] = new]

\* The entry of type t after active_job has looked at it.
AfterPeek(t) ==
    IF active_jobs[t] # None /\ future[active_jobs[t]] = "done"
    THEN [active_jobs EXCEPT ![t] = None]
    ELSE active_jobs

\* active_job finds an entry: a status request, or a start that is refused.
ActiveJob(c, t) ==
    /\ active_jobs[t] # None
    /\ BeginsCall(c, Idle)
    /\ active_jobs' = AfterPeek(t)
    /\ UNCHANGED <<handleVars, job_type, job_attachments, accepting, workerVars,
                   write, raced>>

MutantActiveCheck(t) == TRUE
\* The check every service makes before it starts a job of type t.
ActiveCheck(t) == active_jobs[t] = None

\* A service finds no active job and goes on to start one.
StartCheck(c, t) ==
    /\ ActiveCheck(t)
    /\ BeginsCall(c, [op |-> "persist", type |-> t, job |-> None])
    /\ UNCHANGED <<handleVars, runtimeVars, workerVars, write, raced>>

\* start_job draws an unused id, writes the pending record, makes the handle.
StartPersist(c) ==
    /\ call[c].op = "persist"
    /\ \E j \in Jobs :
          LET new == [state |-> "pending", cancel |-> FALSE, final |-> FALSE] IN
          /\ job_type[j] = None
          /\ job_type' = [job_type EXCEPT ![j] = call[c].type]
          /\ persisted' = [persisted EXCEPT ![j] = new]
          /\ record' = [record EXCEPT ![j] = new]
          /\ call' = [call EXCEPT ![c].op = "submit", ![c].job = j]
    /\ UNCHANGED <<stop_event, pause_event, active_jobs, job_attachments, accepting,
                   workerVars, write, calls, raced>>

\* executor.submit: after shutdown it raises and the call ends with an error.
StartSubmit(c) ==
    /\ call[c].op = "submit"
    /\ IF accepting
       THEN /\ future' = [future EXCEPT ![call[c].job] = "queued"]
            /\ call' = [call EXCEPT ![c].op = "register"]
       ELSE /\ call' = [call EXCEPT ![c] = Idle]
            /\ UNCHANGED future
    /\ UNCHANGED <<handleVars, runtimeVars, phase, outcome, updates, write, calls, raced>>

\* The entry is made only now, when the job may already be running or over.
StartRegister(c) ==
    /\ call[c].op = "register"
    /\ active_jobs' = [active_jobs EXCEPT ![call[c].type] = call[c].job]
    /\ call' = [call EXCEPT ![c] = Idle]
    /\ UNCHANGED <<handleVars, job_type, job_attachments, accepting, workerVars,
                   write, calls, raced>>

\* runtime.request_*: the handle is looked up under the lock ...
RequestLookup(c, t, op) ==
    /\ active_jobs[t] # None
    /\ BeginsCall(c, [op |-> op, type |-> t, job |-> active_jobs[t]])
    /\ UNCHANGED <<handleVars, runtimeVars, workerVars, write, raced>>

Finishing(j) ==
    \/ phase[j] = "ending" /\ write[j].step # "none"
    \/ phase[j] \in {"cleanup", "exit"}

RequestedRecord(j, op) ==
    CASE op = "request_pause"  -> [record[j] EXCEPT !.state = "pausing"]
      [] op = "request_resume" -> [record[j] EXCEPT !.state = "resuming"]
      [] OTHER                 -> [record[j] EXCEPT !.state = "stopping", !.cancel = TRUE]

\* ... and used after it was released: set or clear the event, copy the record.
RequestApply(c) ==
    LET j == call[c].job
        op == call[c].op IN
    /\ op \in Requests
    /\ stop_event' = IF op = "request_stop" THEN stop_event \cup {j} ELSE stop_event
    /\ pause_event' = CASE op = "request_pause"  -> pause_event \cup {j}
                        [] op = "request_resume" -> pause_event \ {j}
                        [] OTHER                 -> pause_event
    /\ Copies(c, j, RequestedRecord(j, op))
    /\ call' = [call EXCEPT ![c].op = "writing"]
    /\ raced' = IF Finishing(j) THEN raced \cup {j} ELSE raced
    /\ UNCHANGED <<persisted, record, runtimeVars, workerVars, calls>>

RequestAssign(c) ==
    /\ Assigns(c)
    /\ call' = [call EXCEPT ![c] = Idle]
    /\ UNCHANGED <<persisted, stop_event, pause_event, runtimeVars, workerVars,
                   calls, raced>>

\* runtime.shutdown: nothing is cancelled, only new submissions are refused.
Shutdown ==
    /\ accepting
    /\ accepting' = FALSE
    /\ UNCHANGED <<handleVars, job_type, active_jobs, job_attachments, workerVars,
                   write, call, calls, raced>>

-----------------------------------------------------------------------------
(* _run_job on a worker thread.                                             *)

MutantPoolHasRoom == Cardinality(Running) + 1 < MaxWorkers
PoolHasRoom == Cardinality(Running) < MaxWorkers

Dispatch(j) ==
    /\ future[j] = "queued"
    /\ PoolHasRoom
    /\ future' = [future EXCEPT ![j] = "running"]
    /\ phase' = [phase EXCEPT ![j] = "begin"]
    /\ UNCHANGED <<handleVars, runtimeVars, outcome, updates, write, call, calls, raced>>

MarkStarted(j) ==
    /\ phase[j] = "begin" /\ write[j].step = "none"
    /\ Copies(j, j, [record[j] EXCEPT !.state = "running"])
    /\ UNCHANGED <<handleVars, runtimeVars, workerVars, call, calls, raced>>

\* A scan runner attaches its ScanRuntimeController.
SetJobAttachment(j) ==
    /\ phase[j] = "attach"
    /\ job_attachments' = [job_attachments EXCEPT ![job_type[j]] = j]
    /\ phase' = [phase EXCEPT ![j] = "body"]
    /\ UNCHANGED <<handleVars, job_type, active_jobs, accepting, future, outcome,
                   updates, write, call, calls, raced>>

\* _scan_job_state_from_handle
ReportedState(j) ==
    CASE j \in stop_event               -> "stopping"
      [] j \notin stop_event /\ j \in pause_event -> "pausing"
      [] OTHER -> IF record[j].state = "resuming" THEN "resuming" ELSE "running"

\* handle.update from a progress callback.
Update(j) ==
    /\ phase[j] = "body" /\ write[j].step = "none"
    /\ updates[j] < MaxUpdates
    /\ updates' = [updates EXCEPT ![j] = @ + 1]
    /\ Copies(j, j, [state |-> ReportedState(j), cancel |-> j \in stop_event,
                     final |-> FALSE])
    /\ UNCHANGED <<handleVars, runtimeVars, future, phase, outcome, call, calls, raced>>

\* The runner returns or raises.  It ends paused or stopped only on an event.
RunnerEnds(j) ==
    /\ phase[j] \in {"attach", "body"} /\ write[j].step = "none"
    /\ \E s \in Terminal :
          /\ s = "stopped" => j \in stop_event
          /\ s = "paused" => j \in pause_event
          /\ outcome' = [outcome EXCEPT ![j] = s]
    /\ phase' = [phase EXCEPT ![j] = "ending"]
    /\ UNCHANGED <<handleVars, runtimeVars, future, updates, write, call, calls, raced>>

MutantFinishedRecord(j) == [record[j] EXCEPT !.state = outcome[j], !.final = TRUE]
FinishedRecord(j) ==
    [state |-> outcome[j], cancel |-> j \in stop_event, final |-> TRUE]

MarkFinished(j) ==
    /\ phase[j] = "ending" /\ write[j].step = "none"
    /\ Copies(j, j, FinishedRecord(j))
    /\ raced' = IF \E c \in Callers : write[c].job = j THEN raced \cup {j} ELSE raced
    /\ UNCHANGED <<handleVars, runtimeVars, workerVars, call, calls>>

AfterAssign(p) ==
    CASE p = "begin" -> "attach" [] p = "ending" -> "cleanup" [] OTHER -> p

WorkerAssign(j) ==
    /\ Assigns(j)
    /\ phase' = [phase EXCEPT ![j] = AfterAssign(@)]
    /\ UNCHANGED <<persisted, stop_event, pause_event, runtimeVars, future, outcome,
                   updates, call, calls, raced>>

MutantActiveAfter(j) == [active_jobs EXCEPT ![job_type[j]] = None]
\* The entry goes only if it is this job's own.
ActiveAfter(j) ==
    IF active_jobs[job_type[j]] = j
    THEN [active_jobs EXCEPT ![job_type[j]] = None]
    ELSE active_jobs

MutantAttachmentsAfter(j) == [t \in Types |-> None]
\* The attachment goes whoever made it.
AttachmentsAfter(j) == [job_attachments EXCEPT ![job_type[j]] = None]

\* The finally block.
Cleanup(j) ==
    /\ phase[j] = "cleanup"
    /\ active_jobs' = ActiveAfter(j)
    /\ job_attachments' = AttachmentsAfter(j)
    /\ phase' = [phase EXCEPT ![j] = "exit"]
    /\ UNCHANGED <<handleVars, job_type, accepting, future, outcome, updates, write,
                   call, calls, raced>>

\* The executor marks the future done after _run_job has returned.
FutureDone(j) ==
    /\ phase[j] = "exit" /\ future[j] = "running"
    /\ future' = [future EXCEPT ![j] = "done"]
    /\ UNCHANGED <<handleVars, runtimeVars, phase, outcome, updates, write, call,
                   calls, raced>>

-----------------------------------------------------------------------------
WorkerStep(j) ==
    \/ Dispatch(j) \/ MarkStarted(j) \/ SetJobAttachment(j) \/ Update(j)
    \/ RunnerEnds(j) \/ MarkFinished(j) \/ Persist(j) \/ WorkerAssign(j)
    \/ Cleanup(j) \/ FutureDone(j)

\* Steps of a call that is under way.
CallStep(c) ==
    \/ StartPersist(c) \/ StartSubmit(c) \/ StartRegister(c)
    \/ RequestApply(c) \/ Persist(c) \/ RequestAssign(c)

NewCall(c) ==
    \E t \in Types :
       \/ ActiveJob(c, t)
       \/ StartCheck(c, t)
       \/ \E op \in Requests : RequestLookup(c, t, op)

Next ==
    \/ \E j \in Jobs : WorkerStep(j)
    \/ \E c \in Callers : CallStep(c) \/ NewCall(c)
    \/ Shutdown

Spec == Init /\ [][Next]_vars

\* Threads that have begun something are scheduled again; nobody has to make
\* a new call.  A runner ends by itself: its updates are bounded.
Fairness ==
    /\ \A j \in Jobs : WF_vars(WorkerStep(j))
    /\ \A c \in Callers : WF_vars(CallStep(c))
FairSpec == Spec /\ Fairness

-----------------------------------------------------------------------------
(* Properties.                                                              *)

\* Every variable keeps its type (the shapes of the records, dictionaries and
\* futures of backup_job_service.py).
TypeOK ==
    /\ persisted \in [Jobs -> JobRecord \cup {None}]
    /\ record \in [Jobs -> JobRecord \cup {None}]
    /\ stop_event \subseteq Jobs
    /\ pause_event \subseteq Jobs
    /\ job_type \in [Jobs -> Types \cup {None}]
    /\ active_jobs \in [Types -> Jobs \cup {None}]
    /\ job_attachments \in [Types -> Jobs \cup {None}]
    /\ future \in [Jobs -> {"none", "queued", "running", "done"}]
    /\ phase \in [Jobs -> {"idle", "begin", "attach", "body", "ending", "cleanup", "exit"}]
    /\ outcome \in [Jobs -> Terminal \cup {None}]
    /\ write \in [Threads -> [step : {"none", "persist", "assign"},
                              job : Jobs \cup {None},
                              copy : JobRecord \cup {None}]]
    /\ call \in [Callers -> [op : {"idle", "persist", "submit", "register", "writing"}
                                    \cup Requests,
                             type : Types \cup {None},
                             job : Jobs \cup {None}]]
    /\ accepting \in BOOLEAN
    /\ calls \in Nat
    /\ updates \in [Jobs -> Nat]
    /\ raced \subseteq Jobs

\* When a job has left _run_job and no control request met its mark_finished,
\* file and memory agree on its outcome, with the result and with a cancel
\* flag that says whether a stop was ever requested: requests that were over
\* before the end leave no trace that hides it.
FinishedTruthful ==
    \A j \in Jobs : Ended(j) /\ j \notin raced =>
        /\ persisted[j] = record[j]
        /\ record[j] = [state |-> outcome[j], cancel |-> j \in stop_event, final |-> TRUE]

\* A job keeps what it is controlled through until it has ended.  Nobody drops its
\* _active_jobs entry, which at most another start replaces; and its attachment goes
\* only while a second job of its type is under way, which replaces it at its start
\* and drops it at its end.
ControlsOutliveJob ==
    [][\A t \in Types : \A j \in Jobs : ~Ended(j)' =>
          /\ active_jobs[t] = j => active_jobs'[t] # None
          /\ job_attachments[t] = j /\ job_attachments'[t] # j =>
                \E k \in Jobs \ {j} : Unfinished(k) /\ job_type[k] = t]_vars

\* Every job given to the executor leaves it, however many are queued.
EveryJobFinishes == \A j \in Jobs : future[j] = "queued" ~> future[j] = "done"

\* At most one job of a type is under way.
OneJobPerType ==
    \A j, k \in Jobs :
        Unfinished(j) /\ Unfinished(k) /\ job_type[j] = job_type[k] => j = k

\* The attached controller is always that of the job under way, so the
\* per-actor controls reach the scan that runs.
AttachmentFollowsJob ==
    /\ \A t \in Types : job_attachments[t] # None => Unfinished(job_attachments[t])
    /\ \A j \in Jobs : phase[j] = "body" => job_attachments[job_type[j]] = j
=============================================================================
