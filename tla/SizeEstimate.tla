---------------------------- MODULE SizeEstimate ----------------------------
(***************************************************************************)
(* BackupSizeEstimationService and BackupSizeCollector: the size of the    *)
(* database and of the library is collected by a background job, kept in   *)
(* the job's record, and served until it is stale.                         *)
(*                                                                         *)
(* Of a size only the job that collected it is kept.  A record is written  *)
(* in one step (BackgroundJobs takes the writes apart).  The clock moves   *)
(* between two processes.                                                  *)
(***************************************************************************)
EXTENDS RepairJournal, SequencesExt

CONSTANTS
    Jobs,      \* ids a job may draw
    Window,    \* freshness_seconds
    MaxNow     \* bound: the clock

ASSUME EstimateBounds == Window \in Nat /\ MaxNow \in Nat
\* None is no time.
ASSUME NoTimeAssumption == None \notin Nat

VARIABLES
    now,
    startedAt,   \* started_at of the runtime
    file,        \* job -> its record, None while the id is unused
    recent,      \* jobs in the order of their updated_at
    active,      \* the runtime's entry for the job type
    worker,      \* job -> where its runner stands
    stopped,     \* jobs whose stop_event is set
    previous,    \* job -> the snapshot its runner was given, None
    served,      \* snapshots served last
    alive        \* history: jobs of the running process

jobVars == <<file, recent, active, worker, stopped, previous, alive>>
estVars == <<now, startedAt, jobVars, served>>

\* The terminal states a job of this type reaches: no one pauses it.
Terminal == {"completed", "partial", "failed", "unsupported", "canceled"}
WithData == {"partial", "completed", "unsupported"}

\* A snapshot: its state, when its values were collected and by which job.
Snap(state, at, by) == [state |-> state, at |-> at, by |-> by, stale |-> FALSE]
Pending == Snap("pending", None, None)

EstInit ==
    /\ now = 0 /\ startedAt = 0
    /\ file = [j \in Jobs |-> None]
    /\ recent = <<>>
    /\ active = None
    /\ worker = [j \in Jobs |-> "none"]
    /\ stopped = {}
    /\ previous = [j \in Jobs |-> None]
    /\ served = {}
    /\ alive = {}

-----------------------------------------------------------------------------
(* The collector.                                                           *)

MutantStale(snap) == now - snap.at > Window
Stale(snap) == snap.at < startedAt \/ now - snap.at > Window
Freshness(snap) == IF snap.at = None THEN snap ELSE [snap EXCEPT !.stale = Stale(snap)]

\* mark_stale: the values are shown on, with the time they were collected at.
CarriedOver(snap) == [snap EXCEPT !.stale = TRUE]
\* queued_snapshot
Queued(snap) == IF snap = None THEN Pending ELSE [CarriedOver(snap) EXCEPT !.state = "pending"]
\* _running_snapshot
Shown(snap) == [Queued(snap) EXCEPT !.state = "running"]

\* _derive_overall_state
Overall(states) ==
    CASE states = {} \/ states = {"pending"} -> "pending"
      [] "running" \in states ->
            IF states \cap WithData # {} THEN "partial" ELSE "running"
      [] \E s \in {"unsupported", "canceled", "completed", "failed"} : states = {s} ->
            CHOOSE s \in states : TRUE
      [] OTHER -> "partial"

\* _build_snapshot: any scope that is over, failed ones too, sets the time.
Built(j, states) ==
    IF states \subseteq {"pending", "running"} THEN Snap(Overall(states), None, None)
    ELSE Snap(Overall(states), now, j)

-----------------------------------------------------------------------------
(* Records and the job runtime.                                             *)

Persists(j, state, snap) ==
    /\ file' = [file EXCEPT ![j] = [state |-> state, result |-> snap]]
    /\ recent' = Append(RemoveFirst(recent, j), j)

\* find_latest_job
Latest(states) ==
    LET found == {i \in DOMAIN recent : file[recent[i]].state \in states} IN
    IF found = {} THEN None ELSE file[recent[Max(found)]].result

Serves(snap) == served' = {snap}
RestIdle == UNCHANGED <<runs, journal, crashes, drift, now, startedAt>>

\* get_snapshot or collect finds a job in the runtime; an entry whose future is
\* done goes.
ServeActive(c) ==
    /\ Call(c) /\ active # None
    /\ Serves(Freshness(file[active].result))
    /\ active' = IF worker[active] = "over" THEN None ELSE active
    /\ UNCHANGED <<pc, mem, file, recent, worker, stopped, previous, alive>> /\ RestIdle

\* They find none; the records are read after the lock was released.
FindsNone(c) ==
    /\ Call(c) /\ active = None
    /\ \E step \in {"get_latest", "collect_latest", "collect_forced"} : Goes(c, step)
    /\ UNCHANGED <<mem, jobVars, served>> /\ RestIdle

GetLatest(c) ==
    LET latest == Latest(Terminal) IN
    /\ pc[c] = "get_latest"
    /\ Serves(IF latest = None THEN Pending ELSE Freshness(latest))
    /\ Leaves(c)
    /\ UNCHANGED <<calls, jobVars>> /\ RestIdle

\* collect serves what is fresh, unless a new collection is forced.
CollectLatest(c) ==
    LET latest == Latest(WithData)
        shown  == IF latest = None THEN None ELSE Freshness(latest) IN
    /\ pc[c] \in {"collect_latest", "collect_forced"}
    /\ IF pc[c] = "collect_latest" /\ shown # None /\ ~shown.stale
       THEN Serves(shown) /\ Leaves(c)
       ELSE Goes(c, "start") /\ Holds(c, [job |-> None, previous |-> shown]) /\ UNCHANGED served
    /\ UNCHANGED <<calls, jobVars>> /\ RestIdle

\* start_job: the record is written and the runner submitted ...
StartJob(c) ==
    /\ pc[c] = "start"
    /\ \E j \in Jobs :
          /\ file[j] = None
          /\ Persists(j, "pending", Queued(mem[c].previous))
          /\ worker' = [worker EXCEPT ![j] = "queued"]
          /\ previous' = [previous EXCEPT ![j] = mem[c].previous]
          /\ alive' = alive \cup {j}
          /\ Holds(c, [mem[c] EXCEPT !.job = j])
    /\ Goes(c, "register")
    /\ UNCHANGED <<calls, active, stopped, served>> /\ RestIdle

\* ... and its entry made; the queued snapshot is the answer.
Register(c) ==
    /\ pc[c] = "register"
    /\ active' = mem[c].job
    /\ Serves(Queued(mem[c].previous))
    /\ Leaves(c)
    /\ UNCHANGED <<calls, file, recent, worker, stopped, previous, alive>> /\ RestIdle

\* request_cancel writes the record whatever it says by now.
CancelEstimate(c) ==
    /\ Call(c) /\ active # None
    /\ stopped' = stopped \cup {active}
    /\ Persists(active, "stopping", file[active].result)
    /\ Serves(file[active].result)
    /\ UNCHANGED <<pc, mem, active, worker, previous, alive>> /\ RestIdle

-----------------------------------------------------------------------------
(* The runner.                                                              *)

Worker(j, from, to) == worker[j] = from /\ worker' = [worker EXCEPT ![j] = to]
RestOfJob == UNCHANGED <<pc, mem, calls, stopped, previous, served, alive>> /\ RestIdle

\* mark_started keeps the queued snapshot.
Begins(j) ==
    /\ Worker(j, "queued", "announce")
    /\ Persists(j, "running", file[j].result)
    /\ UNCHANGED active /\ RestOfJob

Announces(j) ==
    /\ Worker(j, "announce", "database")
    /\ Persists(j, "running", Shown(previous[j]))
    /\ UNCHANGED active /\ RestOfJob

\* The size of the database, then the storage placeholder beside it.
CollectDatabase(j) ==
    /\ \E state \in {"completed", "failed", "unsupported"} :
          LET snap == Built(j, {state, "running"}) IN
          /\ Worker(j, "database", state)
          /\ Persists(j, snap.state, snap)
    /\ UNCHANGED active /\ RestOfJob

DatabaseDone(j) == worker[j] \in {"completed", "failed", "unsupported"}

\* Progress of the walk over the library.
StorageProgress(j) ==
    /\ DatabaseDone(j)
    /\ LET snap == Built(j, {worker[j], "running"}) IN
          /\ file[j] # [state |-> snap.state, result |-> snap] \/ Last(recent) # j
          /\ Persists(j, snap.state, snap)
    /\ UNCHANGED <<worker, active>> /\ RestOfJob

\* The walk over the library meets entries it cannot read, a stop request or its
\* deadline.
WalkEnds(j) == {"completed", "partial", "failed"} \cup (IF j \in stopped THEN {"canceled"} ELSE {})

\* Without a library the walk never begins; mark_finished.
CollectStorage(j) ==
    /\ DatabaseDone(j)
    /\ \E state \in WalkEnds(j) \cup {"unsupported"} :
          LET snap == Built(j, {worker[j], state}) IN Persists(j, snap.state, snap)
    /\ worker' = [worker EXCEPT ![j] = "cleanup"]
    /\ UNCHANGED active /\ RestOfJob

\* The runner raises: the last result is kept and called failed.
RunnerRaises(j) ==
    /\ worker[j] \in {"announce", "database"} \/ DatabaseDone(j)
    /\ worker' = [worker EXCEPT ![j] = "cleanup"]
    /\ Persists(j, "failed", [file[j].result EXCEPT !.state = "failed"])
    /\ UNCHANGED active /\ RestOfJob

\* The finally block removes the job's own entry only.
CleansUp(j) ==
    /\ Worker(j, "cleanup", "over")
    /\ active' = IF active = j THEN None ELSE active
    /\ UNCHANGED <<file, recent>> /\ RestOfJob

-----------------------------------------------------------------------------
Tick ==
    /\ now < MaxNow /\ now' = now + 1
    /\ UNCHANGED <<journalVars, startedAt, jobVars, served>>

\* The process dies and another is started later; its start refreshes the estimate
\* by a collect as any other.
EstCrash ==
    /\ JournalCrash
    /\ now < MaxNow /\ now' = now + 1
    /\ startedAt' = now'
    /\ active' = None /\ served' = {} /\ alive' = {} /\ stopped' = {}
    /\ worker' = [j \in Jobs |-> IF file[j] = None THEN "none" ELSE "dead"]
    /\ previous' = [j \in Jobs |-> None]
    /\ UNCHANGED <<file, recent>>

EstNext ==
    \/ \E c \in Callers :
          \/ ServeActive(c) \/ FindsNone(c) \/ GetLatest(c) \/ CollectLatest(c)
          \/ StartJob(c) \/ Register(c) \/ CancelEstimate(c)
    \/ \E j \in Jobs :
          \/ Begins(j) \/ Announces(j) \/ CollectDatabase(j) \/ StorageProgress(j)
          \/ CollectStorage(j) \/ RunnerRaises(j) \/ CleansUp(j)
    \/ Tick \/ EstCrash

EstSpec == JournalInit /\ EstInit /\ [][EstNext]_<<journalVars, estVars>>

-----------------------------------------------------------------------------
(* Properties.                                                              *)

\* Values from before the restart are never served as fresh, whichever record they
\* come from and however often they were carried over into the snapshot of
\* another job: what is not stale was collected by a job of this process.
FreshIsOfThisRuntime ==
    \A snap \in served : snap.by # None /\ ~snap.stale => snap.by \in alive
=============================================================================
