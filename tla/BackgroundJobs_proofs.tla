----------------------- MODULE BackgroundJobs_proofs -----------------------
(***************************************************************************)
(* Theorems about BackgroundJobs, for any number of API threads, jobs,     *)
(* types and worker threads; and about its serial clients, for any number  *)
(* of threads that serve them.                                             *)
(*                                                                         *)
(* The handle methods race, so an outcome is only safe once no request is  *)
(* writing to the job: Settled says so from mark_finished on.  The entry   *)
(* of a job outlives it because the executor calls a future done only      *)
(* after _run_job has returned (JobAt).  With one call at a time the check *)
(* of active_job covers the whole start, which SerialInv spells out.       *)
(***************************************************************************)
EXTENDS MCBackgroundJobs, TLAPS

-----------------------------------------------------------------------------
(* The inductive invariant.                                                 *)

\* A call that submits holds an id nobody has given to the executor; one that
\* registers or requests, a job that was submitted.
CallAt(c) ==
    /\ call[c].op \in {"persist", "submit", "register"} => call[c].type \in Types
    /\ call[c].op \in {"submit", "register"} =>
          call[c].job \in Jobs /\ job_type[call[c].job] = call[c].type
    /\ call[c].op = "submit" => future[call[c].job] = "none"
    /\ call[c].op = "register" => future[call[c].job] # "none"
    /\ call[c].op \in Requests => call[c].job \in Jobs /\ future[call[c].job] # "none"

\* A handle method in progress is one on a job that was started.
WriteAt(th) ==
    /\ write[th].step = "none" => write[th] = NoWrite
    /\ write[th].step # "none" =>
          write[th].job \in Jobs /\ job_type[write[th].job] # None /\ write[th].copy \in JobRecord

\* The future, the place in _run_job and the handle of a job go together.
JobAt(j) ==
    /\ future[j] # "none" => job_type[j] # None
    /\ job_type[j] # None => record[j] \in JobRecord
    /\ phase[j] = "idle" <=> future[j] \in {"none", "queued"}
    /\ future[j] = "done" => phase[j] = "exit"
    /\ phase[j] \in {"ending", "cleanup", "exit"} => outcome[j] \in Terminal
    /\ write[j].step # "none" => write[j].job = j /\ phase[j] \in {"begin", "body", "ending"}

\* An entry of _active_jobs is a submitted job of its type.
EntryAt(t) ==
    active_jobs[t] # None =>
        future[active_jobs[t]] # "none" /\ job_type[active_jobs[t]] = t

\* No two calls submit the same job.
OwnSubmit ==
    \A c, d \in Callers :
        call[c].op = "submit" /\ call[d].op = "submit" /\ call[c].job = call[d].job => c = d

Truth(j) == [state |-> outcome[j], cancel |-> j \in stop_event, final |-> TRUE]

\* From mark_finished on, with no request about, the outcome is on its way or in place.
Settled(j) ==
    Finishing(j) /\ j \notin raced =>
        /\ \A c \in Callers : write[c].job # j
        /\ phase[j] = "ending" => write[j].copy = Truth(j)
        /\ phase[j] = "ending" /\ write[j].step = "assign" => persisted[j] = Truth(j)
        /\ phase[j] # "ending" => persisted[j] = Truth(j) /\ record[j] = Truth(j)

Calling == (\A c \in Callers : CallAt(c)) /\ OwnSubmit
Writing == \A th \in Threads : WriteAt(th)
Working == \A j \in Jobs : JobAt(j)
Entered == \A t \in Types : EntryAt(t)
Inv == TypeOK /\ Calling /\ Writing /\ Working /\ Entered /\ (\A j \in Jobs : Settled(j))

-----------------------------------------------------------------------------
(* Types.                                                                   *)

HandleTypes ==
    /\ persisted \in [Jobs -> JobRecord \cup {None}]
    /\ record \in [Jobs -> JobRecord \cup {None}]
    /\ stop_event \subseteq Jobs
    /\ pause_event \subseteq Jobs
RuntimeTypes ==
    /\ job_type \in [Jobs -> Types \cup {None}]
    /\ active_jobs \in [Types -> Jobs \cup {None}]
    /\ job_attachments \in [Types -> Jobs \cup {None}]
    /\ accepting \in BOOLEAN
WorkerTypes ==
    /\ future \in [Jobs -> {"none", "queued", "running", "done"}]
    /\ phase \in [Jobs -> {"idle", "begin", "attach", "body", "ending", "cleanup", "exit"}]
    /\ outcome \in [Jobs -> Terminal \cup {None}]
    /\ updates \in [Jobs -> Nat]
Writes == [step : {"none", "persist", "assign"}, job : Jobs \cup {None},
           copy : JobRecord \cup {None}]
Calls == [op : {"idle", "persist", "submit", "register", "writing"} \cup Requests,
          type : Types \cup {None}, job : Jobs \cup {None}]
CallTypes ==
    /\ write \in [Threads -> Writes]
    /\ call \in [Callers -> Calls]
    /\ calls \in Nat
    /\ raced \subseteq Jobs

\* The parts of the type invariant.
LEMMA TypeParts == TypeOK <=> HandleTypes /\ RuntimeTypes /\ WorkerTypes /\ CallTypes
BY DEF TypeOK, HandleTypes, RuntimeTypes, WorkerTypes, CallTypes, Writes, Calls

\* Jobs and API threads are different threads.
LEMMA ThreadFacts ==
    /\ Jobs \subseteq Threads /\ Callers \subseteq Threads
    /\ \A j \in Jobs : j \notin Callers /\ j # None
    /\ \A t \in Types : t # None
BY DistinctAssumption DEF Threads

\* The records a handle method makes are well formed.
LEMMA RecordsMade ==
    ASSUME Inv
    PROVE  /\ \A j \in Jobs : job_type[j] # None =>
                /\ [record[j] EXCEPT !.state = "running"] \in JobRecord
                /\ \A op \in Requests : RequestedRecord(j, op) \in JobRecord
           /\ \A j \in Jobs, s \in Transitional \cup Terminal, b, f \in BOOLEAN :
                 [state |-> s, cancel |-> b, final |-> f] \in JobRecord
           /\ \A j \in Jobs : ReportedState(j) \in Transitional
<1>1. ASSUME NEW j \in Jobs, job_type[j] # None
      PROVE  /\ [record[j] EXCEPT !.state = "running"] \in JobRecord
             /\ \A op \in Requests : RequestedRecord(j, op) \in JobRecord
  <2>1. record[j] \in JobRecord
    BY <1>1 DEF Inv, Working, JobAt
  <2>2. {"running", "pausing", "resuming", "stopping"} \subseteq Transitional
    BY DEF Transitional
  <2> QED
    BY <2>1, <2>2 DEF JobRecord, RequestedRecord, Requests
<1>2. \A j \in Jobs, s \in Transitional \cup Terminal, b, f \in BOOLEAN :
         [state |-> s, cancel |-> b, final |-> f] \in JobRecord
  BY DEF JobRecord
<1>3. \A j \in Jobs : ReportedState(j) \in Transitional
  BY DEF ReportedState, Transitional
<1> QED
  BY <1>1, <1>2, <1>3

\* handle.record is copied: the thread has a write under way, on j.
LEMMA CopiesFacts ==
    ASSUME CallTypes, NEW th \in Threads, NEW j \in Jobs, NEW copy \in JobRecord,
           Copies(th, j, copy)
    PROVE  /\ write' \in [Threads -> Writes]
           /\ write'[th] = [step |-> "persist", job |-> j, copy |-> copy]
           /\ \A o \in Threads : o # th => write'[o] = write[o]
BY DEF CallTypes, Copies, Writes

\* A job whose worker is somewhere in _run_job has been started.
LEMMA Started ==
    ASSUME Inv, NEW j \in Jobs, phase[j] # "idle"
    PROVE  /\ future[j] \in {"running", "done"} /\ job_type[j] \in Types
           /\ job_type[j] # None /\ record[j] \in JobRecord
<1>1. WorkerTypes /\ RuntimeTypes
  BY TypeParts DEF Inv
<1> QED
  BY <1>1 DEF Inv, Working, JobAt, WorkerTypes, RuntimeTypes


\* The handles keep their types.
LEMMA HandleTypesStep ==
    Inv /\ [Next]_vars
  => HandleTypes'
<1> SUFFICES ASSUME Inv, [Next]_vars
             PROVE  HandleTypes'
  OBVIOUS
<1>t. HandleTypes /\ RuntimeTypes /\ WorkerTypes /\ CallTypes
  BY TypeParts DEF Inv
<1>1. ASSUME NEW j \in Jobs, Dispatch(j) PROVE  HandleTypes'
  BY <1>1, <1>t DEF Dispatch, HandleTypes, handleVars, runtimeVars, workerVars, vars
<1>2. ASSUME NEW j \in Jobs, MarkStarted(j) PROVE  HandleTypes'
  BY <1>2, <1>t DEF MarkStarted, HandleTypes, handleVars, runtimeVars, workerVars, vars
<1>3. ASSUME NEW j \in Jobs, SetJobAttachment(j) PROVE  HandleTypes'
  BY <1>3, <1>t DEF SetJobAttachment, HandleTypes, handleVars, runtimeVars, workerVars, vars
<1>4. ASSUME NEW j \in Jobs, Update(j) PROVE  HandleTypes'
  BY <1>4, <1>t DEF Update, HandleTypes, handleVars, runtimeVars, workerVars, vars
<1>5. ASSUME NEW j \in Jobs, RunnerEnds(j) PROVE  HandleTypes'
  BY <1>5, <1>t DEF RunnerEnds, HandleTypes, handleVars, runtimeVars, workerVars, vars
<1>6. ASSUME NEW j \in Jobs, MarkFinished(j) PROVE  HandleTypes'
  BY <1>6, <1>t DEF MarkFinished, HandleTypes, handleVars, runtimeVars, workerVars, vars
<1>7. ASSUME NEW j \in Jobs, WorkerAssign(j) PROVE  HandleTypes'
  <2>1. write[j].step # "none" /\ j \in Threads
    BY <1>7, ThreadFacts DEF WorkerAssign, Assigns
  <2>2. write[j].job \in Jobs /\ write[j].copy \in JobRecord
    BY <2>1 DEF Inv, Writing, WriteAt
  <2> QED
    BY <1>7, <1>t, <2>2 DEF WorkerAssign, Assigns, HandleTypes, handleVars, runtimeVars, workerVars
<1>8. ASSUME NEW j \in Jobs, Cleanup(j) PROVE  HandleTypes'
  BY <1>8, <1>t DEF Cleanup, HandleTypes, handleVars, runtimeVars, workerVars, vars
<1>9. ASSUME NEW j \in Jobs, FutureDone(j) PROVE  HandleTypes'
  BY <1>9, <1>t DEF FutureDone, HandleTypes, handleVars, runtimeVars, workerVars, vars
<1>10. ASSUME NEW th \in Threads, Persist(th) PROVE  HandleTypes'
  <2>1. write[th].step # "none" /\ th \in Threads
    BY <1>10, ThreadFacts DEF Persist
  <2>2. write[th].job \in Jobs /\ write[th].copy \in JobRecord
    BY <2>1 DEF Inv, Writing, WriteAt
  <2> QED
    BY <1>10, <1>t, <2>2 DEF Persist, HandleTypes, handleVars, runtimeVars, workerVars
<1>11. ASSUME NEW c \in Callers, StartPersist(c) PROVE  HandleTypes'
  BY <1>11, <1>t DEF StartPersist, HandleTypes, JobRecord, Transitional
<1>12. ASSUME NEW c \in Callers, StartSubmit(c) PROVE  HandleTypes'
  BY <1>12, <1>t DEF StartSubmit, HandleTypes, handleVars, runtimeVars, workerVars, vars
<1>13. ASSUME NEW c \in Callers, StartRegister(c) PROVE  HandleTypes'
  BY <1>13, <1>t DEF StartRegister, HandleTypes, handleVars, runtimeVars, workerVars, vars
<1>14. ASSUME NEW c \in Callers, RequestApply(c) PROVE  HandleTypes'
  <2>1. call[c].job \in Jobs
    BY <1>14 DEF RequestApply, Inv, Calling, CallAt
  <2> QED
    BY <1>14, <1>t, <2>1 DEF RequestApply, HandleTypes
<1>15. ASSUME NEW c \in Callers, RequestAssign(c) PROVE  HandleTypes'
  <2>1. write[c].step # "none" /\ c \in Threads
    BY <1>15, ThreadFacts DEF RequestAssign, Assigns
  <2>2. write[c].job \in Jobs /\ write[c].copy \in JobRecord
    BY <2>1 DEF Inv, Writing, WriteAt
  <2> QED
    BY <1>15, <1>t, <2>2 DEF RequestAssign, Assigns, HandleTypes, handleVars, runtimeVars, workerVars
<1>16. ASSUME NEW c \in Callers, NEW t \in Types, ActiveJob(c, t) PROVE  HandleTypes'
  BY <1>16, <1>t DEF ActiveJob, HandleTypes, handleVars, runtimeVars, workerVars, vars
<1>17. ASSUME NEW c \in Callers, NEW t \in Types, StartCheck(c, t) PROVE  HandleTypes'
  BY <1>17, <1>t DEF StartCheck, HandleTypes, handleVars, runtimeVars, workerVars, vars
<1>18. ASSUME NEW c \in Callers, NEW t \in Types, NEW op \in Requests, RequestLookup(c, t, op)
      PROVE  HandleTypes'
  BY <1>18, <1>t DEF RequestLookup, HandleTypes, handleVars, runtimeVars, workerVars, vars
<1>19. ASSUME Shutdown PROVE  HandleTypes'
  BY <1>19, <1>t DEF Shutdown, HandleTypes, handleVars, runtimeVars, workerVars, vars
<1>20. CASE UNCHANGED vars
  BY <1>20, <1>t DEF HandleTypes, handleVars, runtimeVars, workerVars, vars
<1> QED
  BY <1>1, <1>2, <1>3, <1>4, <1>5, <1>6, <1>7, <1>8, <1>9, <1>10, <1>11, <1>12, <1>13,
     <1>14, <1>15, <1>16, <1>17, <1>18, <1>19, <1>20 DEF Next, WorkerStep, CallStep, NewCall, Threads

\* The runtime's dictionaries keep their types.
LEMMA RuntimeTypesStep ==
    Inv /\ [Next]_vars
  => RuntimeTypes'
<1> SUFFICES ASSUME Inv, [Next]_vars
             PROVE  RuntimeTypes'
  OBVIOUS
<1>t. HandleTypes /\ RuntimeTypes /\ WorkerTypes /\ CallTypes
  BY TypeParts DEF Inv
<1>1. ASSUME NEW j \in Jobs, Dispatch(j) PROVE  RuntimeTypes'
  BY <1>1, <1>t DEF Dispatch, RuntimeTypes, handleVars, runtimeVars, workerVars, vars
<1>2. ASSUME NEW j \in Jobs, MarkStarted(j) PROVE  RuntimeTypes'
  BY <1>2, <1>t DEF MarkStarted, RuntimeTypes, handleVars, runtimeVars, workerVars, vars
<1>3. ASSUME NEW j \in Jobs, SetJobAttachment(j) PROVE  RuntimeTypes'
  BY <1>3, <1>t DEF SetJobAttachment, RuntimeTypes, handleVars, runtimeVars, workerVars, vars
<1>4. ASSUME NEW j \in Jobs, Update(j) PROVE  RuntimeTypes'
  BY <1>4, <1>t DEF Update, RuntimeTypes, handleVars, runtimeVars, workerVars, vars
<1>5. ASSUME NEW j \in Jobs, RunnerEnds(j) PROVE  RuntimeTypes'
  BY <1>5, <1>t DEF RunnerEnds, RuntimeTypes, handleVars, runtimeVars, workerVars, vars
<1>6. ASSUME NEW j \in Jobs, MarkFinished(j) PROVE  RuntimeTypes'
  BY <1>6, <1>t DEF MarkFinished, RuntimeTypes, handleVars, runtimeVars, workerVars, vars
<1>7. ASSUME NEW j \in Jobs, WorkerAssign(j) PROVE  RuntimeTypes'
  BY <1>7, <1>t DEF WorkerAssign, RuntimeTypes, handleVars, runtimeVars, workerVars, vars
<1>8. ASSUME NEW j \in Jobs, Cleanup(j) PROVE  RuntimeTypes'
  BY <1>8, <1>t DEF Cleanup, ActiveAfter, AttachmentsAfter, RuntimeTypes, handleVars, runtimeVars, workerVars
<1>9. ASSUME NEW j \in Jobs, FutureDone(j) PROVE  RuntimeTypes'
  BY <1>9, <1>t DEF FutureDone, RuntimeTypes, handleVars, runtimeVars, workerVars, vars
<1>10. ASSUME NEW th \in Threads, Persist(th) PROVE  RuntimeTypes'
  BY <1>10, <1>t DEF Persist, RuntimeTypes, handleVars, runtimeVars, workerVars, vars
<1>11. ASSUME NEW c \in Callers, StartPersist(c) PROVE  RuntimeTypes'
  <2>1. call[c].type \in Types
    BY <1>11 DEF StartPersist, Inv, Calling, CallAt
  <2> QED
    BY <1>11, <1>t, <2>1 DEF StartPersist, RuntimeTypes
<1>12. ASSUME NEW c \in Callers, StartSubmit(c) PROVE  RuntimeTypes'
  BY <1>12, <1>t DEF StartSubmit, RuntimeTypes, handleVars, runtimeVars, workerVars, vars
<1>13. ASSUME NEW c \in Callers, StartRegister(c) PROVE  RuntimeTypes'
  <2>1. call[c].job \in Jobs
    BY <1>13 DEF StartRegister, Inv, Calling, CallAt
  <2> QED
    BY <1>13, <1>t, <2>1 DEF StartRegister, RuntimeTypes
<1>14. ASSUME NEW c \in Callers, RequestApply(c) PROVE  RuntimeTypes'
  BY <1>14, <1>t DEF RequestApply, RuntimeTypes, handleVars, runtimeVars, workerVars, vars
<1>15. ASSUME NEW c \in Callers, RequestAssign(c) PROVE  RuntimeTypes'
  BY <1>15, <1>t DEF RequestAssign, RuntimeTypes, handleVars, runtimeVars, workerVars, vars
<1>16. ASSUME NEW c \in Callers, NEW t \in Types, ActiveJob(c, t) PROVE  RuntimeTypes'
  BY <1>16, <1>t DEF ActiveJob, AfterPeek, RuntimeTypes, handleVars, runtimeVars, workerVars
<1>17. ASSUME NEW c \in Callers, NEW t \in Types, StartCheck(c, t) PROVE  RuntimeTypes'
  BY <1>17, <1>t DEF StartCheck, RuntimeTypes, handleVars, runtimeVars, workerVars, vars
<1>18. ASSUME NEW c \in Callers, NEW t \in Types, NEW op \in Requests, RequestLookup(c, t, op)
      PROVE  RuntimeTypes'
  BY <1>18, <1>t DEF RequestLookup, RuntimeTypes, handleVars, runtimeVars, workerVars, vars
<1>19. ASSUME Shutdown PROVE  RuntimeTypes'
  BY <1>19, <1>t DEF Shutdown, RuntimeTypes, handleVars, runtimeVars, workerVars, vars
<1>20. CASE UNCHANGED vars
  BY <1>20, <1>t DEF RuntimeTypes, handleVars, runtimeVars, workerVars, vars
<1> QED
  BY <1>1, <1>2, <1>3, <1>4, <1>5, <1>6, <1>7, <1>8, <1>9, <1>10, <1>11, <1>12, <1>13,
     <1>14, <1>15, <1>16, <1>17, <1>18, <1>19, <1>20 DEF Next, WorkerStep, CallStep, NewCall, Threads

\* The workers keep their types.
LEMMA WorkerTypesStep ==
    Inv /\ [Next]_vars
  => WorkerTypes'
<1> SUFFICES ASSUME Inv, [Next]_vars
             PROVE  WorkerTypes'
  OBVIOUS
<1>t. HandleTypes /\ RuntimeTypes /\ WorkerTypes /\ CallTypes
  BY TypeParts DEF Inv
<1>1. ASSUME NEW j \in Jobs, Dispatch(j) PROVE  WorkerTypes'
  BY <1>1, <1>t DEF Dispatch, WorkerTypes, handleVars, runtimeVars, workerVars, vars
<1>2. ASSUME NEW j \in Jobs, MarkStarted(j) PROVE  WorkerTypes'
  BY <1>2, <1>t DEF MarkStarted, WorkerTypes, handleVars, runtimeVars, workerVars, vars
<1>3. ASSUME NEW j \in Jobs, SetJobAttachment(j) PROVE  WorkerTypes'
  BY <1>3, <1>t DEF SetJobAttachment, WorkerTypes, handleVars, runtimeVars, workerVars, vars
<1>4. ASSUME NEW j \in Jobs, Update(j) PROVE  WorkerTypes'
  BY <1>4, <1>t DEF Update, WorkerTypes, handleVars, runtimeVars, workerVars, vars
<1>5. ASSUME NEW j \in Jobs, RunnerEnds(j) PROVE  WorkerTypes'
  BY <1>5, <1>t DEF RunnerEnds, WorkerTypes, handleVars, runtimeVars, workerVars, vars
<1>6. ASSUME NEW j \in Jobs, MarkFinished(j) PROVE  WorkerTypes'
  BY <1>6, <1>t DEF MarkFinished, WorkerTypes, handleVars, runtimeVars, workerVars, vars
<1>7. ASSUME NEW j \in Jobs, WorkerAssign(j) PROVE  WorkerTypes'
  BY <1>7, <1>t DEF WorkerAssign, AfterAssign, WorkerTypes, handleVars, runtimeVars, workerVars
<1>8. ASSUME NEW j \in Jobs, Cleanup(j) PROVE  WorkerTypes'
  BY <1>8, <1>t DEF Cleanup, WorkerTypes, handleVars, runtimeVars, workerVars, vars
<1>9. ASSUME NEW j \in Jobs, FutureDone(j) PROVE  WorkerTypes'
  BY <1>9, <1>t DEF FutureDone, WorkerTypes, handleVars, runtimeVars, workerVars, vars
<1>10. ASSUME NEW th \in Threads, Persist(th) PROVE  WorkerTypes'
  BY <1>10, <1>t DEF Persist, WorkerTypes, handleVars, runtimeVars, workerVars, vars
<1>11. ASSUME NEW c \in Callers, StartPersist(c) PROVE  WorkerTypes'
  BY <1>11, <1>t DEF StartPersist, WorkerTypes, handleVars, runtimeVars, workerVars, vars
<1>12. ASSUME NEW c \in Callers, StartSubmit(c) PROVE  WorkerTypes'
  BY <1>12, <1>t DEF StartSubmit, WorkerTypes, handleVars, runtimeVars, workerVars, vars
<1>13. ASSUME NEW c \in Callers, StartRegister(c) PROVE  WorkerTypes'
  BY <1>13, <1>t DEF StartRegister, WorkerTypes, handleVars, runtimeVars, workerVars, vars
<1>14. ASSUME NEW c \in Callers, RequestApply(c) PROVE  WorkerTypes'
  BY <1>14, <1>t DEF RequestApply, WorkerTypes, handleVars, runtimeVars, workerVars, vars
<1>15. ASSUME NEW c \in Callers, RequestAssign(c) PROVE  WorkerTypes'
  BY <1>15, <1>t DEF RequestAssign, WorkerTypes, handleVars, runtimeVars, workerVars, vars
<1>16. ASSUME NEW c \in Callers, NEW t \in Types, ActiveJob(c, t) PROVE  WorkerTypes'
  BY <1>16, <1>t DEF ActiveJob, WorkerTypes, handleVars, runtimeVars, workerVars, vars
<1>17. ASSUME NEW c \in Callers, NEW t \in Types, StartCheck(c, t) PROVE  WorkerTypes'
  BY <1>17, <1>t DEF StartCheck, WorkerTypes, handleVars, runtimeVars, workerVars, vars
<1>18. ASSUME NEW c \in Callers, NEW t \in Types, NEW op \in Requests, RequestLookup(c, t, op)
      PROVE  WorkerTypes'
  BY <1>18, <1>t DEF RequestLookup, WorkerTypes, handleVars, runtimeVars, workerVars, vars
<1>19. ASSUME Shutdown PROVE  WorkerTypes'
  BY <1>19, <1>t DEF Shutdown, WorkerTypes, handleVars, runtimeVars, workerVars, vars
<1>20. CASE UNCHANGED vars
  BY <1>20, <1>t DEF WorkerTypes, handleVars, runtimeVars, workerVars, vars
<1> QED
  BY <1>1, <1>2, <1>3, <1>4, <1>5, <1>6, <1>7, <1>8, <1>9, <1>10, <1>11, <1>12, <1>13,
     <1>14, <1>15, <1>16, <1>17, <1>18, <1>19, <1>20 DEF Next, WorkerStep, CallStep, NewCall, Threads

\* The threads keep their types.
LEMMA CallTypesStep ==
    Inv /\ [Next]_vars
  => CallTypes'
<1> SUFFICES ASSUME Inv, [Next]_vars
             PROVE  CallTypes'
  OBVIOUS
<1>t. HandleTypes /\ RuntimeTypes /\ WorkerTypes /\ CallTypes
  BY TypeParts DEF Inv
<1>1. ASSUME NEW j \in Jobs, Dispatch(j) PROVE  CallTypes'
  BY <1>1, <1>t DEF Dispatch, CallTypes, handleVars, runtimeVars, workerVars, vars
<1>2. ASSUME NEW j \in Jobs, MarkStarted(j) PROVE  CallTypes'
  <2>1. j \in Threads /\ [record[j] EXCEPT !.state = "running"] \in JobRecord
    BY <1>2, <1>t, ThreadFacts, RecordsMade, Started DEF MarkStarted
  <2> QED
    BY <1>2, <1>t, <2>1, CopiesFacts DEF MarkStarted, CallTypes, handleVars, runtimeVars, workerVars
<1>3. ASSUME NEW j \in Jobs, SetJobAttachment(j) PROVE  CallTypes'
  BY <1>3, <1>t DEF SetJobAttachment, CallTypes, handleVars, runtimeVars, workerVars, vars
<1>4. ASSUME NEW j \in Jobs, Update(j) PROVE  CallTypes'
  <2> DEFINE copy == [state |-> ReportedState(j), cancel |-> j \in stop_event,
                      final |-> FALSE]
  <2>1. ReportedState(j) \in Transitional
    BY RecordsMade
  <2>2. j \in Threads /\ copy \in JobRecord
    BY <2>1, ThreadFacts DEF JobRecord
  <2> QED
    BY <1>4, <1>t, <2>2, CopiesFacts DEF Update, CallTypes, handleVars, runtimeVars, workerVars
<1>5. ASSUME NEW j \in Jobs, RunnerEnds(j) PROVE  CallTypes'
  BY <1>5, <1>t DEF RunnerEnds, CallTypes, handleVars, runtimeVars, workerVars, vars
<1>6. ASSUME NEW j \in Jobs, MarkFinished(j) PROVE  CallTypes'
  <2>1. j \in Threads /\ FinishedRecord(j) \in JobRecord
    BY <1>6, ThreadFacts DEF MarkFinished, FinishedRecord, JobRecord, Inv, Working, JobAt
  <2> QED
    BY <1>6, <1>t, <2>1, CopiesFacts DEF MarkFinished, CallTypes, handleVars, runtimeVars, workerVars
<1>7. ASSUME NEW j \in Jobs, WorkerAssign(j) PROVE  CallTypes'
  BY <1>7, <1>t, ThreadFacts DEF WorkerAssign, Assigns, NoWrite, CallTypes, Writes
<1>8. ASSUME NEW j \in Jobs, Cleanup(j) PROVE  CallTypes'
  BY <1>8, <1>t DEF Cleanup, CallTypes, handleVars, runtimeVars, workerVars, vars
<1>9. ASSUME NEW j \in Jobs, FutureDone(j) PROVE  CallTypes'
  BY <1>9, <1>t DEF FutureDone, CallTypes, handleVars, runtimeVars, workerVars, vars
<1>10. ASSUME NEW th \in Threads, Persist(th) PROVE  CallTypes'
  BY <1>10, <1>t DEF Persist, CallTypes, Writes
<1>11. ASSUME NEW c \in Callers, StartPersist(c) PROVE  CallTypes'
  <2>1. PICK j \in Jobs : call' = [call EXCEPT ![c].op = "submit", ![c].job = j]
    BY <1>11 DEF StartPersist
  <2>2. call[c] \in Calls /\ [call[c] EXCEPT !.op = "submit", !.job = j] \in Calls
    BY <1>t DEF CallTypes, Calls
  <2>3. call' = [call EXCEPT ![c] = [call[c] EXCEPT !.op = "submit", !.job = j]]
    BY <1>t, <2>1, <2>2 DEF CallTypes
  <2>4. call' \in [Callers -> Calls]
    BY <1>t, <2>2, <2>3 DEF CallTypes
  <2> QED
    BY <1>11, <1>t, <2>4 DEF StartPersist, CallTypes, workerVars
<1>12. ASSUME NEW c \in Callers, StartSubmit(c) PROVE  CallTypes'
  BY <1>12, <1>t DEF StartSubmit, CallTypes, Calls, Idle, handleVars, runtimeVars, workerVars
<1>13. ASSUME NEW c \in Callers, StartRegister(c) PROVE  CallTypes'
  BY <1>13, <1>t DEF StartRegister, CallTypes, Calls, Idle, handleVars, runtimeVars, workerVars
<1>14. ASSUME NEW c \in Callers, RequestApply(c) PROVE  CallTypes'
  <2> DEFINE job == call[c].job
             copy == RequestedRecord(job, call[c].op)
  <2>1. job \in Jobs /\ job_type[job] # None /\ call[c].op \in Requests
    BY <1>14 DEF RequestApply, Inv, Calling, CallAt, Working, JobAt
  <2>2. c \in Threads /\ copy \in JobRecord
    BY <2>1, ThreadFacts, RecordsMade
  <2>3. Copies(c, job, copy)
    BY <1>14 DEF RequestApply
  <2>4. write' \in [Threads -> Writes]
    BY <1>t, <2>1, <2>2, <2>3, CopiesFacts
  <2>5. call' \in [Callers -> Calls]
    BY <1>14, <1>t DEF RequestApply, CallTypes, Calls
  <2> QED
    BY <1>14, <1>t, <2>1, <2>4, <2>5 DEF RequestApply, CallTypes
<1>15. ASSUME NEW c \in Callers, RequestAssign(c) PROVE  CallTypes'
  BY <1>15, <1>t, ThreadFacts DEF RequestAssign, Assigns, NoWrite, Idle, CallTypes, Writes, Calls
<1>16. ASSUME NEW c \in Callers, NEW t \in Types, ActiveJob(c, t) PROVE  CallTypes'
  BY <1>16, <1>t DEF ActiveJob, BeginsCall, CallTypes, Calls, Idle, handleVars, runtimeVars, workerVars
<1>17. ASSUME NEW c \in Callers, NEW t \in Types, StartCheck(c, t) PROVE  CallTypes'
  BY <1>17, <1>t DEF StartCheck, BeginsCall, CallTypes, Calls, handleVars, runtimeVars, workerVars
<1>18. ASSUME NEW c \in Callers, NEW t \in Types, NEW op \in Requests, RequestLookup(c, t, op)
      PROVE  CallTypes'
  BY <1>18, <1>t DEF RequestLookup, BeginsCall, CallTypes, RuntimeTypes, Calls, handleVars, runtimeVars, workerVars
<1>19. ASSUME Shutdown PROVE  CallTypes'
  BY <1>19, <1>t DEF Shutdown, CallTypes, handleVars, runtimeVars, workerVars, vars
<1>20. CASE UNCHANGED vars
  BY <1>20, <1>t DEF CallTypes, handleVars, runtimeVars, workerVars, vars
<1> QED
  BY <1>1, <1>2, <1>3, <1>4, <1>5, <1>6, <1>7, <1>8, <1>9, <1>10, <1>11, <1>12, <1>13,
     <1>14, <1>15, <1>16, <1>17, <1>18, <1>19, <1>20 DEF Next, WorkerStep, CallStep, NewCall, Threads

JobsGrow ==
    /\ \A j \in Jobs : job_type[j] # None => job_type'[j] = job_type[j]
    /\ \A j \in Jobs : future[j] # "none" => future'[j] # "none"
    /\ \A j \in Jobs : future[j] \in {"running", "done"} => future'[j] \in {"running", "done"}

\* A type is drawn once, and what was given to the executor stays with it.
LEMMA Grows ==
    Inv /\ [Next]_vars
  => JobsGrow
<1> SUFFICES ASSUME Inv, [Next]_vars
             PROVE  JobsGrow
  OBVIOUS
<1>t. HandleTypes /\ RuntimeTypes /\ WorkerTypes /\ CallTypes
  BY TypeParts DEF Inv
<1>1. ASSUME NEW j \in Jobs, Dispatch(j) PROVE  JobsGrow
  BY <1>1, <1>t DEF Dispatch, WorkerTypes, JobsGrow, runtimeVars
<1>2. ASSUME NEW j \in Jobs, MarkStarted(j) PROVE  JobsGrow
  BY <1>2, <1>t DEF MarkStarted, JobsGrow, handleVars, runtimeVars, workerVars, vars
<1>3. ASSUME NEW j \in Jobs, SetJobAttachment(j) PROVE  JobsGrow
  BY <1>3, <1>t DEF SetJobAttachment, JobsGrow, handleVars, runtimeVars, workerVars, vars
<1>4. ASSUME NEW j \in Jobs, Update(j) PROVE  JobsGrow
  BY <1>4, <1>t DEF Update, JobsGrow, handleVars, runtimeVars, workerVars, vars
<1>5. ASSUME NEW j \in Jobs, RunnerEnds(j) PROVE  JobsGrow
  BY <1>5, <1>t DEF RunnerEnds, JobsGrow, handleVars, runtimeVars, workerVars, vars
<1>6. ASSUME NEW j \in Jobs, MarkFinished(j) PROVE  JobsGrow
  BY <1>6, <1>t DEF MarkFinished, JobsGrow, handleVars, runtimeVars, workerVars, vars
<1>7. ASSUME NEW j \in Jobs, WorkerAssign(j) PROVE  JobsGrow
  BY <1>7, <1>t DEF WorkerAssign, JobsGrow, handleVars, runtimeVars, workerVars, vars
<1>8. ASSUME NEW j \in Jobs, Cleanup(j) PROVE  JobsGrow
  BY <1>8, <1>t DEF Cleanup, JobsGrow, handleVars, runtimeVars, workerVars, vars
<1>9. ASSUME NEW j \in Jobs, FutureDone(j) PROVE  JobsGrow
  BY <1>9, <1>t DEF FutureDone, WorkerTypes, JobsGrow, runtimeVars
<1>10. ASSUME NEW th \in Threads, Persist(th) PROVE  JobsGrow
  BY <1>10, <1>t DEF Persist, JobsGrow, handleVars, runtimeVars, workerVars, vars
<1>11. ASSUME NEW c \in Callers, StartPersist(c) PROVE  JobsGrow
  BY <1>11, <1>t DEF StartPersist, RuntimeTypes, JobsGrow, workerVars
<1>12. ASSUME NEW c \in Callers, StartSubmit(c) PROVE  JobsGrow
  <2>1. call[c].op = "submit" => call[c].job \in Jobs /\ future[call[c].job] = "none"
    BY DEF Inv, Calling, CallAt
  <2> QED
    BY <1>12, <1>t, <2>1 DEF StartSubmit, WorkerTypes, JobsGrow, runtimeVars
<1>13. ASSUME NEW c \in Callers, StartRegister(c) PROVE  JobsGrow
  BY <1>13, <1>t DEF StartRegister, JobsGrow, handleVars, runtimeVars, workerVars, vars
<1>14. ASSUME NEW c \in Callers, RequestApply(c) PROVE  JobsGrow
  BY <1>14, <1>t DEF RequestApply, JobsGrow, handleVars, runtimeVars, workerVars, vars
<1>15. ASSUME NEW c \in Callers, RequestAssign(c) PROVE  JobsGrow
  BY <1>15, <1>t DEF RequestAssign, JobsGrow, handleVars, runtimeVars, workerVars, vars
<1>16. ASSUME NEW c \in Callers, NEW t \in Types, ActiveJob(c, t) PROVE  JobsGrow
  BY <1>16, <1>t DEF ActiveJob, JobsGrow, handleVars, runtimeVars, workerVars, vars
<1>17. ASSUME NEW c \in Callers, NEW t \in Types, StartCheck(c, t) PROVE  JobsGrow
  BY <1>17, <1>t DEF StartCheck, JobsGrow, handleVars, runtimeVars, workerVars, vars
<1>18. ASSUME NEW c \in Callers, NEW t \in Types, NEW op \in Requests, RequestLookup(c, t, op)
      PROVE  JobsGrow
  BY <1>18, <1>t DEF RequestLookup, JobsGrow, handleVars, runtimeVars, workerVars, vars
<1>19. ASSUME Shutdown PROVE  JobsGrow
  BY <1>19, <1>t DEF Shutdown, JobsGrow, handleVars, runtimeVars, workerVars, vars
<1>20. CASE UNCHANGED vars
  BY <1>20, <1>t DEF JobsGrow, handleVars, runtimeVars, workerVars, vars
<1> QED
  BY <1>1, <1>2, <1>3, <1>4, <1>5, <1>6, <1>7, <1>8, <1>9, <1>10, <1>11, <1>12, <1>13,
     <1>14, <1>15, <1>16, <1>17, <1>18, <1>19, <1>20 DEF Next, WorkerStep, CallStep, NewCall, Threads

-----------------------------------------------------------------------------
(* The parts of the invariant.                                              *)

\* start_job draws an id nobody holds.
LEMMA StartFacts ==
    ASSUME Inv, NEW c \in Callers, StartPersist(c)
    PROVE  /\ call[c].op = "persist" /\ call[c].type \in Types
           /\ UNCHANGED <<workerVars, write, active_jobs, job_attachments>>
           /\ \E j \in Jobs :
                 /\ job_type[j] = None /\ future[j] = "none"
                 /\ job_type' = [job_type EXCEPT ![j] = call[c].type]
                 /\ call'[c] = [op |-> "submit", type |-> call[c].type, job |-> j]
                 /\ \A d \in Callers : d # c => call'[d] = call[d]
<1>1. RuntimeTypes /\ CallTypes
  BY TypeParts DEF Inv
<1>2. call[c].op = "persist" /\ call[c].type \in Types
  BY DEF StartPersist, Inv, Calling, CallAt
<1>3. PICK j \in Jobs : /\ job_type[j] = None
                       /\ job_type' = [job_type EXCEPT ![j] = call[c].type]
                       /\ call' = [call EXCEPT ![c].op = "submit", ![c].job = j]
  BY DEF StartPersist
<1>4. future[j] = "none"
  BY <1>3 DEF Inv, Working, JobAt
<1>5. call[c] \in Calls
  BY <1>1 DEF CallTypes
<1>6. /\ call'[c] = [op |-> "submit", type |-> call[c].type, job |-> j]
      /\ \A d \in Callers : d # c => call'[d] = call[d]
  BY <1>1, <1>3, <1>5 DEF CallTypes, Calls
<1> QED
  BY <1>2, <1>3, <1>4, <1>6 DEF StartPersist

\* A handle method that begins keeps the writes writes to started jobs.
LEMMA CopiesKeep ==
    ASSUME Inv, NEW th \in Threads, NEW j \in Jobs, NEW copy \in JobRecord,
           Copies(th, j, copy), job_type[j] # None, UNCHANGED job_type
    PROVE  Writing'
<1>1. CallTypes /\ Writing
  BY TypeParts DEF Inv
<1>2. /\ write'[th] = [step |-> "persist", job |-> j, copy |-> copy]
      /\ \A o \in Threads : o # th => write'[o] = write[o]
  BY <1>1, CopiesFacts
<1>3. ASSUME NEW o \in Threads PROVE WriteAt(o)'
  <2>1. CASE o = th
    BY <1>2, <2>1 DEF WriteAt
  <2>2. CASE o # th
    BY <1>1, <1>2, <2>2 DEF Writing, WriteAt
  <2> QED
    BY <2>1, <2>2
<1> QED
  BY <1>3 DEF Writing

\* Calls stay calls about jobs that exist.
LEMMA CallingStep ==
    Inv /\ [Next]_vars
  => Calling'
<1> SUFFICES ASSUME Inv, [Next]_vars
             PROVE  Calling'
  OBVIOUS
<1>i. Calling
  BY DEF Inv
<1>t. HandleTypes /\ RuntimeTypes /\ WorkerTypes /\ CallTypes
  BY TypeParts DEF Inv
<1>1. ASSUME NEW j \in Jobs, Dispatch(j) PROVE  Calling'
  BY <1>1, <1>t, <1>i DEF Dispatch, Calling, CallAt, OwnSubmit, WorkerTypes, RuntimeTypes, CallTypes, handleVars, runtimeVars, workerVars, vars
<1>2. ASSUME NEW j \in Jobs, MarkStarted(j) PROVE  Calling'
  BY <1>2, <1>t, <1>i DEF MarkStarted, Calling, CallAt, OwnSubmit, WorkerTypes, RuntimeTypes, CallTypes, handleVars, runtimeVars, workerVars, vars
<1>3. ASSUME NEW j \in Jobs, SetJobAttachment(j) PROVE  Calling'
  BY <1>3, <1>t, <1>i DEF SetJobAttachment, Calling, CallAt, OwnSubmit, WorkerTypes, RuntimeTypes, CallTypes, handleVars, runtimeVars, workerVars, vars
<1>4. ASSUME NEW j \in Jobs, Update(j) PROVE  Calling'
  BY <1>4, <1>t, <1>i DEF Update, Calling, CallAt, OwnSubmit, WorkerTypes, RuntimeTypes, CallTypes, handleVars, runtimeVars, workerVars, vars
<1>5. ASSUME NEW j \in Jobs, RunnerEnds(j) PROVE  Calling'
  BY <1>5, <1>t, <1>i DEF RunnerEnds, Calling, CallAt, OwnSubmit, WorkerTypes, RuntimeTypes, CallTypes, handleVars, runtimeVars, workerVars, vars
<1>6. ASSUME NEW j \in Jobs, MarkFinished(j) PROVE  Calling'
  BY <1>6, <1>t, <1>i DEF MarkFinished, Calling, CallAt, OwnSubmit, WorkerTypes, RuntimeTypes, CallTypes, handleVars, runtimeVars, workerVars, vars
<1>7. ASSUME NEW j \in Jobs, WorkerAssign(j) PROVE  Calling'
  BY <1>7, <1>t, <1>i DEF WorkerAssign, Calling, CallAt, OwnSubmit, WorkerTypes, RuntimeTypes, CallTypes, handleVars, runtimeVars, workerVars, vars
<1>8. ASSUME NEW j \in Jobs, Cleanup(j) PROVE  Calling'
  BY <1>8, <1>t, <1>i DEF Cleanup, Calling, CallAt, OwnSubmit, WorkerTypes, RuntimeTypes, CallTypes, handleVars, runtimeVars, workerVars, vars
<1>9. ASSUME NEW j \in Jobs, FutureDone(j) PROVE  Calling'
  BY <1>9, <1>t, <1>i DEF FutureDone, Calling, CallAt, OwnSubmit, WorkerTypes, RuntimeTypes, CallTypes, handleVars, runtimeVars, workerVars, vars
<1>10. ASSUME NEW th \in Threads, Persist(th) PROVE  Calling'
  BY <1>10, <1>t, <1>i DEF Persist, Calling, CallAt, OwnSubmit, WorkerTypes, RuntimeTypes, CallTypes, handleVars, runtimeVars, workerVars, vars
<1>11. ASSUME NEW c \in Callers, StartPersist(c) PROVE  Calling'
  <2>1. PICK j \in Jobs :
           /\ job_type[j] = None /\ future[j] = "none" /\ UNCHANGED workerVars
           /\ job_type' = [job_type EXCEPT ![j] = call[c].type]
           /\ call'[c] = [op |-> "submit", type |-> call[c].type, job |-> j]
           /\ \A d \in Callers : d # c => call'[d] = call[d]
    BY <1>11, StartFacts
  <2>2. call[c].type \in Types
    BY <1>11, StartFacts
  <2>3. ASSUME NEW d \in Callers PROVE CallAt(d)'
    <3>1. CASE d = c
      BY <1>t, <2>1, <2>2, <3>1 DEF CallAt, Requests, RuntimeTypes, workerVars
    <3>2. CASE d # c
      BY <1>t, <1>i, <2>1, <3>2, ThreadFacts
      DEF Calling, CallAt, RuntimeTypes, workerVars
    <3> QED
      BY <3>1, <3>2
  <2>4. OwnSubmit'
    BY <1>i, <2>1, ThreadFacts DEF Calling, CallAt, OwnSubmit
  <2> QED
    BY <2>3, <2>4 DEF Calling
<1>12. ASSUME NEW c \in Callers, StartSubmit(c) PROVE  Calling'
  <2>1. /\ call[c].op = "submit" /\ call[c].job \in Jobs /\ UNCHANGED job_type
        /\ \A d \in Callers : d # c => call'[d] = call[d]
        /\ call'[c] = [call[c] EXCEPT !.op = "register"] \/ call'[c] = Idle
    BY <1>12, <1>t, <1>i
    DEF StartSubmit, Calling, CallAt, CallTypes, runtimeVars
  <2>2. \/ future' = [future EXCEPT ![call[c].job] = "queued"]
        \/ UNCHANGED future /\ call'[c] = Idle
    BY <1>12, <1>t DEF StartSubmit, CallTypes
  <2>3. /\ call'[c].op \in {"register", "idle"}
        /\ call'[c].op = "register" =>
              /\ call'[c].job = call[c].job /\ call'[c].type = call[c].type
              /\ future'[call[c].job] = "queued"
    BY <1>t, <2>1, <2>2 DEF Idle, CallTypes, Calls, WorkerTypes
  <2>4. ASSUME NEW d \in Callers PROVE CallAt(d)'
    <3>1. CASE d = c
      BY <1>i, <2>1, <2>3, <3>1 DEF Calling, CallAt, Requests
    <3>2. ASSUME d # c PROVE CallAt(d)'
      BY <1>t, <1>i, <2>1, <2>2, <3>2 DEF Calling, CallAt, OwnSubmit, Requests, WorkerTypes
    <3> QED
      BY <3>1, <3>2
  <2>5. OwnSubmit'
    BY <1>i, <2>1, <2>3 DEF Calling, OwnSubmit
  <2> QED
    BY <2>4, <2>5 DEF Calling
<1>13. ASSUME NEW c \in Callers, StartRegister(c) PROVE  Calling'
  BY <1>13, <1>t, <1>i, ThreadFacts DEF StartRegister, Idle, Requests, Calling, CallAt, OwnSubmit, WorkerTypes, RuntimeTypes, CallTypes, handleVars, runtimeVars, workerVars
<1>14. ASSUME NEW c \in Callers, RequestApply(c) PROVE  Calling'
  BY <1>14, <1>t, <1>i, ThreadFacts DEF RequestApply, Requests, Calling, CallAt, OwnSubmit, WorkerTypes, RuntimeTypes, CallTypes, handleVars, runtimeVars, workerVars
<1>15. ASSUME NEW c \in Callers, RequestAssign(c) PROVE  Calling'
  BY <1>15, <1>t, <1>i, ThreadFacts DEF RequestAssign, Idle, Requests, Calling, CallAt, OwnSubmit, WorkerTypes, RuntimeTypes, CallTypes, handleVars, runtimeVars, workerVars
<1>16. ASSUME NEW c \in Callers, NEW t \in Types, ActiveJob(c, t) PROVE  Calling'
  BY <1>16, <1>t, <1>i, ThreadFacts DEF ActiveJob, BeginsCall, Idle, Requests, Calling, CallAt, OwnSubmit, WorkerTypes, RuntimeTypes, CallTypes, handleVars, runtimeVars, workerVars
<1>17. ASSUME NEW c \in Callers, NEW t \in Types, StartCheck(c, t) PROVE  Calling'
  BY <1>17, <1>t, <1>i, ThreadFacts DEF StartCheck, BeginsCall, Requests, Calling, CallAt, OwnSubmit, WorkerTypes, RuntimeTypes, CallTypes, handleVars, runtimeVars, workerVars
<1>18. ASSUME NEW c \in Callers, NEW t \in Types, NEW op \in Requests, RequestLookup(c, t, op)
      PROVE  Calling'
  BY <1>18, <1>t, <1>i, ThreadFacts DEF RequestLookup, BeginsCall, Requests, Inv, Entered, EntryAt, Calling, CallAt, OwnSubmit, WorkerTypes, RuntimeTypes, CallTypes, handleVars, runtimeVars, workerVars
<1>19. ASSUME Shutdown PROVE  Calling'
  BY <1>19, <1>t, <1>i DEF Shutdown, Calling, CallAt, OwnSubmit, WorkerTypes, RuntimeTypes, CallTypes, handleVars, runtimeVars, workerVars, vars
<1>20. CASE UNCHANGED vars
  BY <1>20, <1>t, <1>i DEF Calling, CallAt, OwnSubmit, WorkerTypes, RuntimeTypes, CallTypes, handleVars, runtimeVars, workerVars, vars
<1> QED
  BY <1>1, <1>2, <1>3, <1>4, <1>5, <1>6, <1>7, <1>8, <1>9, <1>10, <1>11, <1>12, <1>13,
     <1>14, <1>15, <1>16, <1>17, <1>18, <1>19, <1>20 DEF Next, WorkerStep, CallStep, NewCall, Threads

\* Writes stay writes to jobs that were started.
LEMMA WritingStep ==
    Inv /\ [Next]_vars
  => Writing'
<1> SUFFICES ASSUME Inv, [Next]_vars
             PROVE  Writing'
  OBVIOUS
<1>i. Writing
  BY DEF Inv
<1>t. HandleTypes /\ RuntimeTypes /\ WorkerTypes /\ CallTypes
  BY TypeParts DEF Inv
<1>1. ASSUME NEW j \in Jobs, Dispatch(j) PROVE  Writing'
  BY <1>1, <1>t, <1>i DEF Dispatch, Writing, WriteAt, RuntimeTypes, CallTypes, Writes, handleVars, runtimeVars, workerVars, vars
<1>2. ASSUME NEW j \in Jobs, MarkStarted(j) PROVE  Writing'
  <2>1. j \in Threads /\ [record[j] EXCEPT !.state = "running"] \in JobRecord
    BY <1>2, <1>t, ThreadFacts, RecordsMade, Started DEF MarkStarted
  <2>2. job_type[j] # None
    BY <1>2, Started DEF MarkStarted
  <2> QED
    BY <1>2, <2>1, <2>2, CopiesKeep DEF MarkStarted, runtimeVars
<1>3. ASSUME NEW j \in Jobs, SetJobAttachment(j) PROVE  Writing'
  BY <1>3, <1>t, <1>i DEF SetJobAttachment, Writing, WriteAt, RuntimeTypes, CallTypes, Writes, handleVars, runtimeVars, workerVars, vars
<1>4. ASSUME NEW j \in Jobs, Update(j) PROVE  Writing'
  <2> DEFINE copy == [state |-> ReportedState(j), cancel |-> j \in stop_event,
                      final |-> FALSE]
  <2>1. ReportedState(j) \in Transitional /\ job_type[j] # None
    BY <1>4, RecordsMade, Started DEF Update
  <2>2. j \in Threads /\ copy \in JobRecord
    BY <2>1, ThreadFacts DEF JobRecord
  <2> QED
    BY <1>4, <2>1, <2>2, CopiesKeep DEF Update, runtimeVars
<1>5. ASSUME NEW j \in Jobs, RunnerEnds(j) PROVE  Writing'
  BY <1>5, <1>t, <1>i DEF RunnerEnds, Writing, WriteAt, RuntimeTypes, CallTypes, Writes, handleVars, runtimeVars, workerVars, vars
<1>6. ASSUME NEW j \in Jobs, MarkFinished(j) PROVE  Writing'
  <2>1. j \in Threads /\ FinishedRecord(j) \in JobRecord
    BY <1>6, ThreadFacts DEF MarkFinished, FinishedRecord, JobRecord, Inv, Working, JobAt
  <2>2. job_type[j] # None
    BY <1>6, Started DEF MarkFinished
  <2> QED
    BY <1>6, <2>1, <2>2, CopiesKeep DEF MarkFinished, runtimeVars
<1>7. ASSUME NEW j \in Jobs, WorkerAssign(j) PROVE  Writing'
  BY <1>7, <1>t, <1>i DEF WorkerAssign, Assigns, NoWrite, Writing, WriteAt, RuntimeTypes, CallTypes, Writes, handleVars, runtimeVars, workerVars
<1>8. ASSUME NEW j \in Jobs, Cleanup(j) PROVE  Writing'
  BY <1>8, <1>t, <1>i DEF Cleanup, Writing, WriteAt, RuntimeTypes, CallTypes, Writes, handleVars, runtimeVars, workerVars, vars
<1>9. ASSUME NEW j \in Jobs, FutureDone(j) PROVE  Writing'
  BY <1>9, <1>t, <1>i DEF FutureDone, Writing, WriteAt, RuntimeTypes, CallTypes, Writes, handleVars, runtimeVars, workerVars, vars
<1>10. ASSUME NEW th \in Threads, Persist(th) PROVE  Writing'
  BY <1>10, <1>t, <1>i DEF Persist, Writing, WriteAt, RuntimeTypes, CallTypes, Writes, handleVars, runtimeVars, workerVars
<1>11. ASSUME NEW c \in Callers, StartPersist(c) PROVE  Writing'
  BY <1>11, <1>t, <1>i DEF StartPersist, Writing, WriteAt, RuntimeTypes, CallTypes, Writes, handleVars, runtimeVars, workerVars
<1>12. ASSUME NEW c \in Callers, StartSubmit(c) PROVE  Writing'
  BY <1>12, <1>t, <1>i DEF StartSubmit, Writing, WriteAt, RuntimeTypes, CallTypes, Writes, handleVars, runtimeVars, workerVars, vars
<1>13. ASSUME NEW c \in Callers, StartRegister(c) PROVE  Writing'
  BY <1>13, <1>t, <1>i DEF StartRegister, Writing, WriteAt, RuntimeTypes, CallTypes, Writes, handleVars, runtimeVars, workerVars, vars
<1>14. ASSUME NEW c \in Callers, RequestApply(c) PROVE  Writing'
  <2> DEFINE job == call[c].job
             copy == RequestedRecord(job, call[c].op)
  <2>1. job \in Jobs /\ job_type[job] # None /\ call[c].op \in Requests
    BY <1>14 DEF RequestApply, Inv, Calling, CallAt, Working, JobAt
  <2>2. c \in Threads /\ copy \in JobRecord
    BY <2>1, ThreadFacts, RecordsMade
  <2>3. Copies(c, job, copy) /\ UNCHANGED runtimeVars
    BY <1>14 DEF RequestApply
  <2> QED
    BY <2>1, <2>2, <2>3, CopiesKeep DEF runtimeVars
<1>15. ASSUME NEW c \in Callers, RequestAssign(c) PROVE  Writing'
  BY <1>15, <1>t, <1>i DEF RequestAssign, Assigns, NoWrite, Writing, WriteAt, RuntimeTypes, CallTypes, Writes, handleVars, runtimeVars, workerVars
<1>16. ASSUME NEW c \in Callers, NEW t \in Types, ActiveJob(c, t) PROVE  Writing'
  BY <1>16, <1>t, <1>i DEF ActiveJob, Writing, WriteAt, RuntimeTypes, CallTypes, Writes, handleVars, runtimeVars, workerVars, vars
<1>17. ASSUME NEW c \in Callers, NEW t \in Types, StartCheck(c, t) PROVE  Writing'
  BY <1>17, <1>t, <1>i DEF StartCheck, Writing, WriteAt, RuntimeTypes, CallTypes, Writes, handleVars, runtimeVars, workerVars, vars
<1>18. ASSUME NEW c \in Callers, NEW t \in Types, NEW op \in Requests, RequestLookup(c, t, op)
      PROVE  Writing'
  BY <1>18, <1>t, <1>i DEF RequestLookup, Writing, WriteAt, RuntimeTypes, CallTypes, Writes, handleVars, runtimeVars, workerVars, vars
<1>19. ASSUME Shutdown PROVE  Writing'
  BY <1>19, <1>t, <1>i DEF Shutdown, Writing, WriteAt, RuntimeTypes, CallTypes, Writes, handleVars, runtimeVars, workerVars, vars
<1>20. CASE UNCHANGED vars
  BY <1>20, <1>t, <1>i DEF Writing, WriteAt, RuntimeTypes, CallTypes, Writes, handleVars, runtimeVars, workerVars, vars
<1> QED
  BY <1>1, <1>2, <1>3, <1>4, <1>5, <1>6, <1>7, <1>8, <1>9, <1>10, <1>11, <1>12, <1>13,
     <1>14, <1>15, <1>16, <1>17, <1>18, <1>19, <1>20 DEF Next, WorkerStep, CallStep, NewCall, Threads

\* The entries stay submitted jobs of their types.
LEMMA EnteredStep ==
    Inv /\ [Next]_vars
  => Entered'
<1> SUFFICES ASSUME Inv, [Next]_vars
             PROVE  Entered'
  OBVIOUS
<1>i. Entered
  BY DEF Inv
<1>t. HandleTypes /\ RuntimeTypes /\ WorkerTypes /\ CallTypes
  BY TypeParts DEF Inv
<1>1. ASSUME NEW j \in Jobs, Dispatch(j) PROVE  Entered'
  BY <1>1, <1>t, <1>i DEF Dispatch, Entered, EntryAt, WorkerTypes, RuntimeTypes, handleVars, runtimeVars, workerVars, vars
<1>2. ASSUME NEW j \in Jobs, MarkStarted(j) PROVE  Entered'
  BY <1>2, <1>t, <1>i DEF MarkStarted, Entered, EntryAt, WorkerTypes, RuntimeTypes, handleVars, runtimeVars, workerVars, vars
<1>3. ASSUME NEW j \in Jobs, SetJobAttachment(j) PROVE  Entered'
  BY <1>3, <1>t, <1>i DEF SetJobAttachment, Entered, EntryAt, WorkerTypes, RuntimeTypes, handleVars, runtimeVars, workerVars, vars
<1>4. ASSUME NEW j \in Jobs, Update(j) PROVE  Entered'
  BY <1>4, <1>t, <1>i DEF Update, Entered, EntryAt, WorkerTypes, RuntimeTypes, handleVars, runtimeVars, workerVars, vars
<1>5. ASSUME NEW j \in Jobs, RunnerEnds(j) PROVE  Entered'
  BY <1>5, <1>t, <1>i DEF RunnerEnds, Entered, EntryAt, WorkerTypes, RuntimeTypes, handleVars, runtimeVars, workerVars, vars
<1>6. ASSUME NEW j \in Jobs, MarkFinished(j) PROVE  Entered'
  BY <1>6, <1>t, <1>i DEF MarkFinished, Entered, EntryAt, WorkerTypes, RuntimeTypes, handleVars, runtimeVars, workerVars, vars
<1>7. ASSUME NEW j \in Jobs, WorkerAssign(j) PROVE  Entered'
  BY <1>7, <1>t, <1>i DEF WorkerAssign, Entered, EntryAt, WorkerTypes, RuntimeTypes, handleVars, runtimeVars, workerVars, vars
<1>8. ASSUME NEW j \in Jobs, Cleanup(j) PROVE  Entered'
  BY <1>8, <1>t, <1>i DEF Cleanup, ActiveAfter, Entered, EntryAt, WorkerTypes, RuntimeTypes, handleVars, runtimeVars, workerVars
<1>9. ASSUME NEW j \in Jobs, FutureDone(j) PROVE  Entered'
  BY <1>9, <1>t, <1>i DEF FutureDone, Entered, EntryAt, WorkerTypes, RuntimeTypes, handleVars, runtimeVars, workerVars, vars
<1>10. ASSUME NEW th \in Threads, Persist(th) PROVE  Entered'
  BY <1>10, <1>t, <1>i DEF Persist, Entered, EntryAt, WorkerTypes, RuntimeTypes, handleVars, runtimeVars, workerVars, vars
<1>11. ASSUME NEW c \in Callers, StartPersist(c) PROVE  Entered'
  <2>1. UNCHANGED active_jobs
    BY <1>11, StartFacts
  <2>2. \A j \in Jobs : future[j] # "none" => job_type[j] # None
    BY DEF Inv, Working, JobAt
  <2> QED
    BY <1>t, <1>i, <2>1, <2>2, Grows DEF JobsGrow, Entered, EntryAt, RuntimeTypes
<1>12. ASSUME NEW c \in Callers, StartSubmit(c) PROVE  Entered'
  BY <1>12, <1>t, <1>i, Grows DEF StartSubmit, JobsGrow, Entered, EntryAt, WorkerTypes, RuntimeTypes, handleVars, runtimeVars, workerVars
<1>13. ASSUME NEW c \in Callers, StartRegister(c) PROVE  Entered'
  BY <1>13, <1>t, <1>i DEF StartRegister, Inv, Calling, CallAt, Entered, EntryAt, WorkerTypes, RuntimeTypes, handleVars, runtimeVars, workerVars
<1>14. ASSUME NEW c \in Callers, RequestApply(c) PROVE  Entered'
  BY <1>14, <1>t, <1>i DEF RequestApply, Entered, EntryAt, WorkerTypes, RuntimeTypes, handleVars, runtimeVars, workerVars, vars
<1>15. ASSUME NEW c \in Callers, RequestAssign(c) PROVE  Entered'
  BY <1>15, <1>t, <1>i DEF RequestAssign, Entered, EntryAt, WorkerTypes, RuntimeTypes, handleVars, runtimeVars, workerVars, vars
<1>16. ASSUME NEW c \in Callers, NEW t \in Types, ActiveJob(c, t) PROVE  Entered'
  BY <1>16, <1>t, <1>i DEF ActiveJob, AfterPeek, Entered, EntryAt, WorkerTypes, RuntimeTypes, handleVars, runtimeVars, workerVars
<1>17. ASSUME NEW c \in Callers, NEW t \in Types, StartCheck(c, t) PROVE  Entered'
  BY <1>17, <1>t, <1>i DEF StartCheck, Entered, EntryAt, WorkerTypes, RuntimeTypes, handleVars, runtimeVars, workerVars, vars
<1>18. ASSUME NEW c \in Callers, NEW t \in Types, NEW op \in Requests, RequestLookup(c, t, op)
      PROVE  Entered'
  BY <1>18, <1>t, <1>i DEF RequestLookup, Entered, EntryAt, WorkerTypes, RuntimeTypes, handleVars, runtimeVars, workerVars, vars
<1>19. ASSUME Shutdown PROVE  Entered'
  BY <1>19, <1>t, <1>i DEF Shutdown, Entered, EntryAt, WorkerTypes, RuntimeTypes, handleVars, runtimeVars, workerVars, vars
<1>20. CASE UNCHANGED vars
  BY <1>20, <1>t, <1>i DEF Entered, EntryAt, WorkerTypes, RuntimeTypes, handleVars, runtimeVars, workerVars, vars
<1> QED
  BY <1>1, <1>2, <1>3, <1>4, <1>5, <1>6, <1>7, <1>8, <1>9, <1>10, <1>11, <1>12, <1>13,
     <1>14, <1>15, <1>16, <1>17, <1>18, <1>19, <1>20 DEF Next, WorkerStep, CallStep, NewCall, Threads

\* The future, the place in _run_job and the handle still go together.
LEMMA WorkingStep ==
    Inv /\ [Next]_vars
  => Working'
<1> SUFFICES ASSUME Inv, [Next]_vars
             PROVE  Working'
  OBVIOUS
<1>i. Working
  BY DEF Inv
<1>t. HandleTypes /\ RuntimeTypes /\ WorkerTypes /\ CallTypes
  BY TypeParts DEF Inv
<1>1. ASSUME NEW j \in Jobs, Dispatch(j) PROVE  Working'
  BY <1>1, <1>t, <1>i DEF Dispatch, Working, JobAt, WorkerTypes, RuntimeTypes, HandleTypes, handleVars, runtimeVars
<1>2. ASSUME NEW j \in Jobs, MarkStarted(j) PROVE  Working'
  <2>1. j \in Threads /\ write'[j].job = j /\ \A o \in Jobs : o # j => write'[o] = write[o]
    BY <1>2, <1>t, ThreadFacts DEF MarkStarted, Copies, CallTypes, Writes
  <2> QED
    BY <1>2, <1>t, <1>i, <2>1 DEF MarkStarted, Working, JobAt, WorkerTypes, RuntimeTypes, HandleTypes, handleVars, runtimeVars, workerVars
<1>3. ASSUME NEW j \in Jobs, SetJobAttachment(j) PROVE  Working'
  BY <1>3, <1>t, <1>i DEF SetJobAttachment, Working, JobAt, WorkerTypes, RuntimeTypes, HandleTypes, handleVars, runtimeVars, workerVars, vars
<1>4. ASSUME NEW j \in Jobs, Update(j) PROVE  Working'
  <2>1. j \in Threads /\ write'[j].job = j /\ \A o \in Jobs : o # j => write'[o] = write[o]
    BY <1>4, <1>t, ThreadFacts DEF Update, Copies, CallTypes, Writes
  <2> QED
    BY <1>4, <1>t, <1>i, <2>1 DEF Update, Working, JobAt, WorkerTypes, RuntimeTypes, HandleTypes, handleVars, runtimeVars, workerVars
<1>5. ASSUME NEW j \in Jobs, RunnerEnds(j) PROVE  Working'
  BY <1>5, <1>t, <1>i DEF RunnerEnds, Working, JobAt, WorkerTypes, RuntimeTypes, HandleTypes, handleVars, runtimeVars
<1>6. ASSUME NEW j \in Jobs, MarkFinished(j) PROVE  Working'
  <2>1. j \in Threads /\ write'[j].job = j /\ \A o \in Jobs : o # j => write'[o] = write[o]
    BY <1>6, <1>t, ThreadFacts DEF MarkFinished, Copies, CallTypes, Writes
  <2> QED
    BY <1>6, <1>t, <1>i, <2>1 DEF MarkFinished, Working, JobAt, WorkerTypes, RuntimeTypes, HandleTypes, handleVars, runtimeVars, workerVars
<1>7. ASSUME NEW j \in Jobs, WorkerAssign(j) PROVE  Working'
  <2>1. /\ write[j].job = j /\ write[j].copy \in JobRecord /\ phase[j] \in {"begin", "body", "ending"}
        /\ record' = [record EXCEPT ![j] = write[j].copy]
        /\ write'[j] = NoWrite
        /\ \A o \in Jobs : o # j => write'[o] = write[o]
    BY <1>7, <1>t, <1>i, ThreadFacts
    DEF WorkerAssign, Assigns, Working, JobAt, Inv, Writing, WriteAt, CallTypes
  <2>2. AfterAssign(phase[j]) # "idle" /\ (AfterAssign(phase[j]) = "exit" <=> phase[j] = "exit")
        /\ (AfterAssign(phase[j]) = "cleanup" => phase[j] = "ending")
        /\ AfterAssign(phase[j]) # "ending"
    BY <2>1 DEF AfterAssign
  <2> QED
    BY <1>7, <1>t, <1>i, <2>1, <2>2
    DEF WorkerAssign, NoWrite, Working, JobAt, WorkerTypes, RuntimeTypes, HandleTypes, runtimeVars
<1>8. ASSUME NEW j \in Jobs, Cleanup(j) PROVE  Working'
  BY <1>8, <1>t, <1>i DEF Cleanup, Working, JobAt, WorkerTypes, RuntimeTypes, HandleTypes, handleVars, runtimeVars, workerVars, vars
<1>9. ASSUME NEW j \in Jobs, FutureDone(j) PROVE  Working'
  BY <1>9, <1>t, <1>i DEF FutureDone, Working, JobAt, WorkerTypes, RuntimeTypes, HandleTypes, handleVars, runtimeVars, workerVars, vars
<1>10. ASSUME NEW th \in Threads, Persist(th) PROVE  Working'
  <2>1. \A o \in Jobs : write'[o].job = write[o].job /\ (write'[o].step # "none" => write[o].step # "none")
    BY <1>10, <1>t, ThreadFacts DEF Persist, CallTypes, Writes
  <2> QED
    BY <1>10, <1>t, <1>i, <2>1 DEF Persist, Working, JobAt, WorkerTypes, RuntimeTypes, HandleTypes, runtimeVars, workerVars
<1>11. ASSUME NEW c \in Callers, StartPersist(c) PROVE  Working'
  <2>1. PICK j \in Jobs : /\ job_type' = [job_type EXCEPT ![j] = call[c].type]
                         /\ record' = [record EXCEPT ![j] = [state |-> "pending",
                                          cancel |-> FALSE, final |-> FALSE]]
    BY <1>11 DEF StartPersist
  <2>2. call[c].type \in Types /\ UNCHANGED <<workerVars, write>>
    BY <1>11, StartFacts
  <2>3. [state |-> "pending", cancel |-> FALSE, final |-> FALSE] \in JobRecord
    BY DEF JobRecord, Transitional
  <2> QED
    BY <1>t, <1>i, <2>1, <2>2, <2>3, ThreadFacts DEF Working, JobAt, WorkerTypes, RuntimeTypes, HandleTypes, workerVars
<1>12. ASSUME NEW c \in Callers, StartSubmit(c) PROVE  Working'
  <2>1. /\ call[c].job \in Jobs /\ job_type[call[c].job] # None
        /\ future[call[c].job] = "none"
    BY <1>12, ThreadFacts DEF StartSubmit, Inv, Calling, CallAt
  <2> QED
    BY <1>12, <1>t, <1>i, <2>1 DEF StartSubmit, Working, JobAt, WorkerTypes, RuntimeTypes, HandleTypes, handleVars, runtimeVars
<1>13. ASSUME NEW c \in Callers, StartRegister(c) PROVE  Working'
  BY <1>13, <1>t, <1>i DEF StartRegister, Working, JobAt, WorkerTypes, RuntimeTypes, HandleTypes, handleVars, runtimeVars, workerVars, vars
<1>14. ASSUME NEW c \in Callers, RequestApply(c) PROVE  Working'
  <2>1. \A o \in Jobs : write'[o] = write[o]
    BY <1>14, <1>t, ThreadFacts DEF RequestApply, Copies, CallTypes
  <2> QED
    BY <1>14, <1>t, <1>i, <2>1 DEF RequestApply, Working, JobAt, WorkerTypes, RuntimeTypes, HandleTypes, runtimeVars, workerVars
<1>15. ASSUME NEW c \in Callers, RequestAssign(c) PROVE  Working'
  <2>1. \A o \in Jobs : write'[o] = write[o]
    BY <1>15, <1>t, ThreadFacts DEF RequestAssign, Assigns, CallTypes
  <2>2. write[c].job \in Jobs /\ write[c].copy \in JobRecord
    BY <1>15, ThreadFacts DEF RequestAssign, Assigns, Inv, Writing, WriteAt
  <2>3. record' = [record EXCEPT ![write[c].job] = write[c].copy]
    BY <1>15 DEF RequestAssign, Assigns
  <2> QED
    BY <1>15, <1>t, <1>i, <2>1, <2>2, <2>3 DEF RequestAssign, Working, JobAt, WorkerTypes, RuntimeTypes, HandleTypes, runtimeVars, workerVars
<1>16. ASSUME NEW c \in Callers, NEW t \in Types, ActiveJob(c, t) PROVE  Working'
  BY <1>16, <1>t, <1>i DEF ActiveJob, Working, JobAt, WorkerTypes, RuntimeTypes, HandleTypes, handleVars, runtimeVars, workerVars, vars
<1>17. ASSUME NEW c \in Callers, NEW t \in Types, StartCheck(c, t) PROVE  Working'
  BY <1>17, <1>t, <1>i DEF StartCheck, Working, JobAt, WorkerTypes, RuntimeTypes, HandleTypes, handleVars, runtimeVars, workerVars, vars
<1>18. ASSUME NEW c \in Callers, NEW t \in Types, NEW op \in Requests, RequestLookup(c, t, op)
      PROVE  Working'
  BY <1>18, <1>t, <1>i DEF RequestLookup, Working, JobAt, WorkerTypes, RuntimeTypes, HandleTypes, handleVars, runtimeVars, workerVars, vars
<1>19. ASSUME Shutdown PROVE  Working'
  BY <1>19, <1>t, <1>i DEF Shutdown, Working, JobAt, WorkerTypes, RuntimeTypes, HandleTypes, handleVars, runtimeVars, workerVars, vars
<1>20. CASE UNCHANGED vars
  BY <1>20, <1>t, <1>i DEF Working, JobAt, WorkerTypes, RuntimeTypes, HandleTypes, handleVars, runtimeVars, workerVars, vars
<1> QED
  BY <1>1, <1>2, <1>3, <1>4, <1>5, <1>6, <1>7, <1>8, <1>9, <1>10, <1>11, <1>12, <1>13,
     <1>14, <1>15, <1>16, <1>17, <1>18, <1>19, <1>20 DEF Next, WorkerStep, CallStep, NewCall, Threads

\* What settles a job is its own outcome, record and write, and that no caller
\* has a write on it.
LEMMA SettledFrame ==
    ASSUME NEW k \in Jobs, Settled(k),
           phase'[k] = phase[k], write'[k] = write[k], outcome'[k] = outcome[k],
           persisted'[k] = persisted[k], record'[k] = record[k],
           k \in stop_event' <=> k \in stop_event, k \in raced => k \in raced',
           \A c \in Callers : write'[c].job = k => write[c].job = k
    PROVE  Settled(k)'
<1>0. (k \in stop_event') = (k \in stop_event)
  OBVIOUS
<1>1. Truth(k)' = Truth(k)
  BY <1>0 DEF Truth
<1> QED
  BY <1>1 DEF Settled, Finishing

\* An outcome on its way or in place stays so unless a request meets it.
LEMMA SettledStep ==
    Inv /\ [Next]_vars
  => \A k \in Jobs : Settled(k)'
<1> SUFFICES ASSUME Inv, [Next]_vars
             PROVE  \A k \in Jobs : Settled(k)'
  OBVIOUS
<1>i. \A k \in Jobs : Settled(k)
  BY DEF Inv
<1>t. HandleTypes /\ RuntimeTypes /\ WorkerTypes /\ CallTypes
  BY TypeParts DEF Inv
<1>1. ASSUME NEW j \in Jobs, Dispatch(j) PROVE  \A k \in Jobs : Settled(k)'
  BY <1>1, <1>t, <1>i DEF Dispatch, Settled, Finishing, Truth, handleVars, runtimeVars, workerVars, vars
<1>2. ASSUME NEW j \in Jobs, MarkStarted(j) PROVE  \A k \in Jobs : Settled(k)'
  <2>1. /\ phase[j] = "begin" /\ UNCHANGED <<phase, outcome, persisted, record, stop_event, raced>>
        /\ \A o \in Threads : o # j => write'[o] = write[o]
    BY <1>2, <1>t, ThreadFacts DEF MarkStarted, Copies, CallTypes, handleVars, runtimeVars, workerVars
  <2>2. ASSUME NEW k \in Jobs PROVE Settled(k)'
    <3>1. CASE k = j
      BY <2>1, <3>1 DEF Settled, Finishing
    <3>2. CASE k # j
      BY <1>i, <2>1, <3>2, ThreadFacts, SettledFrame
    <3> QED
      BY <3>1, <3>2
  <2> QED
    BY <2>2
<1>3. ASSUME NEW j \in Jobs, SetJobAttachment(j) PROVE  \A k \in Jobs : Settled(k)'
  BY <1>3, <1>t, <1>i DEF SetJobAttachment, Settled, Finishing, Truth, handleVars, runtimeVars, workerVars, vars
<1>4. ASSUME NEW j \in Jobs, Update(j) PROVE  \A k \in Jobs : Settled(k)'
  <2>1. /\ phase[j] = "body" /\ UNCHANGED <<phase, outcome, persisted, record, stop_event, raced>>
        /\ \A o \in Threads : o # j => write'[o] = write[o]
    BY <1>4, <1>t, ThreadFacts DEF Update, Copies, CallTypes, handleVars, runtimeVars, workerVars
  <2>2. ASSUME NEW k \in Jobs PROVE Settled(k)'
    <3>1. CASE k = j
      BY <2>1, <3>1 DEF Settled, Finishing
    <3>2. CASE k # j
      BY <1>i, <2>1, <3>2, ThreadFacts, SettledFrame
    <3> QED
      BY <3>1, <3>2
  <2> QED
    BY <2>2
<1>5. ASSUME NEW j \in Jobs, RunnerEnds(j) PROVE  \A k \in Jobs : Settled(k)'
  BY <1>5, <1>t, <1>i DEF RunnerEnds, Settled, Finishing, Truth, handleVars, runtimeVars, workerVars, vars
<1>6. ASSUME NEW j \in Jobs, MarkFinished(j) PROVE  \A k \in Jobs : Settled(k)'
  <2>1. /\ phase[j] = "ending" /\ UNCHANGED <<phase, outcome, persisted, record, stop_event>>
        /\ \A o \in Threads : o # j => write'[o] = write[o]
        /\ write'[j].step = "persist" /\ write'[j].copy = Truth(j)
        /\ raced \subseteq raced'
        /\ (\E c \in Callers : write[c].job = j) => j \in raced'
    BY <1>6, <1>t, ThreadFacts
    DEF MarkFinished, Copies, FinishedRecord, Truth, CallTypes, handleVars, workerVars
  <2>2. ASSUME NEW k \in Jobs PROVE Settled(k)'
    <3>1. CASE k = j
      BY <2>1, <3>1, ThreadFacts DEF Settled, Finishing, Truth
    <3>2. CASE k # j
      BY <1>i, <2>1, <3>2, ThreadFacts, SettledFrame
    <3> QED
      BY <3>1, <3>2
  <2> QED
    BY <2>2
<1>7. ASSUME NEW j \in Jobs, WorkerAssign(j) PROVE  \A k \in Jobs : Settled(k)'
  <2>1. /\ write[j].step = "assign" /\ write[j].job = j
        /\ phase[j] \in {"begin", "body", "ending"}
        /\ record' = [record EXCEPT ![j] = write[j].copy]
        /\ write'[j] = NoWrite /\ UNCHANGED <<outcome, persisted, stop_event, raced>>
        /\ phase' = [phase EXCEPT ![j] = AfterAssign(@)]
        /\ \A o \in Threads : o # j => write'[o] = write[o]
    BY <1>7, <1>t, ThreadFacts
    DEF WorkerAssign, Assigns, Inv, Working, JobAt, CallTypes, workerVars
  <2>2. ASSUME NEW k \in Jobs PROVE Settled(k)'
    <3>1. CASE k = j /\ phase[j] = "ending"
      <4>1. phase'[j] = "cleanup" /\ record'[j] = write[j].copy
        BY <1>t, <2>1, <3>1 DEF AfterAssign, WorkerTypes, HandleTypes
      <4>2. j \notin raced => write[j].copy = Truth(j) /\ persisted[j] = Truth(j)
                              /\ \A c \in Callers : write[c].job # j
        BY <1>i, <2>1, <3>1 DEF Settled, Finishing
      <4> QED
        BY <2>1, <3>1, <4>1, <4>2, ThreadFacts DEF Settled, Truth
    <3>2. CASE k = j /\ phase[j] # "ending"
      <4>1. phase'[j] \in {"attach", "body"}
        BY <1>t, <2>1, <3>2 DEF AfterAssign, WorkerTypes
      <4> QED
        BY <3>2, <4>1 DEF Settled, Finishing
    <3>3. CASE k # j
      BY <1>t, <1>i, <2>1, <3>3, ThreadFacts, SettledFrame DEF WorkerTypes, HandleTypes
    <3> QED
      BY <3>1, <3>2, <3>3
  <2> QED
    BY <2>2
<1>8. ASSUME NEW j \in Jobs, Cleanup(j) PROVE  \A k \in Jobs : Settled(k)'
  BY <1>8, <1>t, <1>i DEF Cleanup, Settled, Finishing, Truth, handleVars, runtimeVars, workerVars, vars
<1>9. ASSUME NEW j \in Jobs, FutureDone(j) PROVE  \A k \in Jobs : Settled(k)'
  BY <1>9, <1>t, <1>i DEF FutureDone, Settled, Finishing, Truth, handleVars, runtimeVars, workerVars, vars
<1>10. ASSUME NEW th \in Threads, Persist(th) PROVE  \A k \in Jobs : Settled(k)'
  <2>1. /\ write[th].step = "persist"
        /\ persisted' = [persisted EXCEPT ![write[th].job] = write[th].copy]
        /\ write'[th] = [write[th] EXCEPT !.step = "assign"]
        /\ \A o \in Threads : o # th => write'[o] = write[o]
        /\ UNCHANGED <<phase, outcome, record, stop_event, raced>>
    BY <1>10, <1>t DEF Persist, CallTypes, workerVars
  <2>2. /\ write'[th].job = write[th].job /\ write'[th].copy = write[th].copy
        /\ write'[th].step = "assign"
    BY <1>t, <2>1 DEF CallTypes, Writes
  <2>3. ASSUME NEW k \in Jobs PROVE Settled(k)'
    <3>1. CASE k = th
      <4>1. persisted'[k] = write[k].copy /\ phase[k] \in {"begin", "body", "ending"}
        BY <1>t, <2>1, <3>1 DEF Inv, Working, JobAt, HandleTypes
      <4>2. Truth(k)' = Truth(k) /\ \A c \in Callers : write'[c] = write[c]
        BY <2>1, <3>1, ThreadFacts DEF Truth
      <4>3. CASE phase[k] = "ending"
        <5>1. SUFFICES ASSUME k \notin raced PROVE Settled(k)'
          BY <2>1 DEF Settled
        <5>2. write[k].copy = Truth(k) /\ \A c \in Callers : write[c].job # k
          BY <1>i, <2>1, <3>1, <4>3, <5>1 DEF Settled, Finishing
        <5>3. write'[k].copy = Truth(k)' /\ persisted'[k] = Truth(k)'
          BY <2>2, <3>1, <4>1, <4>2, <5>2
        <5> QED
          BY <2>1, <4>2, <4>3, <5>2, <5>3 DEF Settled
      <4>4. CASE phase[k] # "ending"
        BY <2>1, <4>1, <4>4 DEF Settled, Finishing
      <4> QED
        BY <4>3, <4>4
    <3>2. CASE k # th /\ write[th].job = k
      <4>1. th \in Callers
        BY <2>1, <3>2 DEF Inv, Working, JobAt, Threads
      <4> QED
        BY <1>i, <2>1, <3>2, <4>1, ThreadFacts DEF Settled, Finishing
    <3>3. CASE k # th /\ write[th].job # k
      <4>1. persisted'[k] = persisted[k]
        BY <1>t, <2>1, <3>3 DEF HandleTypes
      <4> QED
        BY <1>i, <2>1, <2>2, <3>3, <4>1, ThreadFacts, SettledFrame
    <3> QED
      BY <3>1, <3>2, <3>3
  <2> QED
    BY <2>3
<1>11. ASSUME NEW c \in Callers, StartPersist(c) PROVE  \A k \in Jobs : Settled(k)'
  <2>1. PICK j \in Jobs : /\ job_type[j] = None
                         /\ \E new : /\ persisted' = [persisted EXCEPT ![j] = new]
                                     /\ record' = [record EXCEPT ![j] = new]
    BY <1>11 DEF StartPersist
  <2>2. UNCHANGED <<phase, outcome, write, stop_event, raced>>
    BY <1>11 DEF StartPersist, workerVars
  <2>3. ASSUME NEW k \in Jobs PROVE Settled(k)'
    <3>1. CASE k = j
      BY <2>1, <2>2, <3>1 DEF Settled, Finishing, Inv, Working, JobAt
    <3>2. CASE k # j
      <4>1. persisted'[k] = persisted[k] /\ record'[k] = record[k]
        BY <1>t, <2>1, <3>2 DEF HandleTypes
      <4> QED
        BY <1>i, <2>2, <4>1, SettledFrame
    <3> QED
      BY <3>1, <3>2
  <2> QED
    BY <2>3
<1>12. ASSUME NEW c \in Callers, StartSubmit(c) PROVE  \A k \in Jobs : Settled(k)'
  BY <1>12, <1>t, <1>i DEF StartSubmit, Settled, Finishing, Truth, handleVars, runtimeVars, workerVars, vars
<1>13. ASSUME NEW c \in Callers, StartRegister(c) PROVE  \A k \in Jobs : Settled(k)'
  BY <1>13, <1>t, <1>i DEF StartRegister, Settled, Finishing, Truth, handleVars, runtimeVars, workerVars, vars
<1>14. ASSUME NEW c \in Callers, RequestApply(c) PROVE  \A k \in Jobs : Settled(k)'
  <2> DEFINE job == call[c].job
  <2>1. /\ job \in Jobs /\ UNCHANGED <<phase, outcome, persisted, record>>
        /\ write'[c].job = job
        /\ \A o \in Threads : o # c => write'[o] = write[o]
        /\ \A k \in Jobs : k # job => (k \in stop_event' <=> k \in stop_event)
        /\ raced' = IF Finishing(job) THEN raced \cup {job} ELSE raced
    BY <1>14, <1>t, ThreadFacts
    DEF RequestApply, Copies, Inv, Calling, CallAt, CallTypes, workerVars
  <2> HIDE DEF job
  <2>2. ASSUME NEW k \in Jobs PROVE Settled(k)'
    <3>1. CASE k = job
      BY <2>1, <3>1, ThreadFacts DEF Settled, Finishing
    <3>2. CASE k # job
      BY <1>i, <2>1, <3>2, ThreadFacts, SettledFrame
    <3> QED
      BY <3>1, <3>2
  <2> QED
    BY <2>2
<1>15. ASSUME NEW c \in Callers, RequestAssign(c) PROVE  \A k \in Jobs : Settled(k)'
  <2>1. /\ write[c].step = "assign"
        /\ record' = [record EXCEPT ![write[c].job] = write[c].copy]
        /\ write'[c] = NoWrite
        /\ \A o \in Threads : o # c => write'[o] = write[o]
        /\ UNCHANGED <<phase, outcome, persisted, stop_event, raced>>
    BY <1>15, <1>t, ThreadFacts DEF RequestAssign, Assigns, CallTypes, workerVars
  <2>2. ASSUME NEW k \in Jobs PROVE Settled(k)'
    <3>1. CASE write[c].job = k
      BY <1>i, <2>1, <3>1, ThreadFacts DEF Settled, Finishing
    <3>2. CASE write[c].job # k
      <4>1. record'[k] = record[k] /\ NoWrite.job # k
        BY <1>t, <2>1, <3>2, ThreadFacts DEF HandleTypes, NoWrite
      <4> QED
        BY <1>i, <2>1, <4>1, ThreadFacts, SettledFrame
    <3> QED
      BY <3>1, <3>2
  <2> QED
    BY <2>2
<1>16. ASSUME NEW c \in Callers, NEW t \in Types, ActiveJob(c, t)
      PROVE  \A k \in Jobs : Settled(k)'
  BY <1>16, <1>t, <1>i DEF ActiveJob, Settled, Finishing, Truth, handleVars, runtimeVars, workerVars, vars
<1>17. ASSUME NEW c \in Callers, NEW t \in Types, StartCheck(c, t)
      PROVE  \A k \in Jobs : Settled(k)'
  BY <1>17, <1>t, <1>i DEF StartCheck, Settled, Finishing, Truth, handleVars, runtimeVars, workerVars, vars
<1>18. ASSUME NEW c \in Callers, NEW t \in Types, NEW op \in Requests, RequestLookup(c, t, op)
      PROVE  \A k \in Jobs : Settled(k)'
  BY <1>18, <1>t, <1>i DEF RequestLookup, Settled, Finishing, Truth, handleVars, runtimeVars, workerVars, vars
<1>19. ASSUME Shutdown PROVE  \A k \in Jobs : Settled(k)'
  BY <1>19, <1>t, <1>i DEF Shutdown, Settled, Finishing, Truth, handleVars, runtimeVars, workerVars, vars
<1>20. CASE UNCHANGED vars
  BY <1>20, <1>t, <1>i DEF Settled, Finishing, Truth, handleVars, runtimeVars, workerVars, vars
<1> QED
  BY <1>1, <1>2, <1>3, <1>4, <1>5, <1>6, <1>7, <1>8, <1>9, <1>10, <1>11, <1>12, <1>13,
     <1>14, <1>15, <1>16, <1>17, <1>18, <1>19, <1>20 DEF Next, WorkerStep, CallStep, NewCall, Threads

LEMMA InitInv == Init => Inv
<1> SUFFICES ASSUME Init PROVE Inv
  OBVIOUS
<1>1. TypeOK
  <2>1. HandleTypes /\ RuntimeTypes /\ WorkerTypes
    BY DEF Init, HandleTypes, RuntimeTypes, WorkerTypes
  <2>2. CallTypes
    BY DEF Init, CallTypes, Writes, Calls, NoWrite, Idle
  <2> QED
    BY <2>1, <2>2, TypeParts
<1>2. Calling
  BY DEF Init, Calling, CallAt, OwnSubmit, Idle, Requests
<1>3. Writing
  BY DEF Init, Writing, WriteAt, NoWrite
<1>4. Working
  BY ThreadFacts DEF Init, Working, JobAt, NoWrite
<1>5. Entered
  BY DEF Init, Entered, EntryAt
<1>6. \A j \in Jobs : Settled(j)
  BY DEF Init, Settled, Finishing
<1> QED
  BY <1>1, <1>2, <1>3, <1>4, <1>5, <1>6 DEF Inv

LEMMA InvStep == Inv /\ [Next]_vars => Inv'
<1> SUFFICES ASSUME Inv, [Next]_vars PROVE Inv'
  OBVIOUS
<1>1. HandleTypes' /\ RuntimeTypes' /\ WorkerTypes' /\ CallTypes'
  BY HandleTypesStep, RuntimeTypesStep, WorkerTypesStep, CallTypesStep
<1>2. TypeOK'
  BY <1>1
  DEF TypeOK, HandleTypes, RuntimeTypes, WorkerTypes, CallTypes, Writes, Calls
<1> QED
  BY <1>2, CallingStep, WritingStep, WorkingStep, EnteredStep, SettledStep DEF Inv

\* The runtime's jobs, entries and writes stay consistent with each other and with
\* what the handles hold, however requests, starts and workers interleave.
THEOREM SpecInv == Spec => []Inv
<1> QED
  BY InitInv, InvStep, PTL DEF Spec

\* No interleaving of start_job, the request methods and _run_job gives a variable
\* a value of another shape: no caller writes a record to a job that has none.
THEOREM TypeCorrect == Spec => []TypeOK
<1>1. Inv => TypeOK
  BY DEF Inv
<1> QED
  BY <1>1, SpecInv, PTL

\* A job that has left _run_job, and that no control request met at its
\* mark_finished, has its outcome, its result and its cancel flag in file and
\* memory: whatever was requested and written before is overwritten for good.
THEOREM OutcomesAreTruthful == Spec => []FinishedTruthful
<1>1. Inv => FinishedTruthful
  BY DEF Inv, Settled, Finishing, Truth, FinishedTruthful, Ended
<1> QED
  BY <1>1, SpecInv, PTL

ControlsKept ==
    \A t \in Types : \A j \in Jobs : ~Ended(j)' =>
        /\ active_jobs[t] = j => active_jobs'[t] # None
        /\ job_attachments[t] = j /\ job_attachments'[t] # j =>
              \E k \in Jobs \ {j} : Unfinished(k) /\ job_type[k] = t

\* An entry goes with the finally block of its job, or after it; an attachment with
\* the attachment or the finally block of a job of its type.
LEMMA ControlsKeptStep ==
    Inv /\ [Next]_vars
  => ControlsKept
<1> SUFFICES ASSUME Inv, [Next]_vars
             PROVE  ControlsKept
  OBVIOUS
<1>t. HandleTypes /\ RuntimeTypes /\ WorkerTypes /\ CallTypes
  BY TypeParts DEF Inv
<1>n. ASSUME NEW j \in Jobs PROVE j # None
  BY ThreadFacts
<1>u. ASSUME UNCHANGED <<active_jobs, job_attachments>> PROVE ControlsKept
  BY <1>n, <1>u DEF ControlsKept
<1>1. CASE \E j \in Jobs : \/ Dispatch(j) \/ MarkStarted(j) \/ Update(j) \/ RunnerEnds(j)
                          \/ MarkFinished(j) \/ WorkerAssign(j) \/ FutureDone(j)
  BY <1>u, <1>1 DEF Dispatch, MarkStarted, Update, RunnerEnds, MarkFinished, WorkerAssign,
                    FutureDone, runtimeVars, handleVars, workerVars
<1>2. CASE \E th \in Threads : Persist(th)
  BY <1>u, <1>2 DEF Persist, runtimeVars
<1>3. CASE \E c \in Callers : StartPersist(c) \/ StartSubmit(c) \/ RequestApply(c) \/ RequestAssign(c)
  BY <1>u, <1>3 DEF StartPersist, StartSubmit, RequestApply, RequestAssign, runtimeVars
<1>4. CASE \E c \in Callers : \E t \in Types :
              StartCheck(c, t) \/ \E op \in Requests : RequestLookup(c, t, op)
  BY <1>u, <1>4 DEF StartCheck, RequestLookup, runtimeVars
<1>5. CASE Shutdown \/ UNCHANGED vars
  BY <1>u, <1>5 DEF Shutdown, vars, runtimeVars
<1>6. ASSUME NEW k \in Jobs, phase[k] \in {"attach", "cleanup"}
      PROVE  Unfinished(k) /\ job_type[k] \in Types
  <2>1. /\ future[k] # "none" => job_type[k] # None
        /\ phase[k] = "idle" <=> future[k] \in {"none", "queued"}
        /\ future[k] = "done" => phase[k] = "exit"
    BY DEF Inv, Working, JobAt
  <2> QED
    BY <1>6, <1>t, <2>1 DEF Unfinished, Ended, RuntimeTypes, WorkerTypes
<1>7. ASSUME NEW k \in Jobs, SetJobAttachment(k) PROVE ControlsKept
  <2>1. /\ Unfinished(k) /\ job_type[k] \in Types
        /\ UNCHANGED active_jobs
        /\ job_attachments' = [job_attachments EXCEPT ![job_type[k]] = k]
    BY <1>6, <1>7 DEF SetJobAttachment
  <2> QED
    BY <1>n, <1>t, <2>1 DEF ControlsKept, RuntimeTypes
<1>8. ASSUME NEW k \in Jobs, Cleanup(k) PROVE ControlsKept
  <2>1. /\ Unfinished(k) /\ job_type[k] \in Types /\ Ended(k)'
        /\ active_jobs' = ActiveAfter(k)
        /\ job_attachments' = [job_attachments EXCEPT ![job_type[k]] = None]
    BY <1>t, <1>6, <1>8 DEF Cleanup, AttachmentsAfter, Ended, WorkerTypes
  <2>2. \A t \in Types : \A j \in Jobs \ {k} : active_jobs[t] = j => active_jobs'[t] = j
    BY <1>t, <2>1 DEF ActiveAfter, RuntimeTypes
  <2> QED
    BY <1>n, <1>t, <2>1, <2>2 DEF ControlsKept, RuntimeTypes
<1>9. ASSUME NEW c \in Callers, StartRegister(c) PROVE ControlsKept
  <2>1. call[c].job # None
    BY <1>9, ThreadFacts DEF StartRegister, Inv, Calling, CallAt
  <2> QED
    BY <1>9, <1>n, <1>t, <2>1 DEF StartRegister, RuntimeTypes, ControlsKept
<1>10. ASSUME NEW c \in Callers, NEW t \in Types, ActiveJob(c, t) PROVE ControlsKept
  <2>1. \A j \in Jobs : future[j] = "done" => phase[j] = "exit"
    BY DEF Inv, Working, JobAt
  <2>2. UNCHANGED <<job_attachments, phase>> /\ active_jobs' = AfterPeek(t)
    BY <1>10 DEF ActiveJob, workerVars
  <2> QED
    BY <1>n, <1>t, <2>1, <2>2 DEF AfterPeek, RuntimeTypes, ControlsKept, Ended
<1> QED
  BY <1>1, <1>2, <1>3, <1>4, <1>5, <1>7, <1>8, <1>9, <1>10
     DEF Next, WorkerStep, CallStep, NewCall, Threads

\* A job keeps what it is controlled through until it has ended: its _active_jobs entry
\* is dropped only by its own finally block or by an active_job that found its future
\* done, and its attachment, which the finally block of any job of its type drops,
\* goes before that only while a second job of the type is under way.
THEOREM ControlsOutliveJobs == Spec => ControlsOutliveJob
<1>1. Inv /\ [Next]_vars => [ControlsKept]_vars
  BY ControlsKeptStep
<1> QED
  BY <1>1, SpecInv, PTL DEF Spec, ControlsOutliveJob, ControlsKept

-----------------------------------------------------------------------------
(* Clients that wait for each answer.                                       *)

\* A handle method a request runs belongs to that request.
Busy == \A c \in Callers : write[c].step # "none" => call[c].op = "writing"

\* The entry, or the call that is about to make it, reaches each job under way.
EntryReaches(j) ==
    Unfinished(j) =>
        \/ active_jobs[job_type[j]] = j
        \/ \E c \in Callers : call[c].op = "register" /\ call[c].job = j

\* A start that has passed its check is alone with its type.
StartAlone(c) ==
    call[c].op \in {"persist", "submit", "register"} =>
        /\ active_jobs[call[c].type] = None
        /\ \A k \in Jobs : Unfinished(k) /\ job_type[k] = call[c].type =>
              call[c].op = "register" /\ call[c].job = k

Attached ==
    /\ \A t \in Types : job_attachments[t] # None =>
          Unfinished(job_attachments[t]) /\ job_type[job_attachments[t]] = t
    /\ \A j \in Jobs : phase[j] = "body" => job_attachments[job_type[j]] = j

SerialInv ==
    /\ OneCallAtATime
    /\ Busy
    /\ \A j \in Jobs : EntryReaches(j)
    /\ \A c \in Callers : StartAlone(c)
    /\ Attached
MCInv == Inv /\ (serial => SerialInv)

\* With the entry or the call to reach each job under way, there is one per type.
LEMMA OnePerType ==
    ASSUME Inv, SerialInv
    PROVE  OneJobPerType
<1> SUFFICES ASSUME NEW j \in Jobs, NEW k \in Jobs, Unfinished(j), Unfinished(k),
                    job_type[j] = job_type[k]
             PROVE  j = k
  BY DEF OneJobPerType
<1>1. /\ EntryReaches(j) /\ EntryReaches(k) /\ OneCallAtATime
      /\ \A c \in Callers : StartAlone(c) /\ CallAt(c)
  BY DEF SerialInv, Inv, Calling
<1>2. CASE active_jobs[job_type[j]] = j
  BY <1>1, <1>2, ThreadFacts DEF EntryReaches, StartAlone, CallAt
<1>3. CASE \E c \in Callers : call[c].op = "register" /\ call[c].job = j
  BY <1>1, <1>3, ThreadFacts DEF EntryReaches, StartAlone, CallAt, OneCallAtATime, Idle
<1> QED
  BY <1>1, <1>2, <1>3 DEF EntryReaches

Starts == {"persist", "submit", "register"}

\* A step that no start, entry or attachment sees.
Quiet ==
    /\ UNCHANGED <<active_jobs, job_type, job_attachments>>
    /\ \A c \in Callers : call'[c] = call[c] \/ {call[c].op, call'[c].op} \cap Starts = {}
    /\ \A k \in Jobs : /\ Unfinished(k)' <=> Unfinished(k)
                       /\ phase'[k] = "body" => phase[k] = "body"

\* The steps that one of them sees.
Loud ==
    \/ \E j \in Jobs : SetJobAttachment(j) \/ Cleanup(j)
    \/ \E c \in Callers : StartPersist(c) \/ StartSubmit(c) \/ StartRegister(c)
    \/ \E c \in Callers, t \in Types : ActiveJob(c, t) \/ StartCheck(c, t)

\* What the worker and the requests do passes by the starts.
LEMMA QuietOrLoud ==
    Inv /\ SerialInv /\ [Next]_vars
  => Quiet \/ Loud
<1> SUFFICES ASSUME Inv, SerialInv, [Next]_vars
             PROVE  Quiet \/ Loud
  OBVIOUS
<1>w. Working
  BY DEF Inv
<1>b. Busy
  BY DEF SerialInv
<1>t. HandleTypes /\ RuntimeTypes /\ WorkerTypes /\ CallTypes
  BY TypeParts DEF Inv
<1>1. ASSUME NEW j \in Jobs, Dispatch(j) PROVE  Quiet \/ Loud
  <2>1. phase[j] = "idle"
    BY <1>1, <1>w DEF Dispatch, Working, JobAt
  <2> QED
    BY <1>1, <1>t, <2>1 DEF Dispatch, Quiet, Unfinished, Ended, WorkerTypes, runtimeVars
<1>2. ASSUME NEW j \in Jobs, MarkStarted(j) PROVE  Quiet \/ Loud
  BY <1>2, <1>t DEF MarkStarted, Quiet, Unfinished, Ended, WorkerTypes, handleVars, runtimeVars, workerVars, vars
<1>3. ASSUME NEW j \in Jobs, SetJobAttachment(j) PROVE  Quiet \/ Loud
  BY <1>3 DEF SetJobAttachment, Loud
<1>4. ASSUME NEW j \in Jobs, Update(j) PROVE  Quiet \/ Loud
  BY <1>4, <1>t DEF Update, Quiet, Unfinished, Ended, WorkerTypes, handleVars, runtimeVars, workerVars, vars
<1>5. ASSUME NEW j \in Jobs, RunnerEnds(j) PROVE  Quiet \/ Loud
  BY <1>5, <1>t DEF RunnerEnds, Quiet, Unfinished, Ended, WorkerTypes, handleVars, runtimeVars, workerVars, vars
<1>6. ASSUME NEW j \in Jobs, MarkFinished(j) PROVE  Quiet \/ Loud
  BY <1>6, <1>t DEF MarkFinished, Quiet, Unfinished, Ended, WorkerTypes, handleVars, runtimeVars, workerVars, vars
<1>7. ASSUME NEW j \in Jobs, WorkerAssign(j) PROVE  Quiet \/ Loud
  <2>1. phase[j] \in {"begin", "body", "ending"}
    BY <1>7, <1>w DEF WorkerAssign, Assigns, Working, JobAt
  <2> QED
    BY <1>7, <1>t, <2>1
    DEF WorkerAssign, AfterAssign, Quiet, Unfinished, Ended, WorkerTypes, runtimeVars
<1>8. ASSUME NEW j \in Jobs, Cleanup(j) PROVE  Quiet \/ Loud
  BY <1>8 DEF Cleanup, Loud
<1>9. ASSUME NEW j \in Jobs, FutureDone(j) PROVE  Quiet \/ Loud
  BY <1>9, <1>t DEF FutureDone, Quiet, Unfinished, Ended, WorkerTypes, handleVars, runtimeVars, workerVars, vars
<1>10. ASSUME NEW th \in Threads, Persist(th) PROVE  Quiet \/ Loud
  BY <1>10, <1>t DEF Persist, Quiet, Unfinished, Ended, WorkerTypes, handleVars, runtimeVars, workerVars, vars
<1>11. ASSUME NEW c \in Callers, StartPersist(c) PROVE  Quiet \/ Loud
  BY <1>11 DEF StartPersist, Loud
<1>12. ASSUME NEW c \in Callers, StartSubmit(c) PROVE  Quiet \/ Loud
  BY <1>12 DEF StartSubmit, Loud
<1>13. ASSUME NEW c \in Callers, StartRegister(c) PROVE  Quiet \/ Loud
  BY <1>13 DEF StartRegister, Loud
<1>14. ASSUME NEW c \in Callers, RequestApply(c) PROVE  Quiet \/ Loud
  <2>1. \A d \in Callers : d # c => call'[d] = call[d]
    BY <1>14, <1>t DEF RequestApply, CallTypes
  <2>2. call[c].op \notin Starts /\ call'[c].op \notin Starts
    BY <1>14, <1>t, <1>b, ThreadFacts DEF RequestApply, Starts, Requests, Idle, Busy, CallTypes
  <2> QED
    BY <1>14, <2>1, <2>2 DEF RequestApply, Quiet, Unfinished, Ended, runtimeVars, workerVars
<1>15. ASSUME NEW c \in Callers, RequestAssign(c) PROVE  Quiet \/ Loud
  <2>1. \A d \in Callers : d # c => call'[d] = call[d]
    BY <1>15, <1>t DEF RequestAssign, Assigns, CallTypes
  <2>2. call[c].op \notin Starts /\ call'[c].op \notin Starts
    BY <1>15, <1>t, <1>b, ThreadFacts DEF RequestAssign, Assigns, Starts, Requests, Idle, Busy, CallTypes
  <2> QED
    BY <1>15, <2>1, <2>2 DEF RequestAssign, Assigns, Quiet, Unfinished, Ended, runtimeVars, workerVars
<1>16. ASSUME NEW c \in Callers, NEW t \in Types, ActiveJob(c, t) PROVE  Quiet \/ Loud
  BY <1>16 DEF ActiveJob, Loud
<1>17. ASSUME NEW c \in Callers, NEW t \in Types, StartCheck(c, t) PROVE  Quiet \/ Loud
  BY <1>17 DEF StartCheck, Loud
<1>18. ASSUME NEW c \in Callers, NEW t \in Types, NEW op \in Requests, RequestLookup(c, t, op)
      PROVE  Quiet \/ Loud
  <2>1. \A d \in Callers : d # c => call'[d] = call[d]
    BY <1>18, <1>t DEF RequestLookup, BeginsCall, CallTypes
  <2>2. call[c].op \notin Starts /\ call'[c].op \notin Starts
    BY <1>18, <1>t, <1>b, ThreadFacts DEF RequestLookup, BeginsCall, Starts, Requests, Idle, Busy, CallTypes
  <2> QED
    BY <1>18, <2>1, <2>2 DEF RequestLookup, BeginsCall, Quiet, Unfinished, Ended, runtimeVars, workerVars
<1>19. ASSUME Shutdown PROVE  Quiet \/ Loud
  BY <1>19, <1>t DEF Shutdown, Quiet, Unfinished, Ended, WorkerTypes, handleVars, runtimeVars, workerVars, vars
<1>20. CASE UNCHANGED vars
  BY <1>20, <1>t DEF Quiet, Unfinished, Ended, WorkerTypes, handleVars, runtimeVars, workerVars, vars
<1> QED
  BY <1>1, <1>2, <1>3, <1>4, <1>5, <1>6, <1>7, <1>8, <1>9, <1>10, <1>11, <1>12, <1>13,
     <1>14, <1>15, <1>16, <1>17, <1>18, <1>19, <1>20 DEF Next, WorkerStep, CallStep, NewCall, Threads

\* What the starts, the entries and the attachments rest on.
Tidy ==
    /\ \A j \in Jobs : EntryReaches(j)
    /\ \A c \in Callers : StartAlone(c)
    /\ Attached

LEMMA QuietKeeps == Inv /\ SerialInv /\ Quiet => Tidy'
<1> SUFFICES ASSUME Inv, SerialInv, Quiet PROVE Tidy'
  OBVIOUS
<1>1. Tidy /\ RuntimeTypes
  BY TypeParts DEF Inv, SerialInv, Tidy
<1>2. ASSUME NEW j \in Jobs PROVE EntryReaches(j)'
  BY <1>1 DEF Tidy, Quiet, EntryReaches, Starts
<1>3. ASSUME NEW c \in Callers PROVE StartAlone(c)'
  <2>1. CASE call'[c] = call[c]
    BY <1>1, <2>1 DEF Tidy, Quiet, StartAlone
  <2>2. CASE call'[c].op \notin Starts
    BY <2>2 DEF StartAlone, Starts
  <2> QED
    BY <2>1, <2>2 DEF Quiet
<1>4. Attached'
  BY <1>1 DEF Tidy, Quiet, Attached, RuntimeTypes
<1> QED
  BY <1>2, <1>3, <1>4 DEF Tidy

\* A controller is attached to the one job of its type.
LEMMA AttachStep ==
    ASSUME Inv, SerialInv, OneCallAtATime', NEW j \in Jobs, SetJobAttachment(j)
    PROVE  Tidy'
<1>t. HandleTypes /\ RuntimeTypes /\ WorkerTypes /\ CallTypes
  BY TypeParts DEF Inv
<1>i. Tidy /\ OneCallAtATime /\ OneJobPerType /\ Working /\ Calling /\ Entered
  BY OnePerType DEF Inv, SerialInv, Tidy
<1>1. /\ phase[j] = "attach" /\ UNCHANGED <<active_jobs, job_type, call, future>>
      /\ job_attachments' = [job_attachments EXCEPT ![job_type[j]] = j]
      /\ phase' = [phase EXCEPT ![j] = "body"]
  BY DEF SetJobAttachment
<1>2. Unfinished(j) /\ job_type[j] \in Types
  BY <1>t, <1>i, <1>1, Started DEF Working, JobAt, Unfinished, Ended
<1>3. \A k \in Jobs : Unfinished(k)' <=> Unfinished(k)
  BY <1>t, <1>1 DEF Unfinished, Ended, WorkerTypes
<1>a. \A k \in Jobs : EntryReaches(k)'
  BY <1>i, <1>1, <1>3 DEF Tidy, EntryReaches
<1>b. \A c \in Callers : StartAlone(c)'
  BY <1>i, <1>1, <1>3 DEF Tidy, StartAlone
<1>4. ASSUME NEW k \in Jobs, phase'[k] = "body"
      PROVE  job_attachments'[job_type'[k]] = k
  <2>1. CASE k = j
    BY <1>t, <1>1, <1>2, <2>1 DEF RuntimeTypes
  <2>2. CASE k # j
    <3>1. phase[k] = "body" /\ Unfinished(k)
      BY <1>t, <1>i, <1>1, <1>4, <2>2, Started
      DEF Working, JobAt, Unfinished, Ended, WorkerTypes
    <3>2. job_type[k] # job_type[j]
      BY <1>i, <1>2, <2>2, <3>1 DEF OneJobPerType
    <3> QED
      BY <1>t, <1>i, <1>1, <3>1, <3>2 DEF Tidy, Attached, RuntimeTypes
  <2> QED
    BY <2>1, <2>2
<1>c. Attached'
  BY <1>t, <1>i, <1>1, <1>2, <1>3, <1>4 DEF Tidy, Attached, RuntimeTypes
<1> QED
  BY <1>a, <1>b, <1>c DEF Tidy

\* The finally block takes the entry and the attachment of its own job only.
LEMMA CleanupStep ==
    ASSUME Inv, SerialInv, OneCallAtATime', NEW j \in Jobs, Cleanup(j)
    PROVE  Tidy'
<1>t. HandleTypes /\ RuntimeTypes /\ WorkerTypes /\ CallTypes
  BY TypeParts DEF Inv
<1>i. Tidy /\ OneCallAtATime /\ OneJobPerType /\ Working /\ Calling /\ Entered
  BY OnePerType DEF Inv, SerialInv, Tidy
<1>1. /\ phase[j] = "cleanup" /\ UNCHANGED <<job_type, call, future>>
      /\ active_jobs' = ActiveAfter(j) /\ job_attachments' = AttachmentsAfter(j)
      /\ phase' = [phase EXCEPT ![j] = "exit"]
  BY DEF Cleanup
<1>2. Unfinished(j) /\ job_type[j] \in Types
  BY <1>t, <1>i, <1>1, Started DEF Working, JobAt, Unfinished, Ended
<1>3. \A k \in Jobs : Unfinished(k)' <=> Unfinished(k) /\ k # j
  BY <1>t, <1>1 DEF Unfinished, Ended, WorkerTypes
<1>4. \A t \in Types : \/ active_jobs'[t] = active_jobs[t]
                       \/ active_jobs'[t] = None /\ active_jobs[t] = j
  BY <1>t, <1>1, <1>2 DEF ActiveAfter, RuntimeTypes
<1>a. \A k \in Jobs : EntryReaches(k)'
  <2>1. ASSUME NEW k \in Jobs, Unfinished(k)' PROVE EntryReaches(k)'
    <3>1. Unfinished(k) /\ k # j /\ job_type[k] \in Types
      BY <1>t, <1>i, <1>3, <2>1 DEF Working, JobAt, Unfinished, RuntimeTypes
    <3> QED
      BY <1>i, <1>1, <1>4, <3>1 DEF Tidy, EntryReaches
  <2> QED
    BY <2>1 DEF EntryReaches
<1>b. \A c \in Callers : StartAlone(c)'
  BY <1>i, <1>1, <1>3, <1>4 DEF Tidy, StartAlone, Calling, CallAt
<1>5. /\ job_attachments'[job_type[j]] = None
      /\ \A t \in Types : t # job_type[j] => job_attachments'[t] = job_attachments[t]
  BY <1>t, <1>1, <1>2 DEF AttachmentsAfter, RuntimeTypes
<1>6. ASSUME NEW k \in Jobs, phase'[k] = "body"
      PROVE  job_attachments'[job_type'[k]] = k
  <2>1. phase[k] = "body" /\ k # j /\ Unfinished(k) /\ job_type[k] \in Types
    BY <1>t, <1>i, <1>1, <1>6, Started
    DEF Working, JobAt, Unfinished, Ended, WorkerTypes
  <2>2. job_type[k] # job_type[j]
    BY <1>i, <1>2, <2>1 DEF OneJobPerType
  <2> QED
    BY <1>i, <1>1, <1>5, <2>1, <2>2 DEF Tidy, Attached
<1>7. ASSUME NEW t \in Types, job_attachments'[t] # None
      PROVE  Unfinished(job_attachments[t])' /\ job_type'[job_attachments'[t]] = t
             /\ job_attachments'[t] = job_attachments[t]
  <2>1. t # job_type[j] /\ job_attachments'[t] = job_attachments[t]
    BY <1>5, <1>7
  <2>2. job_attachments[t] \in Jobs
    BY <1>t, <1>7, <2>1 DEF RuntimeTypes
  <2>3. Unfinished(job_attachments[t]) /\ job_type[job_attachments[t]] = t
    BY <1>i, <1>7, <2>1 DEF Tidy, Attached
  <2>4. Unfinished(job_attachments[t])'
    BY <1>t, <1>1, <2>1, <2>2, <2>3 DEF Unfinished, Ended, WorkerTypes
  <2> QED
    BY <1>1, <2>1, <2>3, <2>4
<1>c. Attached'
  BY <1>6, <1>7 DEF Attached, Unfinished, Ended
<1> QED
  BY <1>a, <1>b, <1>c DEF Tidy

\* A new id is nobody's yet.
LEMMA StartPersistStep ==
    ASSUME Inv, SerialInv, OneCallAtATime', NEW c \in Callers, StartPersist(c)
    PROVE  Tidy'
<1>t. HandleTypes /\ RuntimeTypes /\ WorkerTypes /\ CallTypes
  BY TypeParts DEF Inv
<1>i. Tidy /\ OneCallAtATime /\ OneJobPerType /\ Working /\ Calling /\ Entered
  BY OnePerType DEF Inv, SerialInv, Tidy
<1>1. PICK j \in Jobs :
         /\ job_type[j] = None /\ future[j] = "none"
         /\ job_type' = [job_type EXCEPT ![j] = call[c].type]
         /\ call'[c] = [op |-> "submit", type |-> call[c].type, job |-> j]
         /\ \A d \in Callers : d # c => call'[d] = call[d]
  BY StartFacts
<1>2. /\ UNCHANGED <<active_jobs, job_attachments, future, phase>>
      /\ call[c].op = "persist"
  BY StartFacts DEF workerVars
<1>3. \A k \in Jobs : /\ Unfinished(k)' <=> Unfinished(k)
                      /\ Unfinished(k) => k # j
                      /\ k # j => job_type'[k] = job_type[k]
  BY <1>t, <1>1, <1>2 DEF Unfinished, Ended, RuntimeTypes
<1>a. \A k \in Jobs : EntryReaches(k)'
  BY <1>i, <1>1, <1>2, <1>3 DEF Tidy, EntryReaches
<1>b. ASSUME NEW d \in Callers PROVE StartAlone(d)'
  <2>1. CASE d = c
    BY <1>i, <1>1, <1>2, <1>3, <2>1 DEF Tidy, StartAlone
  <2>2. CASE d # c
    BY <1>i, <1>1, <1>2, <1>3, <2>2 DEF Tidy, StartAlone
  <2> QED
    BY <2>1, <2>2
<1>4. ASSUME NEW k \in Jobs, phase[k] = "body" PROVE k # j
  BY <1>1, <1>4, Started
<1>5. ASSUME NEW t \in Types, job_attachments[t] # None
      PROVE  job_attachments[t] \in Jobs /\ job_attachments[t] # j
  BY <1>t, <1>i, <1>1, <1>3, <1>5 DEF Tidy, Attached, RuntimeTypes
<1>c. Attached'
  BY <1>i, <1>2, <1>3, <1>4, <1>5 DEF Tidy, Attached
<1> QED
  BY <1>a, <1>b, <1>c DEF Tidy

\* A submitted job is reached by the call that will register it.
LEMMA StartSubmitStep ==
    ASSUME Inv, SerialInv, OneCallAtATime', NEW c \in Callers, StartSubmit(c)
    PROVE  Tidy'
<1>t. HandleTypes /\ RuntimeTypes /\ WorkerTypes /\ CallTypes
  BY TypeParts DEF Inv
<1>i. Tidy /\ OneCallAtATime /\ OneJobPerType /\ Working /\ Calling /\ Entered
  BY OnePerType DEF Inv, SerialInv, Tidy
<1>0. PICK job \in Jobs : job = call[c].job
  BY DEF StartSubmit, Inv, Calling, CallAt
<1>1. /\ call[c].op = "submit" /\ job \in Jobs /\ job_type[job] = call[c].type
      /\ future[job] = "none"
      /\ UNCHANGED <<active_jobs, job_type, job_attachments, phase>>
      /\ \A d \in Callers : d # c => call'[d] = call[d]
  BY <1>0, <1>t, <1>i DEF StartSubmit, Calling, CallAt, CallTypes, runtimeVars
<1>2. \/ /\ call'[c] = Idle
         /\ UNCHANGED future
      \/ /\ call'[c] = [op |-> "register", type |-> call[c].type, job |-> job]
         /\ future' = [future EXCEPT ![job] = "queued"]
  <2>1. CASE accepting
    <3>1. call' = [call EXCEPT ![c].op = "register"]
      BY <2>1 DEF StartSubmit
    <3>2. call[c] \in Calls
      BY <1>t DEF CallTypes
    <3>3. call'[c] = [op |-> "register", type |-> call[c].type, job |-> job]
      BY <1>0, <1>t, <3>1, <3>2 DEF CallTypes, Calls
    <3> QED
      BY <1>0, <2>1, <3>3 DEF StartSubmit
  <2>2. CASE ~accepting
    BY <1>t, <2>2 DEF StartSubmit, CallTypes
  <2> QED
    BY <2>1, <2>2
<1>3. \A k \in Jobs : k # job => (Unfinished(k)' <=> Unfinished(k))
  BY <1>t, <1>1, <1>2 DEF Unfinished, Ended, WorkerTypes
<1>4. ~ Unfinished(job)
  BY <1>1 DEF Unfinished
<1>5. UNCHANGED future => ~ Unfinished(job)'
  BY <1>1 DEF Unfinished
<1>a. ASSUME NEW k \in Jobs PROVE EntryReaches(k)'
  <2>1. CASE k = job
    BY <1>2, <1>5, <2>1 DEF EntryReaches
  <2>2. CASE k # job
    BY <1>i, <1>1, <1>3, <2>2 DEF Tidy, EntryReaches
  <2> QED
    BY <2>1, <2>2
<1>b. ASSUME NEW d \in Callers PROVE StartAlone(d)'
  <2>1. CASE d = c
    BY <1>i, <1>1, <1>2, <1>3, <2>1 DEF Tidy, StartAlone, Idle
  <2>2. CASE d # c
    <3>1. call'[d] = Idle
      BY <1>i, <1>1, <2>2 DEF OneCallAtATime, Idle
    <3> QED
      BY <3>1 DEF StartAlone, Idle
  <2> QED
    BY <2>1, <2>2
<1>6. ASSUME NEW t \in Types, job_attachments[t] # None
      PROVE  job_attachments[t] \in Jobs /\ job_attachments[t] # job
  BY <1>t, <1>i, <1>4, <1>6 DEF Tidy, Attached, RuntimeTypes
<1>7. ASSUME NEW t \in Types, job_attachments[t] # None
      PROVE  Unfinished(job_attachments[t])'
  BY <1>t, <1>i, <1>1, <1>2, <1>6, <1>7
  DEF Tidy, Attached, Unfinished, Ended, WorkerTypes
<1>c. Attached'
  BY <1>i, <1>1, <1>7 DEF Tidy, Attached, Unfinished, Ended
<1> QED
  BY <1>a, <1>b, <1>c DEF Tidy

\* The entry takes over from the call.
LEMMA StartRegisterStep ==
    ASSUME Inv, SerialInv, OneCallAtATime', NEW c \in Callers, StartRegister(c)
    PROVE  Tidy'
<1>t. HandleTypes /\ RuntimeTypes /\ WorkerTypes /\ CallTypes
  BY TypeParts DEF Inv
<1>i. Tidy /\ OneCallAtATime /\ OneJobPerType /\ Working /\ Calling /\ Entered
  BY OnePerType DEF Inv, SerialInv, Tidy
<1>1. /\ call[c].op = "register" /\ call[c].job \in Jobs /\ call[c].type \in Types
      /\ job_type[call[c].job] = call[c].type
      /\ active_jobs' = [active_jobs EXCEPT ![call[c].type] = call[c].job]
      /\ UNCHANGED <<job_type, job_attachments, future, phase>>
      /\ call'[c] = Idle
      /\ \A d \in Callers : d # c => call'[d] = call[d]
  BY <1>t, <1>i DEF StartRegister, Calling, CallAt, CallTypes, workerVars
<1>2. \A k \in Jobs : Unfinished(k)' <=> Unfinished(k)
  BY <1>1 DEF Unfinished, Ended
<1>3. \A d \in Callers : d # c => call[d] = Idle
  BY <1>i, <1>1 DEF OneCallAtATime, Idle
<1>4. /\ active_jobs'[call[c].type] = call[c].job
      /\ \A t \in Types : t # call[c].type => active_jobs'[t] = active_jobs[t]
  BY <1>t, <1>1 DEF RuntimeTypes
<1>a. ASSUME NEW k \in Jobs PROVE EntryReaches(k)'
  <2>1. SUFFICES ASSUME Unfinished(k) PROVE active_jobs'[job_type[k]] = k
    BY <1>1, <1>2 DEF EntryReaches
  <2>2. job_type[k] \in Types
    BY <1>t, <1>i, <2>1 DEF Working, JobAt, Unfinished, RuntimeTypes
  <2>3. CASE job_type[k] = call[c].type
    BY <1>i, <1>1, <1>4, <2>1, <2>3 DEF Tidy, StartAlone
  <2>4. CASE job_type[k] # call[c].type
    <3>1. active_jobs[job_type[k]] = k
      BY <1>i, <1>1, <1>3, <2>1, <2>4 DEF Tidy, EntryReaches, Idle
    <3> QED
      BY <1>4, <2>2, <2>4, <3>1
  <2> QED
    BY <2>3, <2>4
<1>b. ASSUME NEW d \in Callers PROVE StartAlone(d)'
  BY <1>1, <1>3 DEF StartAlone, Idle
<1>c. Attached'
  BY <1>i, <1>1, <1>2 DEF Tidy, Attached, Unfinished, Ended
<1> QED
  BY <1>a, <1>b, <1>c DEF Tidy

\* The entry an active_job drops is that of a job that is over.
LEMMA ActiveJobStep ==
    ASSUME Inv, SerialInv, OneCallAtATime', NEW c \in Callers, NEW t \in Types, ActiveJob(c, t)
    PROVE  Tidy'
<1>t. HandleTypes /\ RuntimeTypes /\ WorkerTypes /\ CallTypes
  BY TypeParts DEF Inv
<1>i. Tidy /\ OneCallAtATime /\ OneJobPerType /\ Working /\ Calling /\ Entered
  BY OnePerType DEF Inv, SerialInv, Tidy
<1>1. /\ UNCHANGED <<job_type, job_attachments, future, phase>>
      /\ active_jobs' = AfterPeek(t)
      /\ \A d \in Callers : call'[d] = call[d]
  BY <1>t DEF ActiveJob, BeginsCall, CallTypes, workerVars
<1>2. \A k \in Jobs : Unfinished(k)' <=> Unfinished(k)
  BY <1>1 DEF Unfinished, Ended
<1>3. \A u \in Types : \/ active_jobs'[u] = active_jobs[u]
                       \/ active_jobs'[u] = None /\ ~ Unfinished(active_jobs[u])
  BY <1>t, <1>1 DEF AfterPeek, Unfinished, RuntimeTypes
<1>a. ASSUME NEW k \in Jobs PROVE EntryReaches(k)'
  <2>1. Unfinished(k) => job_type[k] \in Types
    BY <1>t, <1>i DEF Working, JobAt, Unfinished, RuntimeTypes
  <2> QED
    BY <1>i, <1>1, <1>2, <1>3, <2>1 DEF Tidy, EntryReaches
<1>b. ASSUME NEW d \in Callers PROVE StartAlone(d)'
  BY <1>i, <1>1, <1>2, <1>3 DEF Tidy, StartAlone, Calling, CallAt
<1>c. Attached'
  BY <1>i, <1>1, <1>2 DEF Tidy, Attached, Unfinished, Ended
<1> QED
  BY <1>a, <1>b, <1>c DEF Tidy

\* A start that finds no entry finds no job of its type.
LEMMA StartCheckStep ==
    ASSUME Inv, SerialInv, OneCallAtATime', NEW c \in Callers, NEW t \in Types, StartCheck(c, t)
    PROVE  Tidy'
<1>t. HandleTypes /\ RuntimeTypes /\ WorkerTypes /\ CallTypes
  BY TypeParts DEF Inv
<1>i. Tidy /\ OneCallAtATime /\ OneJobPerType /\ Working /\ Calling /\ Entered
  BY OnePerType DEF Inv, SerialInv, Tidy
<1>1. /\ UNCHANGED <<active_jobs, job_type, job_attachments, future, phase>>
      /\ active_jobs[t] = None /\ call[c] = Idle
      /\ call'[c] = [op |-> "persist", type |-> t, job |-> None]
      /\ \A d \in Callers : d # c => call'[d] = call[d]
  BY <1>t
  DEF StartCheck, ActiveCheck, BeginsCall, CallTypes, runtimeVars, workerVars
<1>2. \A k \in Jobs : Unfinished(k)' <=> Unfinished(k)
  BY <1>1 DEF Unfinished, Ended
<1>3. \A d \in Callers : call[d] = Idle
  BY <1>1 DEF OneCallAtATime, Idle
<1>4. \A k \in Jobs : Unfinished(k) => active_jobs[job_type[k]] = k
  BY <1>i, <1>3 DEF Tidy, EntryReaches, Idle
<1>a. ASSUME NEW k \in Jobs PROVE EntryReaches(k)'
  BY <1>1, <1>2, <1>4 DEF EntryReaches
<1>b. ASSUME NEW d \in Callers PROVE StartAlone(d)'
  BY <1>1, <1>2, <1>3, <1>4, ThreadFacts DEF StartAlone, Idle
<1>c. Attached'
  BY <1>i, <1>1, <1>2 DEF Tidy, Attached, Unfinished, Ended
<1> QED
  BY <1>a, <1>b, <1>c DEF Tidy

\* Requests keep their writes to themselves.
LEMMA BusyStep ==
    Inv /\ SerialInv /\ [Next]_vars
  => Busy'
<1> SUFFICES ASSUME Inv, SerialInv, [Next]_vars
             PROVE  Busy'
  OBVIOUS
<1>b. Busy
  BY DEF SerialInv
<1>t. HandleTypes /\ RuntimeTypes /\ WorkerTypes /\ CallTypes
  BY TypeParts DEF Inv
<1>1. ASSUME NEW j \in Jobs, Dispatch(j) PROVE  Busy'
  BY <1>1, <1>t, <1>b DEF Dispatch, Busy, CallTypes, Writes, handleVars, runtimeVars, workerVars, vars
<1>2. ASSUME NEW j \in Jobs, MarkStarted(j) PROVE  Busy'
  <2>1. \A c \in Callers : write'[c] = write[c] /\ call'[c] = call[c]
    BY <1>2, <1>t, ThreadFacts DEF MarkStarted, Copies, Assigns, CallTypes
  <2> QED
    BY <1>b, <2>1 DEF Busy
<1>3. ASSUME NEW j \in Jobs, SetJobAttachment(j) PROVE  Busy'
  BY <1>3, <1>t, <1>b DEF SetJobAttachment, Busy, CallTypes, Writes, handleVars, runtimeVars, workerVars, vars
<1>4. ASSUME NEW j \in Jobs, Update(j) PROVE  Busy'
  <2>1. \A c \in Callers : write'[c] = write[c] /\ call'[c] = call[c]
    BY <1>4, <1>t, ThreadFacts DEF Update, Copies, Assigns, CallTypes
  <2> QED
    BY <1>b, <2>1 DEF Busy
<1>5. ASSUME NEW j \in Jobs, RunnerEnds(j) PROVE  Busy'
  BY <1>5, <1>t, <1>b DEF RunnerEnds, Busy, CallTypes, Writes, handleVars, runtimeVars, workerVars, vars
<1>6. ASSUME NEW j \in Jobs, MarkFinished(j) PROVE  Busy'
  <2>1. \A c \in Callers : write'[c] = write[c] /\ call'[c] = call[c]
    BY <1>6, <1>t, ThreadFacts DEF MarkFinished, Copies, Assigns, CallTypes
  <2> QED
    BY <1>b, <2>1 DEF Busy
<1>7. ASSUME NEW j \in Jobs, WorkerAssign(j) PROVE  Busy'
  <2>1. \A c \in Callers : write'[c] = write[c] /\ call'[c] = call[c]
    BY <1>7, <1>t, ThreadFacts DEF WorkerAssign, Copies, Assigns, CallTypes
  <2> QED
    BY <1>b, <2>1 DEF Busy
<1>8. ASSUME NEW j \in Jobs, Cleanup(j) PROVE  Busy'
  BY <1>8, <1>t, <1>b DEF Cleanup, Busy, CallTypes, Writes, handleVars, runtimeVars, workerVars, vars
<1>9. ASSUME NEW j \in Jobs, FutureDone(j) PROVE  Busy'
  BY <1>9, <1>t, <1>b DEF FutureDone, Busy, CallTypes, Writes, handleVars, runtimeVars, workerVars, vars
<1>10. ASSUME NEW th \in Threads, Persist(th) PROVE  Busy'
  BY <1>10, <1>t, <1>b DEF Persist, Busy, CallTypes, Writes, handleVars, runtimeVars, workerVars, vars
<1>11. ASSUME NEW c \in Callers, StartPersist(c) PROVE  Busy'
  BY <1>11, <1>t, <1>b DEF StartPersist, Busy, CallTypes, Writes, handleVars, runtimeVars, workerVars, vars
<1>12. ASSUME NEW c \in Callers, StartSubmit(c) PROVE  Busy'
  BY <1>12, <1>t, <1>b DEF StartSubmit, Busy, CallTypes, Writes, handleVars, runtimeVars, workerVars, vars
<1>13. ASSUME NEW c \in Callers, StartRegister(c) PROVE  Busy'
  BY <1>13, <1>t, <1>b DEF StartRegister, Busy, CallTypes, Writes, handleVars, runtimeVars, workerVars, vars
<1>14. ASSUME NEW c \in Callers, RequestApply(c) PROVE  Busy'
  <2>1. call'[c].op = "writing"
        /\ \A d \in Callers : d # c => write'[d] = write[d] /\ call'[d] = call[d]
    BY <1>14, <1>t, ThreadFacts DEF RequestApply, Copies, CallTypes
  <2> QED
    BY <1>b, <2>1 DEF Busy
<1>15. ASSUME NEW c \in Callers, RequestAssign(c) PROVE  Busy'
  <2>1. write'[c].step = "none"
        /\ \A d \in Callers : d # c => write'[d] = write[d] /\ call'[d] = call[d]
    BY <1>15, <1>t, ThreadFacts DEF RequestAssign, Assigns, NoWrite, CallTypes
  <2> QED
    BY <1>b, <2>1 DEF Busy
<1>16. ASSUME NEW c \in Callers, NEW t \in Types, ActiveJob(c, t) PROVE  Busy'
  <2>1. UNCHANGED write /\ \A d \in Callers : call'[d] = call[d] \/ write[d].step = "none"
    BY <1>16, <1>t, <1>b DEF ActiveJob, BeginsCall, Busy, Idle, CallTypes
  <2> QED
    BY <1>b, <2>1 DEF Busy
<1>17. ASSUME NEW c \in Callers, NEW t \in Types, StartCheck(c, t) PROVE  Busy'
  <2>1. UNCHANGED write /\ \A d \in Callers : call'[d] = call[d] \/ write[d].step = "none"
    BY <1>17, <1>t, <1>b DEF StartCheck, BeginsCall, Busy, Idle, CallTypes
  <2> QED
    BY <1>b, <2>1 DEF Busy
<1>18. ASSUME NEW c \in Callers, NEW t \in Types, NEW op \in Requests, RequestLookup(c, t, op)
      PROVE  Busy'
  <2>1. UNCHANGED write /\ \A d \in Callers : call'[d] = call[d] \/ write[d].step = "none"
    BY <1>18, <1>t, <1>b DEF RequestLookup, BeginsCall, Busy, Idle, CallTypes
  <2> QED
    BY <1>b, <2>1 DEF Busy
<1>19. ASSUME Shutdown PROVE  Busy'
  BY <1>19, <1>t, <1>b DEF Shutdown, Busy, CallTypes, Writes, handleVars, runtimeVars, workerVars, vars
<1>20. CASE UNCHANGED vars
  BY <1>20, <1>t, <1>b DEF Busy, CallTypes, Writes, handleVars, runtimeVars, workerVars, vars
<1> QED
  BY <1>1, <1>2, <1>3, <1>4, <1>5, <1>6, <1>7, <1>8, <1>9, <1>10, <1>11, <1>12, <1>13,
     <1>14, <1>15, <1>16, <1>17, <1>18, <1>19, <1>20 DEF Next, WorkerStep, CallStep, NewCall, Threads

LEMMA SerialStep == Inv /\ SerialInv /\ [Next]_vars /\ OneCallAtATime' => SerialInv'
<1> SUFFICES ASSUME Inv, SerialInv, [Next]_vars, OneCallAtATime' PROVE SerialInv'
  OBVIOUS
<1>1. Tidy'
  <2>1. CASE Quiet
    BY <2>1, QuietKeeps
  <2>2. CASE Loud
    BY <2>2, AttachStep, CleanupStep, StartPersistStep, StartSubmitStep,
       StartRegisterStep, ActiveJobStep, StartCheckStep DEF Loud
  <2> QED
    BY <2>1, <2>2, QuietOrLoud
<1> QED
  BY <1>1, BusyStep DEF Tidy, SerialInv

LEMMA SerialInit == Init => SerialInv
<1> SUFFICES ASSUME Init PROVE SerialInv
  OBVIOUS
<1>1. OneCallAtATime /\ Busy
  BY ThreadFacts DEF Init, OneCallAtATime, Busy, NoWrite
<1>2. (\A j \in Jobs : EntryReaches(j)) /\ (\A c \in Callers : StartAlone(c))
  BY DEF Init, EntryReaches, Unfinished, StartAlone, Idle
<1>3. Attached
  BY DEF Init, Attached
<1> QED
  BY <1>1, <1>2, <1>3 DEF SerialInv

\* Clients that wait for each answer, whichever threads serve them, never have two
\* jobs of a type under way, and the controller attached to a type is that of its
\* job: with one call at a time, the check of active_job still holds when
\* start_job registers.
THEOREM SerialClients == MCSpec => []OneClientOneJob
<1>1. MCInit => MCInv
  BY InitInv, SerialInit DEF MCInit, MCInv
<1>2. MCInv /\ [MCNext]_<<vars, serial>> => MCInv'
  <2> SUFFICES ASSUME MCInv, [MCNext]_<<vars, serial>> PROVE MCInv'
    OBVIOUS
  <2>1. [Next]_vars /\ serial' = serial
    BY DEF MCNext
  <2>2. Inv'
    BY <2>1, InvStep DEF MCInv
  <2>3. ASSUME serial PROVE SerialInv'
    <3>1. CASE UNCHANGED <<vars, serial>>
      <4>1. OneCallAtATime'
        BY <2>3, <3>1 DEF MCInv, SerialInv, OneCallAtATime, vars
      <4> QED
        BY <2>1, <2>3, <4>1, SerialStep DEF MCInv
    <3>2. CASE MCNext
      BY <2>1, <2>3, <3>2, SerialStep DEF MCInv, MCNext
    <3> QED
      BY <3>1, <3>2
  <2> QED
    BY <2>1, <2>2, <2>3 DEF MCInv
<1>3. MCInv => OneClientOneJob
  <2> SUFFICES ASSUME Inv, SerialInv PROVE OneJobPerType /\ AttachmentFollowsJob
    BY DEF MCInv, OneClientOneJob
  <2>1. AttachmentFollowsJob
    BY DEF SerialInv, Attached, AttachmentFollowsJob
  <2> QED
    BY <2>1, OnePerType
<1> QED
  BY <1>1, <1>2, <1>3, PTL DEF MCSpec
=============================================================================
