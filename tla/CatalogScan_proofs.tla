------------------------- MODULE CatalogScan_proofs -------------------------
(***************************************************************************)
(* Theorems about CatalogScan, for any number of workers, units, requests, *)
(* faults and crashes.                                                     *)
(*                                                                         *)
(* The safety invariants follow from one inductive invariant, Inv.  Beside *)
(* the types it says in which phases of the job workers run at all, which  *)
(* session states go with which phases, that a row in progress belongs to  *)
(* a worker that works on it or was lost, and that a worker which left on  *)
(* its own account had found the queue drained.                            *)
(***************************************************************************)
EXTENDS CatalogScan, FiniteSetTheorems, TLAPS

-----------------------------------------------------------------------------
(* The inductive invariant.                                                 *)

\* Worker threads exist only while the job thread waits for them.
WorkersOnlyInScan == job # "scan" => AllOff

\* From selection to the final mark the session of the job is running.
SessionOfJob ==
    /\ job = "select" => session \in {"none", "running"}
    /\ job \notin {"none", "select"} => session = "running"

\* A worker in the middle of a unit holds that unit's row.
WorkerHoldsRow ==
    \A w \in Workers : pc[w] = "work" =>
        item[w] \in Items /\ queue[item[w]] = "processing" /\ owner[item[w]] = w

\* A row in progress is held by a worker in the middle of it, or one that died.
RowHeldByWorker ==
    job \in {"scan", "commit"} =>
        \A i \in Items : queue[i] = "processing" =>
            /\ owner[i] \in Workers
            /\ owner[i] \in died \/ (pc[owner[i]] = "work" /\ item[owner[i]] = i)

\* No row is in progress between selection and the scan, nor once the
\* interrupted scan has put its rows back.
NothingClaimed ==
    job \in {"prepare", "seed", "mark"} \/ session \in {"none", "paused", "stopped"} =>
        \A i \in Items : queue[i] # "processing"

\* The workers run on a queue that holds the whole root.
QueueIsWhole ==
    job \in {"scan", "commit"} => \A i \in Items : queue[i] # "absent"
WalkIsWhole ==
    job = "seed" /\ control_state = "running" => collected = Items

\* With no reason to stop and nobody lost, a worker that has left and was not
\* stopped by itself had seen that nothing was pending.
LeaverSawDrained ==
    (job \in {"scan", "commit"} /\ stop_reason = None /\ died = {}) =>
        \A w \in Workers \ stopped : pc[w] = "off" => Drained
CommitHasNoReason == job = "commit" => stop_reason = None
InterruptHasReason ==
    job \in {"finalize", "mark"} => stop_reason \in {"paused", "stopped"}

\* "stopped" is read, acted on and recorded only while the stop event is set,
\* and it is never cleared.
StopIsReal ==
    /\ stop_reason = "stopped" => stop_event
    /\ job = "seed" /\ control_state = "stopped" => stop_event
    /\ \A w \in Workers : pc[w] = "obey_stop" => stop_event

\* A worker that has claimed against a request meets it at the top of its loop.
LateWorkerLeaves ==
    \A w \in Workers : late[w] # 0 =>
        /\ late[w] = 1 /\ EndWanted /\ pc[w] # "wait"
        /\ pc[w] = "top" => stop_event \/ pause_event
        /\ job \notin {"select", "prepare", "seed"}

Phases ==
    WorkersOnlyInScan /\ SessionOfJob /\ WalkIsWhole /\ CommitHasNoReason
        /\ InterruptHasReason
Rows == WorkerHoldsRow /\ RowHeldByWorker /\ NothingClaimed /\ QueueIsWhole
Inv ==
    /\ TypeOK /\ Phases /\ Rows
    /\ LeaverSawDrained /\ CommitDrained
    /\ StopIsReal /\ LateWorkerLeaves
    /\ CountedOnce

\* Every step of the scan keeps the types; the final mark writes a reason that is
\* a status (mark_session_paused, mark_session_stopped).
LEMMA TypeStep == TypeOK /\ InterruptHasReason /\ [Next]_vars => TypeOK'
<1> SUFFICES ASSUME TypeOK, InterruptHasReason, [Next]_vars PROVE TypeOK'
  OBVIOUS
<1> USE SetsAssumption, BoundsAssumption DEF TypeOK, Statuses, QueueStatuses, Bounded,
     InterruptHasReason, vars, dbVars, controlVars, jobVars, workerVars
<1>2. CASE StopBeforeRoot
  BY <1>2 DEF StopBeforeRoot
<1>3. CASE SelectSession
  BY <1>3 DEF SelectSession, Reopen, Requeue
<1>4. CASE RootUnreadable
  BY <1>4 DEF RootUnreadable
<1>5. CASE WalkRoot
  BY <1>5 DEF WalkRoot
<1>6. CASE SeedQueue
  BY <1>6 DEF SeedQueue, Seeded
<1>7. CASE Join
  BY <1>7 DEF Join, AfterJoin
<1>8. CASE FinalizeRequeue
  BY <1>8 DEF FinalizeRequeue, FinalRequeue, Requeue
<1>9. CASE FinalizeMark
  BY <1>9 DEF FinalizeMark
<1>10. CASE CommitSession
  BY <1>10 DEF CommitSession
<1>11. CASE RecoverScan
  BY <1>11 DEF RecoverScan, Reopen, Requeue, FreshJob
<1>12. CASE RetireSession
  BY <1>12 DEF RetireSession
<1>13. CASE StartScan
  BY <1>13 DEF StartScan, FreshJob
<1>14. CASE ResumeScan
  BY <1>14 DEF ResumeScan, Reopen, Requeue, FreshJob
<1>15. CASE RequestPause
  BY <1>15 DEF RequestPause, Spend
<1>16. CASE RequestResume
  <2>1. late' \in [Workers -> Nat]
    BY <1>16 DEF RequestResume
  <2>2. spent' \in [Bounded -> Nat]
    BY <1>16 DEF RequestResume, Spend
  <2> QED
    BY <1>16, <2>1, <2>2 DEF RequestResume
<1>17. CASE RequestStop
  BY <1>17 DEF RequestStop, Spend
<1>18. CASE Crash
  BY <1>18 DEF Crash, Spend
<1>19. ASSUME NEW w \in Workers, ReadControl(w) PROVE TypeOK'
  BY <1>19 DEF ReadControl, AfterControl
<1>20. ASSUME NEW w \in Workers, ObeyControl(w) PROVE TypeOK'
  BY <1>20 DEF ObeyControl, Requeue
<1>21. ASSUME NEW w \in Workers, LeaveStopped(w) PROVE TypeOK'
  BY <1>21 DEF LeaveStopped, Requeue
<1>22. ASSUME NEW w \in Workers, Claim(w) PROVE TypeOK'
  BY <1>22 DEF Claim, Runnable, Claimable, EndWanted
<1>23. ASSUME NEW w \in Workers, LeaveDrained(w) PROVE TypeOK'
  BY <1>23 DEF LeaveDrained, Runnable, Drained
<1>24. ASSUME NEW w \in Workers, Apply(w) PROVE TypeOK'
  <2>1. queue' \in [Items -> QueueStatuses] /\ owner' \in [Items -> Workers \cup {None}]
    BY <1>24 DEF Apply
  <2>2. pc' \in [Workers -> {"off", "top", "obey_stop", "obey_pause", "wait", "work",
       "count"}]
    BY <1>24 DEF Apply
  <2> QED
    BY <1>24, <2>1, <2>2 DEF Apply
<1>25. ASSUME NEW w \in Workers, CountFiles(w) PROVE TypeOK'
  BY <1>25 DEF CountFiles, LimitReached, AfterCount
<1>26. ASSUME NEW w \in Workers, Die(w) PROVE TypeOK'
  <2>1. spent' \in [Bounded -> Nat]
    BY <1>26 DEF Die, Spend
  <2>2. item' \in [Workers -> Items \cup {None}] /\ died' \in SUBSET Workers
    BY <1>26 DEF Die
  <2> QED
    BY <1>26, <2>1, <2>2 DEF Die
<1>27. ASSUME NEW w \in Workers, PauseActor(w) PROVE TypeOK'
  BY <1>27 DEF PauseActor, Spend
<1>28. ASSUME NEW w \in Workers, ResumeActor(w) PROVE TypeOK'
  BY <1>28 DEF ResumeActor
<1>29. ASSUME NEW w \in Workers, StopActor(w) PROVE TypeOK'
  BY <1>29 DEF StopActor, Spend
<1>30. CASE UNCHANGED vars
  BY <1>30
<1> QED
  BY <1>2, <1>3, <1>4, <1>5, <1>6, <1>7, <1>8, <1>9, <1>10, <1>11, <1>12, <1>13, <1>14,
       <1>15, <1>16, <1>17, <1>18, <1>19, <1>20, <1>21, <1>22, <1>23, <1>24, <1>25,
       <1>26, <1>27, <1>28, <1>29, <1>30 DEF Next, JobStep, WorkerStep, Operator

\* The phases of the job, the session status and the stop reason stay in step.
LEMMA PhaseStep == TypeOK /\ Phases /\ [Next]_vars => Phases'
<1> SUFFICES ASSUME TypeOK, Phases, [Next]_vars PROVE Phases'
  OBVIOUS
<1> USE DEF Phases, WorkersOnlyInScan, SessionOfJob, WalkIsWhole, CommitHasNoReason,
     InterruptHasReason, AllOff, TypeOK, vars, dbVars, controlVars, jobVars, workerVars
<1>2. CASE StopBeforeRoot
  BY <1>2 DEF StopBeforeRoot
<1>3. CASE SelectSession
  BY <1>3 DEF SelectSession, Reopen, Requeue
<1>4. CASE RootUnreadable
  BY <1>4 DEF RootUnreadable
<1>5. CASE WalkRoot
  BY <1>5 DEF WalkRoot
<1>6. CASE SeedQueue
  BY <1>6 DEF SeedQueue, Seeded
<1>7. CASE Join
  BY <1>7 DEF Join, AfterJoin
<1>8. CASE FinalizeRequeue
  BY <1>8 DEF FinalizeRequeue, FinalRequeue, Requeue
<1>9. CASE FinalizeMark
  BY <1>9 DEF FinalizeMark
<1>10. CASE CommitSession
  BY <1>10 DEF CommitSession
<1>11. CASE RecoverScan
  BY <1>11 DEF RecoverScan, Reopen, Requeue, FreshJob
<1>12. CASE RetireSession
  BY <1>12 DEF RetireSession
<1>13. CASE StartScan
  BY <1>13 DEF StartScan, FreshJob
<1>14. CASE ResumeScan
  BY <1>14 DEF ResumeScan, Reopen, Requeue, FreshJob
<1>15. CASE RequestPause
  BY <1>15 DEF RequestPause, Spend
<1>16. CASE RequestResume
  BY <1>16 DEF RequestResume, Spend
<1>17. CASE RequestStop
  BY <1>17 DEF RequestStop, Spend
<1>18. CASE Crash
  BY <1>18 DEF Crash, Spend
<1>19. ASSUME NEW w \in Workers, ReadControl(w) PROVE Phases'
  BY <1>19 DEF ReadControl, AfterControl
<1>20. ASSUME NEW w \in Workers, ObeyControl(w) PROVE Phases'
  BY <1>20 DEF ObeyControl, Requeue
<1>21. ASSUME NEW w \in Workers, LeaveStopped(w) PROVE Phases'
  BY <1>21 DEF LeaveStopped, Requeue
<1>22. ASSUME NEW w \in Workers, Claim(w) PROVE Phases'
  BY <1>22 DEF Claim, Runnable, Claimable, EndWanted
<1>23. ASSUME NEW w \in Workers, LeaveDrained(w) PROVE Phases'
  BY <1>23 DEF LeaveDrained, Runnable, Drained
<1>24. ASSUME NEW w \in Workers, Apply(w) PROVE Phases'
  BY <1>24 DEF Apply
<1>25. ASSUME NEW w \in Workers, CountFiles(w) PROVE Phases'
  BY <1>25 DEF CountFiles, LimitReached, AfterCount
<1>26. ASSUME NEW w \in Workers, Die(w) PROVE Phases'
  BY <1>26 DEF Die, Spend
<1>27. ASSUME NEW w \in Workers, PauseActor(w) PROVE Phases'
  BY <1>27 DEF PauseActor, Spend
<1>28. ASSUME NEW w \in Workers, ResumeActor(w) PROVE Phases'
  BY <1>28 DEF ResumeActor
<1>29. ASSUME NEW w \in Workers, StopActor(w) PROVE Phases'
  BY <1>29 DEF StopActor, Spend
<1>30. CASE UNCHANGED vars
  BY <1>30
<1> QED
  BY <1>2, <1>3, <1>4, <1>5, <1>6, <1>7, <1>8, <1>9, <1>10, <1>11, <1>12, <1>13, <1>14,
       <1>15, <1>16, <1>17, <1>18, <1>19, <1>20, <1>21, <1>22, <1>23, <1>24, <1>25,
       <1>26, <1>27, <1>28, <1>29, <1>30 DEF Next, JobStep, WorkerStep, Operator

\* The claims recorded in the queue and those of the threads stay in step.
LEMMA RowStep == TypeOK /\ Phases /\ Rows /\ [Next]_vars => Rows'
<1> SUFFICES ASSUME TypeOK, Phases, Rows, [Next]_vars PROVE Rows'
  OBVIOUS
<1> USE SetsAssumption DEF Rows, WorkerHoldsRow, RowHeldByWorker, NothingClaimed,
     QueueIsWhole, TypeOK, Statuses, QueueStatuses, Phases, WorkersOnlyInScan,
     SessionOfJob, WalkIsWhole, InterruptHasReason, AllOff, vars, dbVars, controlVars,
     jobVars, workerVars
<1>2. CASE StopBeforeRoot
  BY <1>2 DEF StopBeforeRoot
<1>3. CASE SelectSession
  BY <1>3 DEF SelectSession, Reopen, Requeue
<1>4. CASE RootUnreadable
  BY <1>4 DEF RootUnreadable
<1>5. CASE WalkRoot
  BY <1>5 DEF WalkRoot
<1>6. CASE SeedQueue
  BY <1>6 DEF SeedQueue, Seeded
<1>7. CASE Join
  BY <1>7 DEF Join, AfterJoin
<1>8. CASE FinalizeRequeue
  BY <1>8 DEF FinalizeRequeue, FinalRequeue, Requeue
<1>9. CASE FinalizeMark
  BY <1>9 DEF FinalizeMark
<1>10. CASE CommitSession
  BY <1>10 DEF CommitSession
<1>11. CASE RecoverScan
  BY <1>11 DEF RecoverScan, Reopen, Requeue, FreshJob
<1>12. CASE RetireSession
  BY <1>12 DEF RetireSession
<1>13. CASE StartScan
  BY <1>13 DEF StartScan, FreshJob
<1>14. CASE ResumeScan
  BY <1>14 DEF ResumeScan, Reopen, Requeue, FreshJob
<1>15. CASE RequestPause
  BY <1>15 DEF RequestPause, Spend
<1>16. CASE RequestResume
  BY <1>16 DEF RequestResume, Spend
<1>17. CASE RequestStop
  BY <1>17 DEF RequestStop, Spend
<1>18. CASE Crash
  BY <1>18 DEF Crash, Spend
<1>19. ASSUME NEW w \in Workers, ReadControl(w) PROVE Rows'
  BY <1>19 DEF ReadControl, AfterControl
<1>20. ASSUME NEW w \in Workers, ObeyControl(w) PROVE Rows'
  BY <1>20 DEF ObeyControl, Requeue
<1>21. ASSUME NEW w \in Workers, LeaveStopped(w) PROVE Rows'
  BY <1>21 DEF LeaveStopped, Requeue
<1>22. ASSUME NEW w \in Workers, Claim(w) PROVE Rows'
  BY <1>22 DEF Claim, Runnable, Claimable, EndWanted
<1>23. ASSUME NEW w \in Workers, LeaveDrained(w) PROVE Rows'
  BY <1>23 DEF LeaveDrained, Runnable, Drained
<1>24. ASSUME NEW w \in Workers, Apply(w) PROVE Rows'
  BY <1>24 DEF Apply
<1>25. ASSUME NEW w \in Workers, CountFiles(w) PROVE Rows'
  BY <1>25 DEF CountFiles, LimitReached, AfterCount
<1>26. ASSUME NEW w \in Workers, Die(w) PROVE Rows'
  BY <1>26 DEF Die, Spend
<1>27. ASSUME NEW w \in Workers, PauseActor(w) PROVE Rows'
  BY <1>27 DEF PauseActor, Spend
<1>28. ASSUME NEW w \in Workers, ResumeActor(w) PROVE Rows'
  BY <1>28 DEF ResumeActor
<1>29. ASSUME NEW w \in Workers, StopActor(w) PROVE Rows'
  BY <1>29 DEF StopActor, Spend
<1>30. CASE UNCHANGED vars
  BY <1>30
<1> QED
  BY <1>2, <1>3, <1>4, <1>5, <1>6, <1>7, <1>8, <1>9, <1>10, <1>11, <1>12, <1>13, <1>14,
       <1>15, <1>16, <1>17, <1>18, <1>19, <1>20, <1>21, <1>22, <1>23, <1>24, <1>25,
       <1>26, <1>27, <1>28, <1>29, <1>30 DEF Next, JobStep, WorkerStep, Operator

\* Once a worker has seen the queue drained, nothing becomes pending again.
LEMMA DrainStep == TypeOK /\ Phases /\ Rows /\ LeaverSawDrained /\ [Next]_vars =>
    LeaverSawDrained'
<1> SUFFICES ASSUME TypeOK, Phases, Rows, LeaverSawDrained, [Next]_vars PROVE
     LeaverSawDrained'
  OBVIOUS
<1> USE SetsAssumption DEF LeaverSawDrained, Drained, Rows, WorkerHoldsRow,
     RowHeldByWorker, TypeOK, QueueStatuses, Phases, WorkersOnlyInScan, SessionOfJob,
     AllOff, vars, dbVars, controlVars, jobVars, workerVars
<1>2. CASE StopBeforeRoot
  BY <1>2 DEF StopBeforeRoot
<1>3. CASE SelectSession
  BY <1>3 DEF SelectSession, Reopen, Requeue
<1>4. CASE RootUnreadable
  BY <1>4 DEF RootUnreadable
<1>5. CASE WalkRoot
  BY <1>5 DEF WalkRoot
<1>6. CASE SeedQueue
  BY <1>6 DEF SeedQueue, Seeded
<1>7. CASE Join
  BY <1>7 DEF Join, AfterJoin
<1>8. CASE FinalizeRequeue
  BY <1>8 DEF FinalizeRequeue, FinalRequeue, Requeue
<1>9. CASE FinalizeMark
  BY <1>9 DEF FinalizeMark
<1>10. CASE CommitSession
  BY <1>10 DEF CommitSession
<1>11. CASE RecoverScan
  BY <1>11 DEF RecoverScan, Reopen, Requeue, FreshJob
<1>12. CASE RetireSession
  BY <1>12 DEF RetireSession
<1>13. CASE StartScan
  BY <1>13 DEF StartScan, FreshJob
<1>14. CASE ResumeScan
  BY <1>14 DEF ResumeScan, Reopen, Requeue, FreshJob
<1>15. CASE RequestPause
  BY <1>15 DEF RequestPause, Spend
<1>16. CASE RequestResume
  BY <1>16 DEF RequestResume, Spend
<1>17. CASE RequestStop
  BY <1>17 DEF RequestStop, Spend
<1>18. CASE Crash
  BY <1>18 DEF Crash, Spend
<1>19. ASSUME NEW w \in Workers, ReadControl(w) PROVE LeaverSawDrained'
  BY <1>19 DEF ReadControl, AfterControl
<1>20. ASSUME NEW w \in Workers, ObeyControl(w) PROVE LeaverSawDrained'
  BY <1>20 DEF ObeyControl, Requeue
<1>21. ASSUME NEW w \in Workers, LeaveStopped(w) PROVE LeaverSawDrained'
  BY <1>21 DEF LeaveStopped, Requeue
<1>22. ASSUME NEW w \in Workers, Claim(w) PROVE LeaverSawDrained'
  BY <1>22 DEF Claim, Runnable, Claimable, EndWanted
<1>23. ASSUME NEW w \in Workers, LeaveDrained(w) PROVE LeaverSawDrained'
  BY <1>23 DEF LeaveDrained, Runnable, Drained
<1>24. ASSUME NEW w \in Workers, Apply(w) PROVE LeaverSawDrained'
  BY <1>24 DEF Apply
<1>25. ASSUME NEW w \in Workers, CountFiles(w) PROVE LeaverSawDrained'
  BY <1>25 DEF CountFiles, LimitReached, AfterCount
<1>26. ASSUME NEW w \in Workers, Die(w) PROVE LeaverSawDrained'
  BY <1>26 DEF Die, Spend
<1>27. ASSUME NEW w \in Workers, PauseActor(w) PROVE LeaverSawDrained'
  BY <1>27 DEF PauseActor, Spend
<1>28. ASSUME NEW w \in Workers, ResumeActor(w) PROVE LeaverSawDrained'
  BY <1>28 DEF ResumeActor
<1>29. ASSUME NEW w \in Workers, StopActor(w) PROVE LeaverSawDrained'
  BY <1>29 DEF StopActor, Spend
<1>30. CASE UNCHANGED vars
  BY <1>30
<1> QED
  BY <1>2, <1>3, <1>4, <1>5, <1>6, <1>7, <1>8, <1>9, <1>10, <1>11, <1>12, <1>13, <1>14,
       <1>15, <1>16, <1>17, <1>18, <1>19, <1>20, <1>21, <1>22, <1>23, <1>24, <1>25,
       <1>26, <1>27, <1>28, <1>29, <1>30 DEF Next, JobStep, WorkerStep, Operator

\* A session is completed only with every unit done, and stays as it is.
LEMMA CommitStep == TypeOK /\ Phases /\ Rows /\ LeaverSawDrained /\ CommitDrained /\
    [Next]_vars => CommitDrained'
<1> SUFFICES ASSUME TypeOK, Phases, Rows, LeaverSawDrained, CommitDrained, [Next]_vars
     PROVE CommitDrained'
  OBVIOUS
<1> USE SetsAssumption DEF CommitDrained, Done, LeaverSawDrained, Drained, Rows,
     RowHeldByWorker, QueueIsWhole, TypeOK, QueueStatuses, Phases, WorkersOnlyInScan,
     SessionOfJob, CommitHasNoReason, InterruptHasReason, AllOff, vars, dbVars,
     controlVars, jobVars, workerVars
<1>2. CASE StopBeforeRoot
  BY <1>2 DEF StopBeforeRoot
<1>3. CASE SelectSession
  BY <1>3 DEF SelectSession, Reopen, Requeue
<1>4. CASE RootUnreadable
  BY <1>4 DEF RootUnreadable
<1>5. CASE WalkRoot
  BY <1>5 DEF WalkRoot
<1>6. CASE SeedQueue
  BY <1>6 DEF SeedQueue, Seeded
<1>7. CASE Join
  BY <1>7 DEF Join, AfterJoin
<1>8. CASE FinalizeRequeue
  BY <1>8 DEF FinalizeRequeue, FinalRequeue, Requeue
<1>9. CASE FinalizeMark
  BY <1>9 DEF FinalizeMark
<1>10. CASE CommitSession
  BY SMTT(30), <1>10 DEF CommitSession
<1>11. CASE RecoverScan
  BY <1>11 DEF RecoverScan, Reopen, Requeue, FreshJob
<1>12. CASE RetireSession
  BY <1>12 DEF RetireSession
<1>13. CASE StartScan
  BY <1>13 DEF StartScan, FreshJob
<1>14. CASE ResumeScan
  BY <1>14 DEF ResumeScan, Reopen, Requeue, FreshJob
<1>15. CASE RequestPause
  BY <1>15 DEF RequestPause, Spend
<1>16. CASE RequestResume
  BY <1>16 DEF RequestResume, Spend
<1>17. CASE RequestStop
  BY <1>17 DEF RequestStop, Spend
<1>18. CASE Crash
  BY <1>18 DEF Crash, Spend
<1>19. ASSUME NEW w \in Workers, ReadControl(w) PROVE CommitDrained'
  BY <1>19 DEF ReadControl, AfterControl
<1>20. ASSUME NEW w \in Workers, ObeyControl(w) PROVE CommitDrained'
  BY <1>20 DEF ObeyControl, Requeue
<1>21. ASSUME NEW w \in Workers, LeaveStopped(w) PROVE CommitDrained'
  BY <1>21 DEF LeaveStopped, Requeue
<1>22. ASSUME NEW w \in Workers, Claim(w) PROVE CommitDrained'
  BY <1>22 DEF Claim, Runnable, Claimable, EndWanted
<1>23. ASSUME NEW w \in Workers, LeaveDrained(w) PROVE CommitDrained'
  BY <1>23 DEF LeaveDrained, Runnable, Drained
<1>24. ASSUME NEW w \in Workers, Apply(w) PROVE CommitDrained'
  BY <1>24 DEF Apply
<1>25. ASSUME NEW w \in Workers, CountFiles(w) PROVE CommitDrained'
  BY <1>25 DEF CountFiles, LimitReached, AfterCount
<1>26. ASSUME NEW w \in Workers, Die(w) PROVE CommitDrained'
  BY <1>26 DEF Die, Spend
<1>27. ASSUME NEW w \in Workers, PauseActor(w) PROVE CommitDrained'
  BY <1>27 DEF PauseActor, Spend
<1>28. ASSUME NEW w \in Workers, ResumeActor(w) PROVE CommitDrained'
  BY <1>28 DEF ResumeActor
<1>29. ASSUME NEW w \in Workers, StopActor(w) PROVE CommitDrained'
  BY <1>29 DEF StopActor, Spend
<1>30. CASE UNCHANGED vars
  BY <1>30
<1> QED
  BY <1>2, <1>3, <1>4, <1>5, <1>6, <1>7, <1>8, <1>9, <1>10, <1>11, <1>12, <1>13, <1>14,
       <1>15, <1>16, <1>17, <1>18, <1>19, <1>20, <1>21, <1>22, <1>23, <1>24, <1>25,
       <1>26, <1>27, <1>28, <1>29, <1>30 DEF Next, JobStep, WorkerStep, Operator

\* A stop is obeyed and recorded only because it was requested.
LEMMA StopStep == TypeOK /\ Phases /\ StopIsReal /\ [Next]_vars => StopIsReal'
<1> SUFFICES ASSUME TypeOK, Phases, StopIsReal, [Next]_vars PROVE StopIsReal'
  OBVIOUS
<1> USE SetsAssumption DEF StopIsReal, TypeOK, Phases, WorkersOnlyInScan, AllOff, vars,
     dbVars, controlVars, jobVars, workerVars
<1>2. CASE StopBeforeRoot
  BY <1>2 DEF StopBeforeRoot
<1>3. CASE SelectSession
  BY <1>3 DEF SelectSession, Reopen, Requeue
<1>4. CASE RootUnreadable
  BY <1>4 DEF RootUnreadable
<1>5. CASE WalkRoot
  BY <1>5 DEF WalkRoot
<1>6. CASE SeedQueue
  BY <1>6 DEF SeedQueue, Seeded
<1>7. CASE Join
  BY <1>7 DEF Join, AfterJoin
<1>8. CASE FinalizeRequeue
  BY <1>8 DEF FinalizeRequeue, FinalRequeue, Requeue
<1>9. CASE FinalizeMark
  BY <1>9 DEF FinalizeMark
<1>10. CASE CommitSession
  BY <1>10 DEF CommitSession
<1>11. CASE RecoverScan
  BY <1>11 DEF RecoverScan, Reopen, Requeue, FreshJob
<1>12. CASE RetireSession
  BY <1>12 DEF RetireSession
<1>13. CASE StartScan
  BY <1>13 DEF StartScan, FreshJob
<1>14. CASE ResumeScan
  BY <1>14 DEF ResumeScan, Reopen, Requeue, FreshJob
<1>15. CASE RequestPause
  BY <1>15 DEF RequestPause, Spend
<1>16. CASE RequestResume
  BY <1>16 DEF RequestResume, Spend
<1>17. CASE RequestStop
  BY <1>17 DEF RequestStop, Spend
<1>18. CASE Crash
  BY <1>18 DEF Crash, Spend
<1>19. ASSUME NEW w \in Workers, ReadControl(w) PROVE StopIsReal'
  BY <1>19 DEF ReadControl, AfterControl
<1>20. ASSUME NEW w \in Workers, ObeyControl(w) PROVE StopIsReal'
  BY <1>20 DEF ObeyControl, Requeue
<1>21. ASSUME NEW w \in Workers, LeaveStopped(w) PROVE StopIsReal'
  BY <1>21 DEF LeaveStopped, Requeue
<1>22. ASSUME NEW w \in Workers, Claim(w) PROVE StopIsReal'
  BY <1>22 DEF Claim, Runnable, Claimable, EndWanted
<1>23. ASSUME NEW w \in Workers, LeaveDrained(w) PROVE StopIsReal'
  BY <1>23 DEF LeaveDrained, Runnable, Drained
<1>24. ASSUME NEW w \in Workers, Apply(w) PROVE StopIsReal'
  BY <1>24 DEF Apply
<1>25. ASSUME NEW w \in Workers, CountFiles(w) PROVE StopIsReal'
  BY <1>25 DEF CountFiles, LimitReached, AfterCount
<1>26. ASSUME NEW w \in Workers, Die(w) PROVE StopIsReal'
  BY <1>26 DEF Die, Spend
<1>27. ASSUME NEW w \in Workers, PauseActor(w) PROVE StopIsReal'
  BY <1>27 DEF PauseActor, Spend
<1>28. ASSUME NEW w \in Workers, ResumeActor(w) PROVE StopIsReal'
  BY <1>28 DEF ResumeActor
<1>29. ASSUME NEW w \in Workers, StopActor(w) PROVE StopIsReal'
  BY <1>29 DEF StopActor, Spend
<1>30. CASE UNCHANGED vars
  BY <1>30
<1> QED
  BY <1>2, <1>3, <1>4, <1>5, <1>6, <1>7, <1>8, <1>9, <1>10, <1>11, <1>12, <1>13, <1>14,
       <1>15, <1>16, <1>17, <1>18, <1>19, <1>20, <1>21, <1>22, <1>23, <1>24, <1>25,
       <1>26, <1>27, <1>28, <1>29, <1>30 DEF Next, JobStep, WorkerStep, Operator

\* No worker claims a second unit against a request.
LEMMA LateStep == TypeOK /\ Phases /\ StopIsReal /\ LateWorkerLeaves /\ [Next]_vars =>
    LateWorkerLeaves'
<1> SUFFICES ASSUME TypeOK, Phases, StopIsReal, LateWorkerLeaves, [Next]_vars PROVE
     LateWorkerLeaves'
  OBVIOUS
<1> USE SetsAssumption DEF LateWorkerLeaves, EndWanted, StopIsReal, TypeOK, Phases,
     WorkersOnlyInScan, AllOff, vars, dbVars, controlVars, jobVars, workerVars
<1>2. CASE StopBeforeRoot
  BY <1>2 DEF StopBeforeRoot
<1>3. CASE SelectSession
  BY <1>3 DEF SelectSession, Reopen, Requeue
<1>4. CASE RootUnreadable
  BY <1>4 DEF RootUnreadable
<1>5. CASE WalkRoot
  BY <1>5 DEF WalkRoot
<1>6. CASE SeedQueue
  BY <1>6 DEF SeedQueue, Seeded
<1>7. CASE Join
  BY <1>7 DEF Join, AfterJoin
<1>8. CASE FinalizeRequeue
  BY <1>8 DEF FinalizeRequeue, FinalRequeue, Requeue
<1>9. CASE FinalizeMark
  BY <1>9 DEF FinalizeMark
<1>10. CASE CommitSession
  BY <1>10 DEF CommitSession
<1>11. CASE RecoverScan
  BY <1>11 DEF RecoverScan, Reopen, Requeue, FreshJob
<1>12. CASE RetireSession
  BY <1>12 DEF RetireSession
<1>13. CASE StartScan
  BY <1>13 DEF StartScan, FreshJob
<1>14. CASE ResumeScan
  BY <1>14 DEF ResumeScan, Reopen, Requeue, FreshJob
<1>15. CASE RequestPause
  BY <1>15 DEF RequestPause, Spend
<1>16. CASE RequestResume
  BY <1>16 DEF RequestResume, Spend
<1>17. CASE RequestStop
  BY <1>17 DEF RequestStop, Spend
<1>18. CASE Crash
  BY <1>18 DEF Crash, Spend
<1>19. ASSUME NEW w \in Workers, ReadControl(w) PROVE LateWorkerLeaves'
  BY <1>19 DEF ReadControl, AfterControl
<1>20. ASSUME NEW w \in Workers, ObeyControl(w) PROVE LateWorkerLeaves'
  BY <1>20 DEF ObeyControl, Requeue
<1>21. ASSUME NEW w \in Workers, LeaveStopped(w) PROVE LateWorkerLeaves'
  BY <1>21 DEF LeaveStopped, Requeue
<1>22. ASSUME NEW w \in Workers, Claim(w) PROVE LateWorkerLeaves'
  BY <1>22 DEF Claim, Runnable, Claimable, EndWanted
<1>23. ASSUME NEW w \in Workers, LeaveDrained(w) PROVE LateWorkerLeaves'
  BY <1>23 DEF LeaveDrained, Runnable, Drained
<1>24. ASSUME NEW w \in Workers, Apply(w) PROVE LateWorkerLeaves'
  BY <1>24 DEF Apply
<1>25. ASSUME NEW w \in Workers, CountFiles(w) PROVE LateWorkerLeaves'
  BY <1>25 DEF CountFiles, LimitReached, AfterCount
<1>26. ASSUME NEW w \in Workers, Die(w) PROVE LateWorkerLeaves'
  BY <1>26 DEF Die, Spend
<1>27. ASSUME NEW w \in Workers, PauseActor(w) PROVE LateWorkerLeaves'
  BY <1>27 DEF PauseActor, Spend
<1>28. ASSUME NEW w \in Workers, ResumeActor(w) PROVE LateWorkerLeaves'
  BY <1>28 DEF ResumeActor
<1>29. ASSUME NEW w \in Workers, StopActor(w) PROVE LateWorkerLeaves'
  BY <1>29 DEF StopActor, Spend
<1>30. CASE UNCHANGED vars
  BY <1>30
<1> QED
  BY <1>2, <1>3, <1>4, <1>5, <1>6, <1>7, <1>8, <1>9, <1>10, <1>11, <1>12, <1>13, <1>14,
       <1>15, <1>16, <1>17, <1>18, <1>19, <1>20, <1>21, <1>22, <1>23, <1>24, <1>25,
       <1>26, <1>27, <1>28, <1>29, <1>30 DEF Next, JobStep, WorkerStep, Operator

\* A unit becomes done exactly when the counter is increased
\* (apply_directory_files); nothing else touches a unit that is done.
LEMMA DoneStep ==
    ASSUME TypeOK, Phases, Rows, [Next]_vars
    PROVE  \/ \E w \in Workers :
                 Apply(w) /\ item[w] \in Items \ Done /\ Done' = Done \cup {item[w]}
           \/ directories_completed' = directories_completed /\ Done' = Done
<1>1. CASE \E w \in Workers : Apply(w)
  <2>1. PICK w \in Workers : Apply(w)
    BY <1>1
  <2>2. item[w] \in Items \ Done
    BY <2>1 DEF Apply, Done, Rows, WorkerHoldsRow
  <2>3. Done' = Done \cup {item[w]}
    BY <2>1, <2>2 DEF Apply, Done, TypeOK
  <2> QED
    BY <2>1, <2>2, <2>3
<1>2. CASE ~ \E w \in Workers : Apply(w)
  <2> SUFFICES directories_completed' = directories_completed /\ Done' = Done
    OBVIOUS
  <2> USE SetsAssumption DEF Done, Rows, WorkerHoldsRow, TypeOK, QueueStatuses, Phases,
       WorkersOnlyInScan, AllOff, vars, dbVars, controlVars, jobVars, workerVars
  <2>2. CASE StopBeforeRoot
    BY <2>2 DEF StopBeforeRoot
  <2>3. CASE SelectSession
    BY <2>3 DEF SelectSession, Reopen, Requeue
  <2>4. CASE RootUnreadable
    BY <2>4 DEF RootUnreadable
  <2>5. CASE WalkRoot
    BY <2>5 DEF WalkRoot
  <2>6. CASE SeedQueue
    <3>1. \A i \in Items : queue'[i] = "done" <=> queue[i] = "done"
      BY <2>6 DEF SeedQueue, Seeded
    <3> QED
      BY <2>6, <3>1 DEF SeedQueue
  <2>7. CASE Join
    BY <2>7 DEF Join, AfterJoin
  <2>8. CASE FinalizeRequeue
    BY <2>8 DEF FinalizeRequeue, FinalRequeue, Requeue
  <2>9. CASE FinalizeMark
    BY <2>9 DEF FinalizeMark
  <2>10. CASE CommitSession
    BY <2>10 DEF CommitSession
  <2>11. CASE RecoverScan
    BY <2>11 DEF RecoverScan, Reopen, Requeue, FreshJob
  <2>12. CASE RetireSession
    BY <2>12 DEF RetireSession
  <2>13. CASE StartScan
    BY <2>13 DEF StartScan, FreshJob
  <2>14. CASE ResumeScan
    BY <2>14 DEF ResumeScan, Reopen, Requeue, FreshJob
  <2>15. CASE RequestPause
    BY <2>15 DEF RequestPause, Spend
  <2>16. CASE RequestResume
    BY <2>16 DEF RequestResume, Spend
  <2>17. CASE RequestStop
    BY <2>17 DEF RequestStop, Spend
  <2>18. CASE Crash
    BY <2>18 DEF Crash, Spend
  <2>19. ASSUME NEW w \in Workers, ReadControl(w) PROVE directories_completed' =
       directories_completed /\ Done' = Done
    BY <2>19 DEF ReadControl, AfterControl
  <2>20. ASSUME NEW w \in Workers, ObeyControl(w) PROVE directories_completed' =
       directories_completed /\ Done' = Done
    BY <2>20 DEF ObeyControl, Requeue
  <2>21. ASSUME NEW w \in Workers, LeaveStopped(w) PROVE directories_completed' =
       directories_completed /\ Done' = Done
    BY <2>21 DEF LeaveStopped, Requeue
  <2>22. ASSUME NEW w \in Workers, Claim(w) PROVE directories_completed' =
       directories_completed /\ Done' = Done
    BY <2>22 DEF Claim, Runnable, Claimable, EndWanted
  <2>23. ASSUME NEW w \in Workers, LeaveDrained(w) PROVE directories_completed' =
       directories_completed /\ Done' = Done
    BY <2>23 DEF LeaveDrained, Runnable, Drained
  <2>25. ASSUME NEW w \in Workers, CountFiles(w) PROVE directories_completed' =
       directories_completed /\ Done' = Done
    BY <2>25 DEF CountFiles, LimitReached, AfterCount
  <2>26. ASSUME NEW w \in Workers, Die(w) PROVE directories_completed' =
       directories_completed /\ Done' = Done
    BY <2>26 DEF Die, Spend
  <2>27. ASSUME NEW w \in Workers, PauseActor(w) PROVE directories_completed' =
       directories_completed /\ Done' = Done
    BY <2>27 DEF PauseActor, Spend
  <2>28. ASSUME NEW w \in Workers, ResumeActor(w) PROVE directories_completed' =
       directories_completed /\ Done' = Done
    BY <2>28 DEF ResumeActor
  <2>29. ASSUME NEW w \in Workers, StopActor(w) PROVE directories_completed' =
       directories_completed /\ Done' = Done
    BY <2>29 DEF StopActor, Spend
  <2>30. CASE UNCHANGED vars
    BY <2>30
  <2> QED
    BY <1>2, <2>2, <2>3, <2>4, <2>5, <2>6, <2>7, <2>8, <2>9, <2>10, <2>11, <2>12,
         <2>13, <2>14, <2>15, <2>16, <2>17, <2>18, <2>19, <2>20, <2>21, <2>22, <2>23,
         <2>25, <2>26, <2>27, <2>28, <2>29, <2>30 DEF Next, JobStep, WorkerStep,
         Operator
<1> QED
  BY <1>1, <1>2

\* The counter of the session row counts the units that are done.
LEMMA CountStep == TypeOK /\ Phases /\ Rows /\ CountedOnce /\ [Next]_vars =>
    CountedOnce'
<1> SUFFICES ASSUME TypeOK, Phases, Rows, CountedOnce, [Next]_vars PROVE CountedOnce'
  OBVIOUS
<1>1. ASSUME NEW w \in Workers, Apply(w), item[w] \in Items \ Done, Done' = Done \cup
     {item[w]}
      PROVE  CountedOnce'
  <2>1. IsFiniteSet(Done)
    BY SetsAssumption, FS_Subset DEF Done
  <2>2. Cardinality(Done') = Cardinality(Done) + 1
    BY <1>1, <2>1, FS_AddElement
  <2> QED
    BY <1>1, <2>2 DEF Apply, CountedOnce
<1>2. CASE directories_completed' = directories_completed /\ Done' = Done
  BY <1>2 DEF CountedOnce
<1> QED
  BY <1>1, <1>2, DoneStep


-----------------------------------------------------------------------------
(* The theorems.                                                            *)

\* Before any job the invariant holds.
LEMMA InvInit == Init => Inv
<1> SUFFICES ASSUME Init PROVE Inv
  OBVIOUS
<1> USE SetsAssumption DEF Init
<1>1. TypeOK
  BY DEF TypeOK, Statuses, QueueStatuses
<1>2. Phases
  BY DEF Phases, WorkersOnlyInScan, SessionOfJob, WalkIsWhole, CommitHasNoReason,
         InterruptHasReason, AllOff
<1>3. Rows
  BY DEF Rows, WorkerHoldsRow, RowHeldByWorker, NothingClaimed, QueueIsWhole
<1>4. LeaverSawDrained /\ CommitDrained
  BY DEF LeaverSawDrained, CommitDrained
<1>5. StopIsReal /\ LateWorkerLeaves
  BY DEF StopIsReal, LateWorkerLeaves
<1>6. CountedOnce
  <2>1. Done = {}
    BY DEF Done
  <2> QED
    BY <2>1, FS_EmptySet DEF CountedOnce
<1> QED
  BY <1>1, <1>2, <1>3, <1>4, <1>5, <1>6 DEF Inv

\* Inv holds in every reachable state of the scan.
THEOREM Invariance == Spec => []Inv
<1>1. Inv /\ [Next]_vars => Inv'
  BY TypeStep, PhaseStep, RowStep, DrainStep, CommitStep, StopStep, LateStep, CountStep
     DEF Inv, Phases
<1> QED
  BY InvInit, <1>1, PTL DEF Spec

\* Every variable of the scan keeps its type.
THEOREM TypeCorrect == Spec => []TypeOK
<1>1. Inv => TypeOK
  BY DEF Inv
<1> QED
  BY <1>1, Invariance, PTL

\* Through pauses, resumes, crashes and recoveries every unit is applied once
\* (reopen_scan_session, seed_directory_work_queue, apply_directory_files).
THEOREM CountedOnceAlways == Spec => []CountedOnce
<1>1. Inv => CountedOnce
  BY DEF Inv
<1> QED
  BY <1>1, Invariance, PTL

\* A worker in the middle of a unit owns its row, in an open session
\* (claim_next_directory and every requeue).
THEOREM ClaimExclusiveAlways == Spec => []ClaimExclusive
<1>1. Inv => ClaimExclusive
  BY DEF Inv, ClaimExclusive, Rows, WorkerHoldsRow, Phases, WorkersOnlyInScan,
         SessionOfJob, AllOff
<1> QED
  BY <1>1, Invariance, PTL

\* A paused or stopped session has no unit left claimed
\* (_finalize_interrupted_incremental_scan).
THEOREM PausedAtBoundaryAlways == Spec => []PausedAtBoundary
<1>1. Inv => PausedAtBoundary
  BY DEF Inv, PausedAtBoundary, Rows, NothingClaimed
<1> QED
  BY <1>1, Invariance, PTL

\* After a request, or the file limit, every worker takes up at most one more
\* unit (_scan_worker_loop).
THEOREM PauseStopsSchedulingAlways == Spec => []PauseStopsScheduling
<1>1. Inv => PauseStopsScheduling
  <2> SUFFICES ASSUME Inv, NEW w \in Workers PROVE late[w] <= 1
    BY DEF PauseStopsScheduling
  <2>1. CASE late[w] = 0
    BY <2>1
  <2>2. CASE late[w] # 0
    BY <2>2 DEF Inv, LateWorkerLeaves
  <2> QED
    BY <2>1, <2>2
<1> QED
  BY <1>1, Invariance, PTL

\* A committed session covers the whole root unless workers were lost or all of
\* them were stopped one by one (_run_incremental_root_scan, commit_scan_session).
THEOREM CommitDrainedAlways == Spec => []CommitDrained
<1>1. Inv => CommitDrained
  BY DEF Inv
<1> QED
  BY <1>1, Invariance, PTL


-----------------------------------------------------------------------------
(* The scan implements its abstract specification, ScanSession, as long as  *)
(* no worker is lost and not all of them are stopped one by one.            *)

\* A step that finishes no unit changes the session as the promise allows.
LEMMA SessionStep ==
    ASSUME Inv, Inv', NobodyLost, [Next]_vars,
           directories_completed' = directories_completed, Done' = Done
    PROVE  [Promise!Next]_(Promise!vars)
<1> SUFFICES \/ session' = session
             \/ session \in {"none", "paused", "stopped"} /\ session' = "running"
             \/ session = "running" /\ session' \in {"paused", "stopped", "failed"}
             \/ session = "running" /\ session' = "completed" /\ Done = Items
  BY DEF Promise!Next, Promise!vars, Promise!Open, Promise!Interrupt, Promise!Commit
<1> USE DEF Inv, Phases, SessionOfJob, InterruptHasReason, vars, dbVars
<1>1. CASE SelectSession
  BY <1>1 DEF SelectSession, Reopen
<1>2. CASE RootUnreadable
  BY <1>2 DEF RootUnreadable
<1>3. CASE FinalizeMark
  BY <1>3 DEF FinalizeMark
<1>4. CASE RecoverScan
  BY <1>4 DEF RecoverScan, Reopen
<1>5. CASE RetireSession
  BY <1>5 DEF RetireSession
<1>6. CASE ResumeScan
  BY <1>6 DEF ResumeScan, Reopen
<1>7. CASE CommitSession
  <2>1. Done' = Items
    BY <1>7 DEF CommitSession, CommitDrained, NobodyLost, controlVars, workerVars
  <2> QED
    BY <1>7, <2>1 DEF CommitSession
<1>8. ASSUME UNCHANGED vars \/ StopBeforeRoot \/ WalkRoot \/ SeedQueue \/ Join
                  \/ FinalizeRequeue \/ StartScan \/ Crash
                  \/ RequestPause \/ RequestResume \/ RequestStop
      PROVE  session' = session
  BY <1>8 DEF StopBeforeRoot, WalkRoot, SeedQueue, Join, FinalizeRequeue, StartScan,
       RequestPause, RequestResume, RequestStop, Crash
<1>9. ASSUME NEW w \in Workers,
             \/ WorkerStep(w) \/ Die(w)
             \/ PauseActor(w) \/ ResumeActor(w) \/ StopActor(w)
      PROVE  session' = session
  BY <1>9 DEF WorkerStep, ReadControl, ObeyControl, LeaveStopped, Claim, LeaveDrained,
       Apply, CountFiles, Die, PauseActor, ResumeActor, StopActor
<1> QED
  BY <1>1, <1>2, <1>3, <1>4, <1>5, <1>6, <1>7, <1>8, <1>9 DEF Next, JobStep, Operator

\* While nobody is lost, every step is a step of the promise: a worker's Apply
\* completes its unit, nothing else touches the counter or the finished units.
LEMMA PromiseStep ==
    ASSUME Inv, Inv', NobodyLost, [Next]_vars
    PROVE  [Promise!Next]_(Promise!vars)
<1>1. ASSUME NEW w \in Workers, Apply(w), item[w] \in Items \ Done,
             Done' = Done \cup {item[w]}
      PROVE  Promise!Next
  <2>1. session = "running"
    BY <1>1 DEF Apply, Inv, Phases, WorkersOnlyInScan, SessionOfJob, AllOff
  <2>2. Promise!Complete(item[w])
    BY <1>1, <2>1 DEF Apply, Promise!Complete
  <2> QED
    BY <1>1, <2>2 DEF Promise!Next
<1>2. CASE directories_completed' = directories_completed /\ Done' = Done
  BY <1>2, SessionStep
<1> QED
  BY <1>1, <1>2, DoneStep DEF Inv

\* Each step made while nobody is lost keeps the promise of the session, under
\* every control and after every crash (the worker loop and the job thread).
THEOREM PromiseKeptUnlessLostAlways == Spec => PromiseKeptUnlessLost
<1>1. Inv /\ Inv' /\ [Next]_vars
        => [NobodyLost => Promise!Next \/ UNCHANGED Promise!vars]_vars
  BY PromiseStep
<1> QED
  BY <1>1, Invariance, PTL DEF Spec, PromiseKeptUnlessLost

\* A scan that never loses anybody implements what a session promises.
THEOREM PromiseKept == Spec /\ []NobodyLost => ImplementsPromise
<1>1. Init => Promise!Init
  BY DEF Init, Promise!Init, Done
<1>2. Inv /\ Inv' /\ NobodyLost /\ [Next]_vars => [Promise!Next]_(Promise!vars)
  BY PromiseStep
<1> QED
  BY <1>1, <1>2, Invariance, PTL DEF Spec, ImplementsPromise, Promise!Spec

=============================================================================
