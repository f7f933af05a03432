-------------------------- MODULE MCBackgroundJobs --------------------------
(***************************************************************************)
(* Two API threads that call at once, or, when serial, one client that     *)
(* waits for each answer: what only holds for the latter says so.          *)
(***************************************************************************)
EXTENDS BackgroundJobs

CONSTANTS c1, c2, j1, j2, t1, t2
TwoCallers == {c1, c2}
TwoJobs == {j1, j2}
OneType == {t1}
TwoTypes == {t1, t2}

VARIABLE serial

\* A client that waits for each answer: no two calls are under way.
OneCallAtATime == \A c, d \in Callers : call[c] # Idle /\ call[d] # Idle => c = d

MCInit == Init /\ serial \in BOOLEAN
MCNext == Next /\ UNCHANGED serial /\ (serial => OneCallAtATime')
MCSpec == MCInit /\ [][MCNext]_<<vars, serial>> /\ Fairness

\* A client that waits for each answer starts no second job of a type while one is
\* under way, and its controls reach that job, as OneJobPerType and
\* AttachmentFollowsJob say; two clients at once do, because the check of
\* active_job and the registration of start_job are apart.
OneClientOneJob == serial => OneJobPerType /\ AttachmentFollowsJob
=============================================================================
