------------------------------ MODULE MCCatalog ------------------------------
(***************************************************************************)
(* The job runtime with two workers, and the catalog of one root: two scan *)
(* sessions with a comparison, or one session over more files.  They share *)
(* no state, so the run takes each by itself.                              *)
(*                                                                         *)
(* Directory d2 lies below d1.  With chunks of one file, d1 is queued      *)
(* whole or in batches; over several sessions it holds one file only.      *)
(***************************************************************************)
EXTENDS BackgroundJobs, CatalogSnapshots

CONSTANTS c1, c2, j1, j2, t1, t2, d1, d2

VARIABLE part

MCAbove == [d \in {d1, d2} |-> IF d = d2 THEN {d1} ELSE {}]
MCDirOf == [f \in {1, 2, 3} |-> IF f = 3 THEN d2 ELSE d1]

MCInit ==
    /\ part \in {"jobs", "sessions", "files"}
    /\ Init /\ SnapInit
    /\ part = "jobs" => storage = {}
    /\ part = "sessions" => 2 \notin storage

\* Jobs and types are interchangeable: j1 is drawn first, for type t1.
InOrder == job_type[j1] \in {None, t1} /\ (job_type[j2] # None => job_type[j1] # None)

\* Over several sessions two changes, of which one may be a read error.
Within ==
    IF part = "sessions" THEN 2 \notin storage /\ spent["changes"] + spent["errors"] <= 2
    ELSE status[2] = "none" /\ spent["reports"] = 0

MCNext ==
    /\ UNCHANGED part
    /\ \/ part = "jobs" /\ Next /\ InOrder' /\ UNCHANGED snapVars
       \/ part # "jobs" /\ SnapNext /\ Within' /\ UNCHANGED vars

MCSpec == MCInit /\ [][MCNext]_<<vars, snapVars, part>>
=============================================================================
