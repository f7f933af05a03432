----------------------------- MODULE ScanSession -----------------------------
(***************************************************************************)
(* What one catalog scan session promises, whatever threads, controls and  *)
(* restarts carry it out: each work unit is completed once, completed work *)
(* survives interruptions, and the session is committed only when nothing  *)
(* is left to do.  CatalogScan implements it.                              *)
(***************************************************************************)
EXTENDS Naturals

CONSTANT Items   \* the work units of the scanned root

VARIABLES
    session,                \* scan_session.status
    done,                   \* units applied to the catalog
    directories_completed   \* the counter of the session row

vars == <<session, done, directories_completed>>

Init ==
    /\ session = "none"
    /\ done = {}
    /\ directories_completed = 0

\* The session row is created, or an interrupted session is reopened.
Open ==
    /\ session \in {"none", "paused", "stopped"}
    /\ session' = "running"
    /\ UNCHANGED <<done, directories_completed>>

Complete(i) ==
    /\ session = "running"
    /\ i \notin done
    /\ done' = done \cup {i}
    /\ directories_completed' = directories_completed + 1
    /\ UNCHANGED session

Interrupt ==
    /\ session = "running"
    /\ session' \in {"paused", "stopped", "failed"}
    /\ UNCHANGED <<done, directories_completed>>

Commit ==
    /\ session = "running"
    /\ done = Items
    /\ session' = "completed"
    /\ UNCHANGED <<done, directories_completed>>

Next == Open \/ Interrupt \/ Commit \/ \E i \in Items : Complete(i)

Spec == Init /\ [][Next]_vars
=============================================================================
