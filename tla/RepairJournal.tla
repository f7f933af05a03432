--------------------------- MODULE RepairJournal ---------------------------
(***************************************************************************)
(* Repair runs as RepairJournalStore keeps them: a run file, the token of  *)
(* the plan it was made from, and a journal that only grows.  Every repair *)
(* of immich-doctor that changes something works on a run; the modules     *)
(* that do so extend this one.                                             *)
(*                                                                         *)
(* A fingerprint is the value it is computed from: the hash is taken to    *)
(* tell different payloads apart.                                          *)
(***************************************************************************)
EXTENDS Naturals, Sequences, FiniteSets

CONSTANTS
    Callers,     \* threads serving API requests, and the command line
    Runs,        \* ids a repair run may draw
    None,
    MaxCalls,    \* bound: requests
    MaxCrashes,  \* bound: crashes of the process
    MaxDrift     \* bound: changes Immich or its users make meanwhile

ASSUME JournalBounds == MaxCalls \in Nat /\ MaxCrashes \in Nat /\ MaxDrift \in Nat

VARIABLES
    runs,      \* run id -> the run file with its plan token, None without one
    journal,   \* run id -> the entries of its journal
    pc,        \* caller -> where it stands
    mem,       \* caller -> what it holds
    calls,     \* requests made (bound)
    crashes,   \* crashes so far (bound)
    drift      \* outside changes so far (bound)

store == <<runs, journal>>
journalVars == <<runs, journal, pc, mem, calls, crashes, drift>>

RunStatus == {"planned", "running", "completed", "partial", "failed"}
EntryStatus == {"planned", "applied", "skipped", "failed"}

JournalInit ==
    /\ runs = [r \in Runs |-> None]
    /\ journal = [r \in Runs |-> <<>>]
    /\ pc = [c \in Callers |-> "idle"]
    /\ mem = [c \in Callers |-> None]
    /\ calls = 0 /\ crashes = 0 /\ drift = 0

Goes(c, step) == pc' = [pc EXCEPT ![c] = step]
Holds(c, record) == mem' = [mem EXCEPT ![c] = record]
Leaves(c) == Goes(c, "idle") /\ Holds(c, None)
Call(c) == pc[c] = "idle" /\ calls < MaxCalls /\ calls' = calls + 1

-----------------------------------------------------------------------------
(* Runs and entries.                                                        *)

NewRun(kind, status, scope, token) ==
    [kind |-> kind, status |-> status, scope |-> scope, token |-> token, snapshot |-> FALSE]

CreateRun(r, run) == runs' = [runs EXCEPT ![r] = run]

\* finish and update_run write the whole run file.
Finish(r, status) == runs' = [runs EXCEPT ![r].status = status]

Entry(item, status, undo, old, new) ==
    [item |-> item, status |-> status, undo |-> undo, old |-> old, new |-> new]

Appends(r, entry) == journal' = [journal EXCEPT ![r] = Append(@, entry)]

Entries(r) == {journal[r][i] : i \in DOMAIN journal[r]}
Having(r, status) == {e \in Entries(r) : e.status = status}

MutantFinalStatus(done) == IF "failed" \in done THEN "partial" ELSE "completed"
\* _final_run_status of what was done with the items.
FinalStatus(done) ==
    IF "failed" \in done
    THEN IF "applied" \in done THEN "partial" ELSE "failed"
    ELSE "completed"

\* validate_plan_token; the token may have expired.
GuardValid(token, live) == \E expired \in BOOLEAN : ~expired /\ token = live

-----------------------------------------------------------------------------
\* The process dies: what callers held is gone, the files stay.
JournalCrash ==
    /\ crashes < MaxCrashes
    /\ crashes' = crashes + 1
    /\ pc' = [c \in Callers |-> "idle"]
    /\ mem' = [c \in Callers |-> None]
    /\ UNCHANGED <<runs, journal, calls, drift>>

JournalTypeOK ==
    /\ \A r \in Runs :
          runs[r] # None => /\ runs[r].status \in RunStatus
                            /\ runs[r].snapshot \in BOOLEAN
    /\ \A r \in Runs : \A e \in Entries(r) : e.status \in EntryStatus /\ e.undo \in BOOLEAN
    /\ calls \in 0 .. MaxCalls /\ crashes \in 0 .. MaxCrashes /\ drift \in 0 .. MaxDrift
=============================================================================
