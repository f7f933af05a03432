-------------------------- MODULE PermissionRepair --------------------------
(***************************************************************************)
(* RuntimeMetadataFailuresRepairService and RepairUndoService: files whose *)
(* metadata Immich could not extract are diagnosed, permissions are        *)
(* granted under a guard and after a snapshot, and the journal of the run  *)
(* lets an undo restore the modes.                                         *)
(*                                                                         *)
(* A mode is the set of the permissions it grants; "r" is the read access  *)
(* add_read_permissions grants.  A diagnostic is about one asset, which    *)
(* may share its file with another one.                                    *)
(***************************************************************************)
EXTENDS RepairJournal

CONSTANTS
    Sources,      \* assets without extracted metadata
    PathOf,       \* source -> its file
    Content,      \* file -> what the analyzer finds in it when it can read it
    FlagSets      \* sets of actions a request may select; {} selects all suggested

VARIABLES
    mode,         \* file -> its mode, None when it is not there
    candidates,   \* sources whose metadata is still missing
    given,        \* history: file -> the mode that somebody else gave it last
    blurred       \* history: files changed by others, or at a crash, while a
                  \*          run or an undo was between its look and its entry

permVars == <<mode, candidates, given, blurred>>

Files == {PathOf[s] : s \in Sources}
Modes == SUBSET {"r", "w"}
ContentStatus == {"ok", "empty", "truncated", "container_broken", "corrupted",
                  "type_mismatch", "tool_missing", "unknown"}

ASSUME ContentAssumption == Content \in [Files -> ContentStatus]
ASSUME SourcesAssumption == IsFiniteSet(Sources) /\ None \notin Files
ASSUME ModesAssumption == \A m \in Modes : m # None

PermInit ==
    /\ mode \in [Files -> Modes]
    /\ candidates \in SUBSET Sources
    /\ given = mode
    /\ blurred = {}

-----------------------------------------------------------------------------
(* Diagnosis.                                                               *)

SourceStatus(f) ==
    IF mode[f] = None THEN "missing"
    ELSE IF "r" \notin mode[f] THEN "permission_denied"
    ELSE Content[f]

\* _classify_root_cause
RootCause(status) ==
    CASE status = "missing"           -> "missing_file"
      [] status = "empty"             -> "empty_file"
      [] status = "permission_denied" -> "permission_error"
      [] status \in {"truncated", "container_broken", "corrupted"} -> "corrupted_file"
      [] status = "type_mismatch"     -> "unsupported_format"
      [] status = "tool_missing"      -> "runtime_tooling_error"
      [] status = "ok"                -> "immich_bug_suspected"
      [] OTHER                        -> "unknown"

SuggestedAction(cause) ==
    CASE cause = "missing_file"          -> "report_only"
      [] cause \in {"empty_file", "unsupported_format"} -> "mark_unrecoverable"
      [] cause = "permission_error"      -> "fix_permissions"
      [] cause = "corrupted_file"        -> "quarantine_corrupt"
      [] cause = "runtime_tooling_error" -> "inspect_runtime_tooling"
      [] cause = "immich_bug_suspected"  -> "retry_jobs"
      [] OTHER                           -> "dangerous_unknown"

\* _available_actions, the first match is the one taken.
AvailableActions(cause) ==
    CASE cause = "permission_error"      -> <<"fix_permissions", "report_only">>
      [] cause \in {"missing_file", "empty_file", "unsupported_format"}
                                         -> <<"report_only", "mark_unrecoverable">>
      [] cause = "corrupted_file"        -> <<"report_only", "quarantine_corrupt">>
      [] cause = "runtime_tooling_error" -> <<"inspect_runtime_tooling", "report_only">>
      [] cause = "immich_bug_suspected"  -> <<"retry_jobs", "requeue", "report_only">>
      [] OTHER                           -> <<"dangerous_unknown">>

Diagnostics == {[source |-> s, cause |-> RootCause(SourceStatus(PathOf[s]))] : s \in candidates}

Selected(flags, diagnostics) ==
    IF flags # {} THEN flags ELSE {SuggestedAction(d.cause) : d \in diagnostics}

ChosenAction(d, selected) ==
    LET matching == SelectSeq(AvailableActions(d.cause), LAMBDA action : action \in selected)
    IN  IF matching = <<>> THEN "none" ELSE matching[1]

-----------------------------------------------------------------------------
(* The repair.                                                              *)

\* A caller has looked at a file, or set its mode, and has not journaled it yet.
Held(c, file) ==
    /\ pc[c] \in {"fix_chmod", "fix_applied", "fix_failed", "undo_journal"}
    /\ mem[c].file = file

FixRecord(r, diagnostics, selected) ==
    [flow |-> "fix", run |-> r, todo |-> diagnostics, selected |-> selected,
     item |-> None, file |-> None, old |-> None, new |-> None, ok |-> TRUE]

\* run without apply: every choice is journaled as planned or skipped.
PlanOnly(c, r, flags) ==
    LET selected == Selected(flags, Diagnostics) IN
    /\ Call(c) /\ runs[r] = None
    /\ runs' = [runs EXCEPT ![r] = NewRun("fix", "completed", Diagnostics, Diagnostics)]
    /\ \E order \in [1 .. Cardinality(Diagnostics) -> Diagnostics] :
          /\ \A i, j \in DOMAIN order : order[i] = order[j] => i = j
          /\ journal' = [journal EXCEPT ![r] =
                [i \in DOMAIN order |->
                    Entry(order[i].source,
                          IF ChosenAction(order[i], selected) = "none" THEN "skipped" ELSE "planned",
                          FALSE, None, None)]]
    /\ UNCHANGED <<pc, mem, crashes, drift, permVars>>

\* run with apply: the plan, its token and the run.
PlanFix(c, r, flags) ==
    /\ Call(c) /\ runs[r] = None
    /\ CreateRun(r, NewRun("fix", "running", Diagnostics, Diagnostics))
    /\ Holds(c, FixRecord(r, Diagnostics, Selected(flags, Diagnostics)))
    /\ Goes(c, "fix_guard")
    /\ UNCHANGED <<journal, crashes, drift, permVars>>

\* The second inspection against the token.
GuardFix(c) ==
    LET r == mem[c].run IN
    /\ pc[c] = "fix_guard"
    /\ \/ /\ GuardValid(runs[r].token, Diagnostics)
          /\ Goes(c, "fix_snapshot") /\ UNCHANGED <<runs, mem>>
       \/ /\ Finish(r, "failed") /\ Leaves(c)
    /\ UNCHANGED <<journal, calls, crashes, drift, permVars>>

SnapshotFix(c) ==
    LET r == mem[c].run IN
    /\ pc[c] = "fix_snapshot"
    /\ \/ /\ runs' = [runs EXCEPT ![r].snapshot = TRUE]
          /\ Goes(c, "fix_item") /\ UNCHANGED mem
       \/ /\ Finish(r, "failed") /\ Leaves(c)
    /\ UNCHANGED <<journal, calls, crashes, drift, permVars>>

\* A diagnostic without a permission fix is skipped.
SkipItem(c) ==
    /\ pc[c] = "fix_item"
    /\ \E d \in mem[c].todo :
          /\ ChosenAction(d, mem[c].selected) # "fix_permissions"
          /\ Appends(mem[c].run, Entry(d.source, "skipped", FALSE, None, None))
          /\ Holds(c, [mem[c] EXCEPT !.todo = @ \ {d}])
    /\ UNCHANGED <<runs, pc, calls, crashes, drift, permVars>>

\* _apply_permission_fix looks at the mode,
StatItem(c) ==
    /\ pc[c] = "fix_item"
    /\ \E d \in mem[c].todo :
          LET f == PathOf[d.source] IN
          /\ ChosenAction(d, mem[c].selected) = "fix_permissions"
          /\ Holds(c, [mem[c] EXCEPT !.todo = @ \ {d}, !.item = d.source, !.file = f,
                                     !.old = mode[f]])
    /\ Goes(c, "fix_chmod")
    /\ UNCHANGED <<store, calls, crashes, drift, permVars>>

\* grants read access and looks again; the file may be gone or not ours.
ChmodItem(c) ==
    LET f == mem[c].file IN
    /\ pc[c] = "fix_chmod"
    /\ \/ /\ mem[c].old # None /\ mode[f] # None
          /\ mode' = [mode EXCEPT ![f] = @ \cup {"r"}]
          /\ Holds(c, [mem[c] EXCEPT !.new = mode'[f]])
          /\ Goes(c, "fix_applied")
       \/ /\ UNCHANGED <<mode, mem>>
          /\ Goes(c, "fix_failed")
    /\ UNCHANGED <<store, calls, crashes, drift, candidates, given, blurred>>

MutantRecordedUndo(old, now) == [old |-> now, new |-> now]
\* The undo payload: the mode before and the mode seen after.
RecordedUndo(old, now) == [old |-> old, new |-> now]

\* _record_action
JournalItem(c) ==
    LET source == mem[c].item
        undo == RecordedUndo(mem[c].old, mem[c].new) IN
    /\ pc[c] \in {"fix_applied", "fix_failed"}
    /\ IF pc[c] = "fix_applied"
       THEN Appends(mem[c].run, Entry(source, "applied", TRUE, undo.old, undo.new))
       ELSE Appends(mem[c].run, Entry(source, "failed", FALSE, None, None))
    /\ Holds(c, [mem[c] EXCEPT !.item = None, !.file = None, !.old = None, !.new = None])
    /\ Goes(c, "fix_item")
    /\ UNCHANGED <<runs, calls, crashes, drift, permVars>>

FinishFix(c) ==
    LET r == mem[c].run IN
    /\ pc[c] = "fix_item" /\ mem[c].todo = {}
    /\ Finish(r, FinalStatus({e.status : e \in Entries(r)}))
    /\ Leaves(c)
    /\ UNCHANGED <<journal, calls, crashes, drift, permVars>>

-----------------------------------------------------------------------------
(* Undo.                                                                    *)

\* _select_entries without ids: all that have an undo, with their places.
Undoable(r) ==
    {[at |-> i, entry |-> journal[r][i]] : i \in {k \in DOMAIN journal[r] : journal[r][k].undo}}

MutantReversible(e) == mode[PathOf[e.item]] # None
\* _assess_entry: applied, with its payload, and the mode is the one recorded.
Reversible(e) ==
    /\ e.status = "applied" /\ e.undo
    /\ mode[PathOf[e.item]] # None
    /\ mode[PathOf[e.item]] = e.new

\* plan finds the run reversible_now.
ReversibleNow(r) ==
    /\ runs[r].status = "completed"
    /\ Having(r, "failed") = {}
    /\ Undoable(r) # {}
    /\ \A u \in Undoable(r) : Reversible(u.entry)

\* execute: plan, fingerprints, token, run; the guard compares the token with
\* the fingerprints it was made from.
StartUndo(c, r, u) ==
    /\ Call(c) /\ runs[r] # None /\ runs[u] = None /\ u # r
    /\ ReversibleNow(r)
    /\ CreateRun(u, NewRun("undo", "running", r, {e \in Entries(r) : e.undo}))
    /\ Holds(c, [flow |-> "undo", run |-> u, todo |-> Undoable(r), item |-> None,
                 file |-> None, ok |-> TRUE])
    /\ Goes(c, "undo_item")
    /\ UNCHANGED <<journal, crashes, drift, permVars>>

\* In journal order, _execute_entry sets the old mode whatever the mode is now.
ChmodUndo(c) ==
    /\ pc[c] = "undo_item"
    /\ \E u \in mem[c].todo, ok \in BOOLEAN :
          LET f == PathOf[u.entry.item] IN
          /\ \A v \in mem[c].todo : u.at <= v.at
          /\ ok => mode[f] # None
          /\ mode' = IF ok THEN [mode EXCEPT ![f] = u.entry.old] ELSE mode
          /\ Holds(c, [mem[c] EXCEPT !.file = f, !.item = u.entry.item, !.ok = ok,
                                     !.todo = @ \ {u}])
    /\ Goes(c, "undo_journal")
    /\ UNCHANGED <<store, calls, crashes, drift, candidates, given, blurred>>

JournalUndo(c) ==
    /\ pc[c] = "undo_journal"
    /\ Appends(mem[c].run, Entry(mem[c].item, IF mem[c].ok THEN "applied" ELSE "failed",
                                 FALSE, None, None))
    /\ Holds(c, [mem[c] EXCEPT !.item = None, !.file = None])
    /\ Goes(c, "undo_item")
    /\ UNCHANGED <<runs, calls, crashes, drift, permVars>>

FinishUndo(c) ==
    LET u == mem[c].run IN
    /\ pc[c] = "undo_item" /\ mem[c].todo = {}
    /\ Finish(u, FinalStatus({e.status : e \in Entries(u)}))
    /\ Leaves(c)
    /\ UNCHANGED <<journal, calls, crashes, drift, permVars>>

-----------------------------------------------------------------------------
(* Outside.                                                                 *)

\* Entries of repairs that changed the file.
FixEntries(f) ==
    UNION {{e \in Having(r, "applied") : e.undo /\ PathOf[e.item] = f} : r \in Runs}

\* Files of runs and undos that have looked and have not ended.
InUse == {f \in Files : \E c \in Callers :
              \/ Held(c, f)
              \/ /\ pc[c] \in {"undo_item", "undo_journal"}
                 /\ \E u \in mem[c].todo : PathOf[u.entry.item] = f}

\* Somebody changes the mode of a file, or removes it.  A mode equal to the one
\* a repair left cannot be told from it.
ModeDrift(f, m) ==
    /\ drift < MaxDrift /\ mode[f] # None /\ m # mode[f]
    /\ drift' = drift + 1
    /\ mode' = [mode EXCEPT ![f] = m]
    /\ given' = [given EXCEPT ![f] = m]
    /\ blurred' = IF f \in InUse \/ (\E e \in FixEntries(f) : e.new = m)
                  THEN blurred \cup {f} ELSE blurred
    /\ UNCHANGED <<store, pc, mem, calls, crashes, candidates>>

\* Immich extracts the metadata after all.
Extracted(s) ==
    /\ drift < MaxDrift /\ s \in candidates /\ SourceStatus(PathOf[s]) = "ok"
    /\ drift' = drift + 1
    /\ candidates' = candidates \ {s}
    /\ UNCHANGED <<store, pc, mem, calls, crashes, mode, given, blurred>>

PermCrash ==
    /\ blurred' = blurred \cup InUse
    /\ UNCHANGED <<mode, candidates, given>>

PermStep(c) ==
    \/ GuardFix(c) \/ SnapshotFix(c) \/ SkipItem(c) \/ StatItem(c) \/ ChmodItem(c)
    \/ JournalItem(c) \/ FinishFix(c) \/ ChmodUndo(c) \/ JournalUndo(c) \/ FinishUndo(c)

PermCall(c) ==
    \E r \in Runs : \/ \E flags \in FlagSets : PlanOnly(c, r, flags) \/ PlanFix(c, r, flags)
                    \/ \E u \in Runs : StartUndo(c, r, u)

PermNext ==
    \/ \E c \in Callers : PermStep(c) \/ PermCall(c)
    \/ \E f \in Files : \E m \in Modes \cup {None} : ModeDrift(f, m)
    \/ \E s \in Sources : Extracted(s)

-----------------------------------------------------------------------------
PermTypeOK ==
    /\ mode \in [Files -> Modes \cup {None}] /\ given \in [Files -> Modes \cup {None}]
    /\ candidates \subseteq Sources /\ blurred \subseteq Files

\* A mode that nobody outside gave is the work of a repair the journal knows,
\* and the entry holds the mode to go back to: the mode before it was changed.
\* It is so between any two steps of repairs, undos, drift and crashes, for the
\* files none of them was working on when another interfered.
ModesExplained ==
    \A f \in Files \ blurred :
        \/ mode[f] = given[f]
        \/ \E c \in Callers : Held(c, f)
        \/ \E e \in FixEntries(f) : e.old = given[f] /\ e.new = mode[f]

\* Another run has granted access again, or is about to journal that it has.
RepairedSince(r, f) ==
    \/ \E c \in Callers : Held(c, f)
    \/ \E q \in Runs \ {r} : \E e \in Having(q, "applied") :
          e.undo /\ PathOf[e.item] = f /\ e.new = mode[f]

\* A completed undo of a run has brought every file of the run back to the mode
\* others gave it, when no file was repaired twice in the run.
UndoRestores ==
    [][\A c \in Callers :
          (FinishUndo(c) /\ runs'[mem[c].run].status = "completed") =>
             LET r == runs[mem[c].run].scope IN
             (\A e, d \in Entries(r) : e.undo /\ d.undo /\ e # d => PathOf[e.item] # PathOf[d.item])
             => \A e \in Entries(r) :
                   e.undo /\ PathOf[e.item] \notin blurred =>
                      \/ mode[PathOf[e.item]] = given[PathOf[e.item]]
                      \/ RepairedSince(r, PathOf[e.item])]_<<journalVars, permVars>>
=============================================================================
