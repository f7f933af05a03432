---------------------------- MODULE DbCorruption ----------------------------
(***************************************************************************)
(* DbCorruptionRepairService: a preview plans SQL statements against a     *)
(* damaged database and deletions of duplicate asset rows; an apply takes  *)
(* the same snapshot again, plans again and runs the statements one by     *)
(* one, each committed by itself.                                          *)
(*                                                                         *)
(* The reads of one snapshot are one step.  Review steps run nothing and   *)
(* are left out of the plans.  Rows that refer to a deleted asset go with  *)
(* it and are not kept here.                                               *)
(***************************************************************************)
EXTENDS RepairJournal, SequencesExt

CONSTANTS
    Assets,       \* ids of asset rows
    Keys,         \* owner and checksum of a row, numbered as the groups are ordered
    KeyOf,        \* asset -> its key, None without a checksum
    UserIndexes,
    Requests      \* what operators may ask a preview for

ASSUME CorruptionAssumption ==
    Keys \subseteq Nat /\ KeyOf \in [Assets -> Keys \cup {None}] /\ IsFiniteSet(UserIndexes)

VARIABLES
    assetRows,    \* assets with a row
    toast,        \* reading pg_statistic fails on a TOAST chunk
    badSystem,    \* system indexes are invalid
    badUser,      \* invalid user indexes
    busy,         \* other sessions are at work in the database
    superuser,    \* the role of immich-doctor is a superuser
    shown,        \* history: run -> the plan its preview showed
    misdeleted    \* history: rows deleted that were not one of several copies

database == <<assetRows, toast, badSystem, badUser, busy, superuser>>
corrVars == <<database, shown, misdeleted>>

\* selected_delete_ids; a backup confirmed or overridden; maintenance confirmed;
\* the error text of a system index; high-risk approval; force_reindex_database.
Request == [asked : SUBSET Assets, backup : BOOLEAN, maintenance : BOOLEAN,
            text : BOOLEAN, approval : BOOLEAN, force : BOOLEAN]
ASSUME RequestsAssumption == Requests \subseteq Request

Snapshots == [toast : BOOLEAN, badSystem : BOOLEAN, badUser : SUBSET UserIndexes,
              groups : SUBSET [key : Keys, rows : SUBSET Assets]]
CorrRun == [kind : {"corruption"}, status : RunStatus, scope : Request,
            token : Snapshots, snapshot : BOOLEAN]
\* None is told apart from a run file.
ASSUME NoRunAssumption == None \notin CorrRun

CorrInit ==
    /\ assetRows \in SUBSET Assets
    /\ toast \in BOOLEAN /\ badSystem \in BOOLEAN /\ badUser \in SUBSET UserIndexes
    /\ busy \in BOOLEAN /\ superuser \in BOOLEAN
    /\ shown = [r \in Runs |-> None]
    /\ misdeleted = {}

-----------------------------------------------------------------------------
(* Snapshot, selection and plan.                                            *)

CopiesOf(k) == {a \in assetRows : KeyOf[a] = k}
Groups == {[key |-> k, rows |-> CopiesOf(k)] : k \in {i \in Keys : Cardinality(CopiesOf(i)) > 1}}

Snapshot == [toast |-> toast, badSystem |-> badSystem, badUser |-> badUser, groups |-> Groups]

MutantFingerprint(snapshot) == [snapshot EXCEPT !.groups = {}]
\* What the plan token holds of a snapshot: candidate ids are part of it.
Fingerprint(snapshot) == snapshot

\* The groups are read largest first, then in the order of their keys.
ReadBefore(g, h) ==
    LET m == Cardinality(g.rows)
        n == Cardinality(h.rows) IN m > n \/ (m = n /\ g.key < h.key)

\* _selection_state: each group with selected rows overwrites the verdict of the
\* one before, so the last of them decides.
DeleteAllowed(groups, asked) ==
    \E g \in groups :
        /\ g.rows \cap asked # {}
        /\ g.rows \ asked # {}
        /\ \A h \in groups : h.rows \cap asked # {} => ~ReadBefore(g, h)

Row(op, state) == <<[op |-> op, on |-> None, state |-> state]>>
Rows(condition, rows) == IF condition THEN rows ELSE <<>>

Plan(snapshot, request) ==
    LET system == snapshot.toast \/ snapshot.badSystem
        indexes == SetToSeq(snapshot.badUser) IN
    Rows(snapshot.toast /\ request.text,
         Row("clear_pg_statistic", IF request.approval THEN "execute" ELSE "blocked"))
      \o Rows(system, Row("reindex_system", "execute") \o Row("analyze_database", "execute"))
      \o [i \in DOMAIN indexes |-> [op |-> "reindex_index", on |-> indexes[i], state |-> "execute"]]
      \o Rows(DeleteAllowed(snapshot.groups, request.asked),
              Row("delete_duplicate_assets", "execute"))
      \o Rows(request.force \/ snapshot.badUser # {}, Row("reindex_database", "execute"))

\* _preconditions
Allowed(request) == superuser /\ request.backup /\ request.maintenance /\ ~busy

\* A preview saves its run whether the preconditions pass or not.
PreviewCorruption(c, r, request) ==
    /\ Call(c) /\ runs[r] = None
    /\ CreateRun(r, NewRun("corruption", "planned", request, Fingerprint(Snapshot)))
    /\ shown' = [shown EXCEPT ![r] = Plan(Snapshot, request)]
    /\ UNCHANGED <<journal, pc, mem, crashes, drift, database, misdeleted>>

-----------------------------------------------------------------------------
(* Apply.                                                                   *)

\* apply loads the run whatever its status; the guard and the preconditions are
\* looked at together.
StartCorruption(c, r) ==
    /\ Call(c) /\ runs[r] # None
    /\ \/ /\ GuardValid(runs[r].token, Fingerprint(Snapshot))
          /\ Allowed(runs[r].scope)
          /\ Finish(r, "running")
          /\ Holds(c, [run |-> r, plan |-> Plan(Snapshot, runs[r].scope), at |-> 1,
                       before |-> Snapshot, applied |-> FALSE])
          /\ Goes(c, "statement")
       \/ /\ Finish(r, "failed")
          /\ UNCHANGED <<pc, mem>>
    /\ UNCHANGED <<journal, crashes, drift, corrVars>>

Current(c) == mem[c].plan[mem[c].at]
AtStep(c) == pc[c] = "statement" /\ mem[c].at <= Len(mem[c].plan)
Advances(c) == Holds(c, [mem[c] EXCEPT !.at = @ + 1])

\* A step without approval is passed over and leaves no entry.
Blocked(c) ==
    /\ AtStep(c) /\ Current(c).state = "blocked"
    /\ Advances(c)
    /\ UNCHANGED <<runs, journal, pc, calls, crashes, drift, corrVars>>

\* The rows an apply may delete: of each group one that stays was not asked for.
Surplus(groups, asked) ==
    UNION {g.rows \cap asked : g \in {h \in groups : h.rows \ asked # {}}}

\* The whole selection goes to the statement, not what was chosen in the groups.
Deletes(c) ==
    LET asked == runs[mem[c].run].scope.asked IN
    /\ assetRows' = assetRows \ asked
    /\ misdeleted' = misdeleted \cup ((assetRows \cap asked) \ Surplus(mem[c].before.groups, asked))

\* What the statement does in the database.
Statement(c) ==
    LET step == Current(c) IN
    /\ IF step.op = "delete_duplicate_assets" THEN Deletes(c) ELSE UNCHANGED <<assetRows, misdeleted>>
    /\ toast' = (toast /\ step.op # "clear_pg_statistic")
    /\ badSystem' = (badSystem /\ step.op # "reindex_system")
    /\ badUser' = CASE step.op = "reindex_index"    -> badUser \ {step.on}
                    [] step.op = "reindex_database" -> {}
                    [] OTHER                        -> badUser
    /\ UNCHANGED <<busy, superuser, shown>>

Execute(c) ==
    /\ AtStep(c) /\ Current(c).state = "execute"
    /\ Statement(c)
    /\ Holds(c, [mem[c] EXCEPT !.applied = TRUE])
    /\ Goes(c, "journal")
    /\ UNCHANGED <<runs, journal, calls, crashes, drift>>

\* The statement raises: nothing was done, or it was and the answer is lost.
ExecuteFails(c) ==
    /\ AtStep(c) /\ Current(c).state = "execute"
    /\ Statement(c) \/ UNCHANGED corrVars
    /\ Goes(c, "failing")
    /\ UNCHANGED <<runs, journal, mem, calls, crashes, drift>>

StepEntry(c, status) == Entry(Current(c), status, FALSE, None, None)

JournalStep(c) ==
    /\ pc[c] = "journal"
    /\ \/ /\ Appends(mem[c].run, StepEntry(c, "applied"))
          /\ Advances(c)
          /\ Goes(c, "statement")
       \/ /\ Goes(c, "failing")    \* the file cannot be written
          /\ UNCHANGED <<journal, mem>>
    /\ UNCHANGED <<runs, calls, crashes, drift, corrVars>>

MutantAfterFailure(applied) == IF applied THEN "completed" ELSE "failed"
AfterFailure(applied) == IF applied THEN "partial" ELSE "failed"

\* The handler of the failed step; when it cannot write either, the request
\* ends and the run stays as it is.
FailCorruption(c) ==
    /\ pc[c] = "failing"
    /\ \/ /\ Appends(mem[c].run, StepEntry(c, "failed"))
          /\ Finish(mem[c].run, AfterFailure(mem[c].applied))
       \/ UNCHANGED <<runs, journal>>
    /\ Leaves(c)
    /\ UNCHANGED <<calls, crashes, drift, corrVars>>

\* The verifying snapshot comes first; no one catches its failure.
FinishCorruption(c) ==
    /\ pc[c] = "statement" /\ mem[c].at > Len(mem[c].plan)
    /\ Finish(mem[c].run, "completed") \/ UNCHANGED runs
    /\ Leaves(c)
    /\ UNCHANGED <<journal, calls, crashes, drift, corrVars>>

-----------------------------------------------------------------------------
(* Immich, its users and the database meanwhile.                            *)

Drifts ==
    /\ drift < MaxDrift /\ drift' = drift + 1
    /\ UNCHANGED <<runs, journal, pc, mem, calls, crashes>>

\* An asset is uploaded again, or one is removed.
RowsChange ==
    /\ Drifts
    /\ \E a \in Assets : assetRows' = IF a \in assetRows THEN assetRows \ {a} ELSE assetRows \cup {a}
    /\ UNCHANGED <<toast, badSystem, badUser, busy, superuser, shown, misdeleted>>

Damage ==
    /\ Drifts
    /\ toast' \in {toast, TRUE} /\ badSystem' \in {badSystem, TRUE}
    /\ badUser' \in {badUser} \cup {badUser \cup {i} : i \in UserIndexes}
    /\ UNCHANGED <<assetRows, busy, superuser, shown, misdeleted>>

SessionsChange ==
    /\ Drifts
    /\ busy' = ~busy
    /\ UNCHANGED <<assetRows, toast, badSystem, badUser, superuser, shown, misdeleted>>

CorrCrash == JournalCrash /\ UNCHANGED corrVars

CorrNext ==
    \/ \E c \in Callers, r \in Runs :
          StartCorruption(c, r) \/ \E request \in Requests : PreviewCorruption(c, r, request)
    \/ \E c \in Callers :
          \/ Blocked(c) \/ Execute(c) \/ ExecuteFails(c) \/ JournalStep(c)
          \/ FailCorruption(c) \/ FinishCorruption(c)
    \/ RowsChange \/ Damage \/ SessionsChange
    \/ CorrCrash

CorrSpec == JournalInit /\ CorrInit /\ [][CorrNext]_<<journalVars, corrVars>>

-----------------------------------------------------------------------------
(* Properties.                                                              *)

\* What an apply carries out is the plan its preview showed: everything the plan
\* is made from is guarded by the token, so a database that changed between the
\* two stops the apply instead of giving it another plan.
AppliedAsPreviewed ==
    \A c \in Callers :
        pc[c] \in {"statement", "journal", "failing"} => mem[c].plan = shown[mem[c].run]

\* A run is completed only when each step its preview showed, but the blocked ones,
\* was applied and is in the journal, whatever fails, whoever applies it
\* again, and whatever a crash leaves behind.
CompletedMeansDone ==
    \A r \in Runs :
        runs[r] # None /\ runs[r].status = "completed" =>
            {step \in ToSet(shown[r]) : step.state = "execute"}
                \subseteq {e.item : e \in Having(r, "applied")}

\* The step that deletes says of itself "Delete only the operator-selected duplicate
\* asset rows": what an apply deletes has a copy that was not selected.
OnlyDuplicatesDeleted == misdeleted = {}
=============================================================================
