-------------------------- MODULE Operations_proofs -------------------------
(***************************************************************************)
(* Theorems about the operations MCOperations runs: the repair of a        *)
(* corrupted database, the estimate of the backup size and the catalog     *)
(* jobs over several roots.  Each part is about the specification of one   *)
(* of them and takes from the others only facts about numbers.             *)
(*                                                                         *)
(* DbCorruption: a run's plan is a function of what its token holds and of *)
(* its request, and neither changes once the run is saved.  So the plan an *)
(* apply makes is the one its preview showed (PlansFromTokens), and        *)
(* whoever is in the middle of a run has entries in the journal for all it *)
(* has passed (Progress), which no other apply of the same run takes away. *)
(*                                                                         *)
(* SizeEstimate: values are dated when they are collected, and those of an *)
(* earlier process are older than the start of this one; whatever a job    *)
(* shows went through the look at their age, or is called stale (Sound).   *)
(*                                                                         *)
(* CatalogWorkflow: every step rewrites the row of one open session or     *)
(* adds one (Rewrites), so a committed session stays as it is              *)
(* (CommittedStay).  From this follow, separately, that no open session is *)
(* newer than a running one (RunningIsLast), that what is open or fresh    *)
(* was scanned where its root is (ScannedInPlace), and that a job accounts *)
(* for its roots (JobAccounts).                                            *)
(***************************************************************************)
EXTENDS DbCorruption, SizeEstimate, CatalogWorkflow, SequenceTheorems, FiniteSetTheorems,
        WellFoundedInduction, TLAPS

-----------------------------------------------------------------------------
(* The first and the last of a set of numbers.                               *)

\* A set of numbers that is not empty has a least one.
LEMMA FirstExists ==
  ASSUME NEW S, S \subseteq Nat, S # {}
  PROVE  \E i \in S : \A j \in S : i <= j
<1>1. PICK i \in S : \A j \in S : ~(<<j, i>> \in OpToRel(<, Nat))
  BY NatLessThanWellFounded, WFMin
<1>2. \A j \in S : ~(j < i)
  BY <1>1 DEF OpToRel
<1> QED
  BY <1>2

\* A bounded set of numbers that is not empty has a greatest one.
LEMMA LastExists ==
  ASSUME NEW N \in Nat, NEW S, S \subseteq 0 .. N, S # {}
  PROVE  \E i \in S : \A j \in S : i >= j
<1> DEFINE T == {N - x : x \in S}
<1>1. T \subseteq Nat /\ T # {}
  <2>1. \A x \in S : N - x \in Nat
    OBVIOUS
  <2> QED BY <2>1
<1>2. PICK y \in T : \A z \in T : ~(<<z, y>> \in OpToRel(<, Nat))
  <2> HIDE DEF T
  <2> QED BY <1>1, NatLessThanWellFounded, WFMin
<1>3. \A z \in T : y <= z
  <2> HIDE DEF T
  <2> TAKE z \in T
  <2>1. y \in Nat /\ z \in Nat
    BY <1>1, <1>2
  <2>2. ~(z < y)
    BY <1>1, <1>2 DEF OpToRel
  <2> QED BY <2>1, <2>2
<1>4. PICK x \in S : y = N - x
  OBVIOUS
<1>5. ASSUME NEW j \in S PROVE x >= j
  <2>1. N - j \in T
    OBVIOUS
  <2>2. N - x <= N - j
    BY <1>3, <1>4, <2>1
  <2> QED BY <2>2
<1> QED BY <1>5

\* Max of such a set is that number.
LEMMA MaxIsLast ==
  ASSUME NEW N \in Nat, NEW S, S \subseteq 0 .. N, S # {}
  PROVE  Max(S) \in S /\ \A j \in S : Max(S) >= j
BY LastExists DEF Max

-----------------------------------------------------------------------------
(* The corruption repair: the inductive invariant.                         *)

Operations == {"clear_pg_statistic", "reindex_system", "analyze_database", "reindex_index",
               "delete_duplicate_assets", "reindex_database"}
PlanStep == [op : Operations, on : UserIndexes \cup {None}, state : {"execute", "blocked"}]
CorrEntry == [item : PlanStep, status : EntryStatus, undo : BOOLEAN, old : {None}, new : {None}]
Applying == [run : Runs, plan : Seq(PlanStep), at : Nat, before : Snapshots, applied : BOOLEAN]
AtWork == {"statement", "journal", "failing"}

DatabaseTypes ==
    /\ assetRows \subseteq Assets
    /\ toast \in BOOLEAN /\ badSystem \in BOOLEAN /\ badUser \subseteq UserIndexes

Types ==
    /\ DatabaseTypes
    /\ runs \in [Runs -> CorrRun \cup {None}]
    /\ journal \in [Runs -> Seq(CorrEntry)]
    /\ shown \in [Runs -> Seq(PlanStep) \cup {None}]
    /\ pc \in [Callers -> {"idle"} \cup AtWork]
    /\ mem \in [Callers -> Applying \cup {None}]
    /\ \A c \in Callers : pc[c] \in AtWork => mem[c] \in Applying

\* What a preview showed is what its token and its request determine.
PlansFromTokens ==
    \A r \in Runs : runs[r] # None => shown[r] = Plan(runs[r].token, runs[r].scope)

\* An apply holds the plan its run's preview showed.
PlansHeld ==
    \A c \in Callers : pc[c] \in AtWork =>
        runs[mem[c].run] # None /\ mem[c].plan = shown[mem[c].run]

\* The steps of each run that its journal has as applied.
AppliedItems == [r \in Runs |-> {e.item : e \in Having(r, "applied")}]

\* All an apply has passed was applied and is in the journal.
Progress ==
    \A c \in Callers : pc[c] \in AtWork =>
        /\ mem[c].at \in 1 .. Len(mem[c].plan) + 1
        /\ \A i \in 1 .. mem[c].at - 1 :
              mem[c].plan[i].state = "execute" => mem[c].plan[i] \in AppliedItems[mem[c].run]
        /\ pc[c] # "statement" => mem[c].at <= Len(mem[c].plan)
        /\ pc[c] = "journal" => mem[c].plan[mem[c].at].state = "execute"

Inv == Types /\ PlansFromTokens /\ PlansHeld /\ Progress /\ CompletedMeansDone

-----------------------------------------------------------------------------
(* The plan.                                                                *)

\* The invalid indexes are put in some order; the order is a sequence of them.
LEMMA IndexOrder ==
    ASSUME NEW S \in SUBSET UserIndexes
    PROVE  SetToSeq(S) \in Seq(UserIndexes)
<1>1. IsFiniteSet(S)
  BY CorruptionAssumption, FS_Subset
<1>2. Cardinality(S) \in Nat /\ ExistsBijection(1 .. Cardinality(S), S)
  BY <1>1, FS_CardinalityType
<1>3. \E f \in [1 .. Cardinality(S) -> S] : IsInjective(f)
  BY <1>2 DEF ExistsBijection, Bijection, Injection
<1>4. SetToSeq(S) \in [1 .. Cardinality(S) -> S]
  BY <1>3 DEF SetToSeq
<1> QED
  BY <1>2, <1>4

\* A plan is a list of steps, of which only clear_pg_statistic can be blocked.
LEMMA PlanTyped ==
    ASSUME NEW snapshot \in Snapshots, NEW request \in Request
    PROVE  Plan(snapshot, request) \in Seq(PlanStep)
<1> DEFINE indexes == SetToSeq(snapshot.badUser)
           reindexes == [i \in DOMAIN indexes |->
                           [op |-> "reindex_index", on |-> indexes[i], state |-> "execute"]]
<1>1. indexes \in Seq(UserIndexes)
  BY IndexOrder DEF Snapshots
<1> HIDE DEF indexes
<1>2. reindexes \in Seq(PlanStep)
  <2>1. \A i \in DOMAIN indexes :
           [op |-> "reindex_index", on |-> indexes[i], state |-> "execute"] \in PlanStep
    BY <1>1 DEF PlanStep, Operations
  <2>2. DOMAIN indexes = 1 .. Len(indexes) /\ Len(indexes) \in Nat
    BY <1>1
  <2>3. reindexes \in [1 .. Len(indexes) -> PlanStep]
    BY <2>1, <2>2
  <2> QED
    BY <2>2, <2>3
<1>3. \A op \in Operations, state \in {"execute", "blocked"} : Row(op, state) \in Seq(PlanStep)
  BY DEF Row, PlanStep
<1>4. \A condition, plan : plan \in Seq(PlanStep) => Rows(condition, plan) \in Seq(PlanStep)
  BY DEF Rows
<1> HIDE DEF reindexes
<1> DEFINE system == Row("reindex_system", "execute") \o Row("analyze_database", "execute")
           clear == Row("clear_pg_statistic", IF request.approval THEN "execute" ELSE "blocked")
           delete == Row("delete_duplicate_assets", "execute")
           all == Row("reindex_database", "execute")
<1>5. system \in Seq(PlanStep) /\ clear \in Seq(PlanStep) /\ delete \in Seq(PlanStep)
        /\ all \in Seq(PlanStep)
  BY <1>3 DEF Operations
<1> HIDE DEF system, clear, delete, all
<1>6. Plan(snapshot, request) =
        Rows(snapshot.toast /\ request.text, clear)
          \o Rows(snapshot.toast \/ snapshot.badSystem, system)
          \o reindexes
          \o Rows(DeleteAllowed(snapshot.groups, request.asked), delete)
          \o Rows(request.force \/ snapshot.badUser # {}, all)
  BY DEF Plan, indexes, reindexes, system, clear, delete, all
<1> QED
  BY <1>2, <1>4, <1>5, <1>6

\* What a snapshot reads of a database.
LEMMA SnapshotTyped == DatabaseTypes => Snapshot \in Snapshots
<1> SUFFICES ASSUME DatabaseTypes PROVE Snapshot \in Snapshots
  OBVIOUS
<1>1. Groups \subseteq [key : Keys, rows : SUBSET Assets]
  <2>1. \A k \in Keys : CopiesOf(k) \in SUBSET Assets
    BY DEF DatabaseTypes, CopiesOf
  <2> QED
    BY <2>1 DEF Groups
<1> QED
  BY <1>1 DEF DatabaseTypes, Snapshot, Snapshots

-----------------------------------------------------------------------------
(* The journal.                                                             *)

\* An entry is only ever added: what is recorded stays recorded.
LEMMA RecordedStays ==
    ASSUME Types, NEW q \in Runs, NEW entry \in CorrEntry, Appends(q, entry)
    PROVE  /\ journal' \in [Runs -> Seq(CorrEntry)]
           /\ \A r \in Runs : AppliedItems[r] \subseteq AppliedItems'[r]
           /\ entry.status = "applied" => entry.item \in AppliedItems'[q]
<1>1. journal' = [journal EXCEPT ![q] = Append(journal[q], entry)]
  BY DEF Appends
<1>2. journal[q] \in Seq(CorrEntry)
  BY DEF Types
<1>3. Append(journal[q], entry) \in Seq(CorrEntry)
  BY <1>2
<1>4. \A i \in DOMAIN journal[q] : i \in DOMAIN Append(journal[q], entry)
                                     /\ Append(journal[q], entry)[i] = journal[q][i]
  BY <1>2
<1>5. Len(journal[q]) + 1 \in DOMAIN Append(journal[q], entry)
        /\ Append(journal[q], entry)[Len(journal[q]) + 1] = entry
  BY <1>2
<1>6. journal'[q] = Append(journal[q], entry) /\ \A r \in Runs \ {q} : journal'[r] = journal[r]
  BY <1>1 DEF Types
<1>7. \A r \in Runs : Entries(r) \subseteq Entries(r)'
  BY <1>4, <1>6 DEF Entries
<1>8. \A r \in Runs : AppliedItems[r] \subseteq AppliedItems'[r]
  BY <1>7 DEF AppliedItems, Having
<1>9. entry \in Entries(q)'
  BY <1>5, <1>6 DEF Entries
<1>10. entry.status = "applied" => entry.item \in AppliedItems'[q]
  BY <1>9 DEF AppliedItems, Having
<1> QED
  BY <1>1, <1>3, <1>8, <1>10 DEF Types

-----------------------------------------------------------------------------
(* Every step preserves each part of the invariant.                         *)

\* What the statements and the world do to the database.
LEMMA DatabaseStep ==
    Types /\ [CorrNext]_<<journalVars, corrVars>>
  => DatabaseTypes'
<1> SUFFICES ASSUME Types, [CorrNext]_<<journalVars, corrVars>>
             PROVE  DatabaseTypes'
  OBVIOUS
<1> USE DEF Types, DatabaseTypes, journalVars, corrVars, database, Statement, Deletes
<1>1. ASSUME NEW c \in Callers, NEW r \in Runs, NEW request \in Requests,
             PreviewCorruption(c, r, request)
      PROVE  DatabaseTypes'
  BY <1>1 DEF PreviewCorruption, Drifts
<1>2. ASSUME NEW c \in Callers, NEW r \in Runs, StartCorruption(c, r) PROVE  DatabaseTypes'
  BY <1>2 DEF StartCorruption, Drifts
<1>3. ASSUME NEW c \in Callers, Blocked(c) PROVE  DatabaseTypes'
  BY <1>3 DEF Blocked, Drifts
<1>4. ASSUME NEW c \in Callers, Execute(c) PROVE  DatabaseTypes'
  BY <1>4 DEF Execute, Drifts
<1>5. ASSUME NEW c \in Callers, ExecuteFails(c) PROVE  DatabaseTypes'
  BY <1>5 DEF ExecuteFails, Drifts
<1>6. ASSUME NEW c \in Callers, JournalStep(c) PROVE  DatabaseTypes'
  BY <1>6 DEF JournalStep, Drifts
<1>7. ASSUME NEW c \in Callers, FailCorruption(c) PROVE  DatabaseTypes'
  BY <1>7 DEF FailCorruption, Drifts
<1>8. ASSUME NEW c \in Callers, FinishCorruption(c) PROVE  DatabaseTypes'
  BY <1>8 DEF FinishCorruption, Drifts
<1>9. ASSUME RowsChange PROVE  DatabaseTypes'
  BY <1>9 DEF RowsChange, Drifts
<1>10. ASSUME Damage PROVE  DatabaseTypes'
  BY <1>10 DEF Damage, Drifts
<1>11. ASSUME SessionsChange PROVE  DatabaseTypes'
  BY <1>11 DEF SessionsChange, Drifts
<1>12. ASSUME CorrCrash PROVE  DatabaseTypes'
  BY <1>12 DEF CorrCrash
<1>13. CASE UNCHANGED <<journalVars, corrVars>>
  BY <1>13
<1> QED
  BY <1>1, <1>2, <1>3, <1>4, <1>5, <1>6, <1>7, <1>8, <1>9, <1>10, <1>11, <1>12, <1>13 DEF CorrNext

\* What a caller writes about its current step is an entry.
LEMMA EntryTyped ==
    ASSUME Types, Progress, NEW c \in Callers, NEW status \in EntryStatus,
           pc[c] \in {"journal", "failing"}
    PROVE  StepEntry(c, status) \in CorrEntry
<1>1. mem[c] \in Applying /\ mem[c].at \in 1 .. Len(mem[c].plan)
  BY DEF Types, Progress, AtWork, Applying
<1>2. mem[c].plan[mem[c].at] \in PlanStep
  BY <1>1 DEF Applying
<1> QED
  BY <1>2 DEF StepEntry, Entry, Current, CorrEntry

\* The run files, the journal and what callers hold keep their types.
LEMMA TypesStep ==
    Types /\ PlansHeld /\ Progress /\ [CorrNext]_<<journalVars, corrVars>>
  => Types'
<1> SUFFICES ASSUME Types, PlansHeld, Progress, [CorrNext]_<<journalVars, corrVars>>
             PROVE  Types'
  OBVIOUS
<1> USE DEF Types
<1>a. DatabaseTypes'
  BY DatabaseStep
<1>h. \A c \in Callers : pc[c] \in AtWork =>
         mem[c] \in Applying /\ runs[mem[c].run] \in CorrRun
  BY DEF PlansHeld, Applying
<1>n. \A held \in Applying : [held EXCEPT !.at = @ + 1] \in Applying
  <2> SUFFICES ASSUME NEW held \in Applying PROVE [held EXCEPT !.at = @ + 1] \in Applying
    OBVIOUS
  <2>1. held.at + 1 \in Nat
    BY DEF Applying
  <2> DEFINE n == held.at + 1
  <2> HIDE DEF n
  <2>2. [held EXCEPT !.at = n] \in Applying
    BY <2>1 DEF Applying, n
  <2> QED
    BY <2>2 DEF n
<1>1. ASSUME NEW c \in Callers, NEW r \in Runs, NEW request \in Requests,
             PreviewCorruption(c, r, request)
      PROVE  Types'
  <2>1. Snapshot \in Snapshots /\ request \in Request
    BY SnapshotTyped, RequestsAssumption DEF Types
  <2>2. NewRun("corruption", "planned", request, Fingerprint(Snapshot)) \in CorrRun
    BY <2>1 DEF NewRun, CorrRun, RunStatus, Fingerprint
  <2>3. Plan(Snapshot, request) \in Seq(PlanStep)
    BY <2>1, PlanTyped
  <2> QED
    BY <1>1, <1>a, <2>2, <2>3 DEF corrVars, PreviewCorruption, CreateRun
<1>2. ASSUME NEW c \in Callers, NEW r \in Runs, StartCorruption(c, r) PROVE  Types'
  <2>1. Snapshot \in Snapshots /\ runs[r] \in CorrRun
    BY <1>2, SnapshotTyped DEF StartCorruption, Types
  <2>2. Plan(Snapshot, runs[r].scope) \in Seq(PlanStep)
    BY <2>1, PlanTyped DEF CorrRun
  <2>3. \A status \in RunStatus : [runs EXCEPT ![r].status = status] \in [Runs -> CorrRun \cup {None}]
    BY <2>1 DEF CorrRun, Types
  <2> DEFINE held == [run |-> r, plan |-> Plan(Snapshot, runs[r].scope), at |-> 1,
                      before |-> Snapshot, applied |-> FALSE]
  <2>4. held \in Applying
    BY <2>1, <2>2 DEF Applying
  <2> HIDE DEF held
  <2>5. CASE Finish(r, "running") /\ Holds(c, held) /\ Goes(c, "statement")
    BY <1>2, <1>a, <2>3, <2>4, <2>5 DEF corrVars, StartCorruption, Finish, Holds, Goes, RunStatus, AtWork
  <2>6. CASE Finish(r, "failed") /\ UNCHANGED <<pc, mem>>
    BY <1>2, <1>a, <2>3, <2>6 DEF corrVars, StartCorruption, Finish, RunStatus
  <2> QED
    BY <1>2, <2>5, <2>6 DEF StartCorruption, held
<1>3. ASSUME NEW c \in Callers, Blocked(c) PROVE  Types'
  <2>1. [mem[c] EXCEPT !.at = @ + 1] \in Applying
    BY <1>3, <1>n DEF Blocked, AtStep, AtWork
  <2> QED
    BY <1>3, <1>a, <2>1 DEF corrVars, Blocked, Advances, Holds, AtStep, AtWork
<1>4. ASSUME NEW c \in Callers, Execute(c) PROVE  Types'
  <2>1. [mem[c] EXCEPT !.applied = TRUE] \in Applying
    BY <1>4 DEF Execute, AtStep, AtWork, Types, Applying
  <2> QED
    BY <1>4, <1>a, <2>1 DEF corrVars, Execute, Holds, Goes, AtStep, AtWork, Statement
<1>5. ASSUME NEW c \in Callers, ExecuteFails(c) PROVE  Types'
  BY <1>5, <1>a DEF corrVars, ExecuteFails, Goes, AtStep, AtWork, Statement
<1>6. ASSUME NEW c \in Callers, JournalStep(c) PROVE  Types'
  <2>1. mem[c] \in Applying
    BY <1>6 DEF JournalStep, AtWork
  <2>2. [mem[c] EXCEPT !.at = @ + 1] \in Applying
    BY <2>1, <1>n
  <2>3. StepEntry(c, "applied") \in CorrEntry
    BY <1>6, EntryTyped DEF JournalStep, EntryStatus
  <2>4. CASE Appends(mem[c].run, StepEntry(c, "applied")) /\ Advances(c) /\ Goes(c, "statement")
    <3>1. journal' \in [Runs -> Seq(CorrEntry)]
      BY <2>1, <2>3, <2>4, RecordedStays DEF Applying
    <3> QED
      BY <1>6, <1>a, <2>2, <2>4, <3>1 DEF corrVars, JournalStep, Advances, Holds, Goes, AtWork
  <2>5. CASE Goes(c, "failing") /\ UNCHANGED <<journal, mem>>
    BY <1>6, <1>a, <2>5 DEF corrVars, JournalStep, Goes, AtWork
  <2> QED
    BY <1>6, <2>4, <2>5 DEF JournalStep
<1>7. ASSUME NEW c \in Callers, FailCorruption(c) PROVE  Types'
  <2>1. mem[c] \in Applying /\ runs[mem[c].run] \in CorrRun /\ mem[c].run \in Runs
    BY <1>7, <1>h DEF FailCorruption, AtWork, Applying
  <2>2. \A status \in RunStatus : [runs EXCEPT ![mem[c].run].status = status] \in [Runs -> CorrRun \cup {None}]
    BY <2>1 DEF CorrRun, Types
  <2>3. AfterFailure(mem[c].applied) \in RunStatus
    BY DEF AfterFailure, RunStatus
  <2>4. CASE Appends(mem[c].run, StepEntry(c, "failed")) /\ Finish(mem[c].run, AfterFailure(mem[c].applied))
    <3>1. StepEntry(c, "failed") \in CorrEntry
      BY <1>7, EntryTyped DEF FailCorruption, EntryStatus
    <3>2. journal' \in [Runs -> Seq(CorrEntry)]
      BY <2>1, <2>4, <3>1, RecordedStays
    <3> QED
      BY <1>7, <1>a, <2>2, <2>3, <2>4, <3>2 DEF corrVars, FailCorruption, Finish, Leaves, Goes, Holds, AtWork
  <2>5. CASE UNCHANGED <<runs, journal>>
    BY <1>7, <1>a, <2>5 DEF corrVars, FailCorruption, Leaves, Goes, Holds, AtWork
  <2> QED
    BY <1>7, <2>4, <2>5 DEF FailCorruption
<1>8. ASSUME NEW c \in Callers, FinishCorruption(c) PROVE  Types'
  <2>1. runs[mem[c].run] \in CorrRun /\ mem[c].run \in Runs
    BY <1>8, <1>h DEF FinishCorruption, AtWork, Applying
  <2>2. [runs EXCEPT ![mem[c].run].status = "completed"] \in [Runs -> CorrRun \cup {None}]
    BY <2>1 DEF CorrRun, RunStatus, Types
  <2> QED
    BY <1>8, <1>a, <2>2 DEF corrVars, FinishCorruption, Finish, Leaves, Goes, Holds, AtWork
<1>9. ASSUME RowsChange PROVE  Types'
  BY <1>9, <1>a DEF RowsChange, journalVars, corrVars, Drifts, JournalCrash, AtWork
<1>10. ASSUME Damage PROVE  Types'
  BY <1>10, <1>a DEF Damage, journalVars, corrVars, Drifts, JournalCrash, AtWork
<1>11. ASSUME SessionsChange PROVE  Types'
  BY <1>11, <1>a DEF SessionsChange, journalVars, corrVars, Drifts, JournalCrash, AtWork
<1>12. ASSUME CorrCrash PROVE  Types'
  BY <1>12, <1>a DEF CorrCrash, journalVars, corrVars, Drifts, JournalCrash, AtWork
<1>13. CASE UNCHANGED <<journalVars, corrVars>>
  BY <1>13, <1>a DEF journalVars, corrVars, Drifts, JournalCrash, AtWork
<1> QED
  BY <1>1, <1>2, <1>3, <1>4, <1>5, <1>6, <1>7, <1>8, <1>9, <1>10, <1>11, <1>12, <1>13 DEF CorrNext

\* What never changes of a run that is saved.
SavedRunsKept ==
    \A s \in Runs : runs[s] # None =>
        /\ runs'[s] # None /\ runs'[s].token = runs[s].token /\ runs'[s].scope = runs[s].scope
        /\ shown'[s] = shown[s]

\* finish writes the status; token, request and what was shown stay.
LEMMA RunsKept ==
    Types /\ PlansHeld /\ [CorrNext]_<<journalVars, corrVars>>
  => SavedRunsKept
<1> SUFFICES ASSUME Types, PlansHeld, [CorrNext]_<<journalVars, corrVars>>
             PROVE  SavedRunsKept
  OBVIOUS
<1> USE DEF SavedRunsKept
<1>1. ASSUME NEW c \in Callers, NEW r \in Runs, NEW request \in Requests,
             PreviewCorruption(c, r, request)
      PROVE  SavedRunsKept
  <2>1. runs[r] = None /\ \A s \in Runs \ {r} : runs'[s] = runs[s] /\ shown'[s] = shown[s]
    BY <1>1 DEF PreviewCorruption, CreateRun, Types
  <2> QED
    BY <2>1
<1>2. ASSUME NEW c \in Callers, NEW r \in Runs, StartCorruption(c, r) PROVE  SavedRunsKept
  <2>1. runs[r] \in CorrRun /\ r \in Runs
    BY <1>2 DEF StartCorruption, Types, PlansHeld, AtWork, Applying
  <2>2. UNCHANGED runs \/ \E status \in RunStatus : runs' = [runs EXCEPT ![r].status = status]
    BY <1>2 DEF StartCorruption, Finish, RunStatus, AfterFailure
  <2>3. UNCHANGED shown
    BY <1>2 DEF StartCorruption, corrVars
  <2>4. \A status \in RunStatus : LET run == [runs[r] EXCEPT !.status = status] IN
           run \in CorrRun /\ run.token = runs[r].token /\ run.scope = runs[r].scope
    BY <2>1 DEF CorrRun
  <2>5. CASE \E status \in RunStatus : runs' = [runs EXCEPT ![r].status = status]
    <3>1. PICK status \in RunStatus : runs' = [runs EXCEPT ![r].status = status]
      BY <2>5
    <3>2. /\ \A s \in Runs \ {r} : runs'[s] = runs[s]
          /\ runs'[r] = [runs[r] EXCEPT !.status = status]
      BY <2>1, <3>1 DEF Types
    <3> QED
      BY ZenonT(60), <2>3, <2>4, <3>2, NoRunAssumption
  <2> QED
    BY <2>2, <2>3, <2>5
<1>3. ASSUME NEW c \in Callers, Blocked(c) PROVE  SavedRunsKept
  BY <1>3 DEF Blocked, journalVars, corrVars, database, Drifts, JournalCrash, Statement
<1>4. ASSUME NEW c \in Callers, Execute(c) PROVE  SavedRunsKept
  BY <1>4 DEF Execute, journalVars, corrVars, database, Drifts, JournalCrash, Statement
<1>5. ASSUME NEW c \in Callers, ExecuteFails(c) PROVE  SavedRunsKept
  BY <1>5 DEF ExecuteFails, journalVars, corrVars, database, Drifts, JournalCrash, Statement
<1>6. ASSUME NEW c \in Callers, JournalStep(c) PROVE  SavedRunsKept
  BY <1>6 DEF JournalStep, journalVars, corrVars, database, Drifts, JournalCrash, Statement
<1>7. ASSUME NEW c \in Callers, FailCorruption(c) PROVE  SavedRunsKept
  <2>1. runs[mem[c].run] \in CorrRun /\ mem[c].run \in Runs
    BY <1>7 DEF FailCorruption, Types, PlansHeld, AtWork, Applying
  <2>2. UNCHANGED runs \/ \E status \in RunStatus : runs' = [runs EXCEPT ![mem[c].run].status = status]
    BY <1>7 DEF FailCorruption, Finish, RunStatus, AfterFailure
  <2>3. UNCHANGED shown
    BY <1>7 DEF FailCorruption, corrVars
  <2>4. \A status \in RunStatus : LET run == [runs[mem[c].run] EXCEPT !.status = status] IN
           run \in CorrRun /\ run.token = runs[mem[c].run].token /\ run.scope = runs[mem[c].run].scope
    BY <2>1 DEF CorrRun
  <2>5. CASE \E status \in RunStatus : runs' = [runs EXCEPT ![mem[c].run].status = status]
    <3>1. PICK status \in RunStatus : runs' = [runs EXCEPT ![mem[c].run].status = status]
      BY <2>5
    <3>2. /\ \A s \in Runs \ {mem[c].run} : runs'[s] = runs[s]
          /\ runs'[mem[c].run] = [runs[mem[c].run] EXCEPT !.status = status]
      BY <2>1, <3>1 DEF Types
    <3> QED
      BY ZenonT(60), <2>3, <2>4, <3>2, NoRunAssumption
  <2> QED
    BY <2>2, <2>3, <2>5
<1>8. ASSUME NEW c \in Callers, FinishCorruption(c) PROVE  SavedRunsKept
  <2>1. runs[mem[c].run] \in CorrRun /\ mem[c].run \in Runs
    BY <1>8 DEF FinishCorruption, Types, PlansHeld, AtWork, Applying
  <2>2. UNCHANGED runs \/ \E status \in RunStatus : runs' = [runs EXCEPT ![mem[c].run].status = status]
    BY <1>8 DEF FinishCorruption, Finish, RunStatus, AfterFailure
  <2>3. UNCHANGED shown
    BY <1>8 DEF FinishCorruption, corrVars
  <2>4. \A status \in RunStatus : LET run == [runs[mem[c].run] EXCEPT !.status = status] IN
           run \in CorrRun /\ run.token = runs[mem[c].run].token /\ run.scope = runs[mem[c].run].scope
    BY <2>1 DEF CorrRun
  <2>5. CASE \E status \in RunStatus : runs' = [runs EXCEPT ![mem[c].run].status = status]
    <3>1. PICK status \in RunStatus : runs' = [runs EXCEPT ![mem[c].run].status = status]
      BY <2>5
    <3>2. /\ \A s \in Runs \ {mem[c].run} : runs'[s] = runs[s]
          /\ runs'[mem[c].run] = [runs[mem[c].run] EXCEPT !.status = status]
      BY <2>1, <3>1 DEF Types
    <3> QED
      BY ZenonT(60), <2>3, <2>4, <3>2, NoRunAssumption
  <2> QED
    BY <2>2, <2>3, <2>5
<1>9. ASSUME RowsChange PROVE  SavedRunsKept
  BY <1>9 DEF RowsChange, journalVars, corrVars, database, Drifts, JournalCrash, Statement
<1>10. ASSUME Damage PROVE  SavedRunsKept
  BY <1>10 DEF Damage, journalVars, corrVars, database, Drifts, JournalCrash, Statement
<1>11. ASSUME SessionsChange PROVE  SavedRunsKept
  BY <1>11 DEF SessionsChange, journalVars, corrVars, database, Drifts, JournalCrash, Statement
<1>12. ASSUME CorrCrash PROVE  SavedRunsKept
  BY <1>12 DEF CorrCrash, journalVars, corrVars, database, Drifts, JournalCrash, Statement
<1>13. CASE UNCHANGED <<journalVars, corrVars>>
  BY <1>13 DEF journalVars, corrVars, database, Drifts, JournalCrash, Statement
<1> QED
  BY <1>1, <1>2, <1>3, <1>4, <1>5, <1>6, <1>7, <1>8, <1>9, <1>10, <1>11, <1>12, <1>13 DEF CorrNext

\* A run is saved together with the plan its token and request determine.
LEMMA PlansFromTokensStep ==
    Types /\ PlansHeld /\ PlansFromTokens /\ [CorrNext]_<<journalVars, corrVars>>
  => PlansFromTokens'
<1> SUFFICES ASSUME Types, PlansHeld, PlansFromTokens, [CorrNext]_<<journalVars, corrVars>>,
                    NEW s \in Runs, runs'[s] # None
             PROVE  shown'[s] = Plan(runs'[s].token, runs'[s].scope)
  BY DEF PlansFromTokens
<1>1. CASE runs[s] # None
  BY <1>1, RunsKept DEF SavedRunsKept, PlansFromTokens
<1>2. CASE runs[s] = None
  <2>1. ASSUME NEW c \in Callers, NEW r \in Runs, NEW request \in Requests,
               PreviewCorruption(c, r, request)
        PROVE  shown'[s] = Plan(runs'[s].token, runs'[s].scope)
    <3>1. s = r
      BY <1>2, <2>1 DEF PreviewCorruption, CreateRun, Types
    <3>2. runs'[r].token = Snapshot /\ runs'[r].scope = request
      BY <2>1 DEF PreviewCorruption, CreateRun, NewRun, Fingerprint, Types
    <3>3. shown'[r] = Plan(Snapshot, request)
      BY <2>1 DEF PreviewCorruption, Types
    <3> QED
      BY <3>1, <3>2, <3>3
  <2>2. ASSUME NEW c \in Callers, NEW r \in Runs, StartCorruption(c, r) PROVE runs'[s] = None
    BY <1>2, <2>2 DEF StartCorruption, Finish, Types
  <2>3. ASSUME NEW c \in Callers, FailCorruption(c) \/ FinishCorruption(c) PROVE runs'[s] = None
    <3>1. runs[mem[c].run] # None
      BY <2>3 DEF FailCorruption, FinishCorruption, PlansHeld, AtWork
    <3> QED
      BY <1>2, <2>3, <3>1 DEF FailCorruption, FinishCorruption, Finish, Types
  <2>4. ASSUME NEW c \in Callers, Blocked(c) \/ Execute(c) \/ ExecuteFails(c) \/ JournalStep(c)
        PROVE  runs'[s] = None
    BY <1>2, <2>4 DEF Blocked, Execute, ExecuteFails, JournalStep
  <2>5. CASE RowsChange \/ Damage \/ SessionsChange \/ CorrCrash \/ UNCHANGED <<journalVars, corrVars>>
    BY <1>2, <2>5 DEF RowsChange, Damage, SessionsChange, CorrCrash, Drifts, JournalCrash, journalVars
  <2> QED
    BY <2>1, <2>2, <2>3, <2>4, <2>5 DEF CorrNext
<1> QED
  BY <1>1, <1>2

\* The guard makes an apply plan from the very snapshot the token holds.
LEMMA PlansHeldStep ==
    /\ Types
    /\ PlansHeld
    /\ PlansFromTokens
    /\ [CorrNext]_<<journalVars, corrVars>>
  => PlansHeld'
<1> SUFFICES ASSUME Types, PlansHeld, PlansFromTokens,
                    [CorrNext]_<<journalVars, corrVars>>
             PROVE  PlansHeld'
  OBVIOUS
<1>k. SavedRunsKept
  BY RunsKept
<1>1. ASSUME NEW c \in Callers, NEW r \in Runs, NEW request \in Requests,
             PreviewCorruption(c, r, request)
      PROVE  PlansHeld'
  BY <1>1, <1>k DEF PreviewCorruption, journalVars, corrVars, database, Goes, Holds, Leaves, Drifts, JournalCrash, SavedRunsKept, PlansHeld, Types, AtWork, Applying
<1>2. ASSUME NEW c \in Callers, NEW r \in Runs, StartCorruption(c, r) PROVE  PlansHeld'
  <2>1. CASE UNCHANGED <<pc, mem>>
    BY <1>k, <2>1 DEF SavedRunsKept, PlansHeld, Types, AtWork, Applying
  <2>2. CASE /\ runs[r].token = Snapshot
             /\ Holds(c, [run |-> r, plan |-> Plan(Snapshot, runs[r].scope), at |-> 1,
                          before |-> Snapshot, applied |-> FALSE])
             /\ Goes(c, "statement")
    <3>1. runs[r] # None /\ shown[r] = Plan(Snapshot, runs[r].scope)
      BY <1>2, <2>2 DEF StartCorruption, PlansFromTokens
    <3>2. mem'[c].run = r /\ mem'[c].plan = shown'[r] /\ runs'[r] # None
      BY <1>k, <2>2, <3>1 DEF Holds, Types, SavedRunsKept
    <3>3. \A b \in Callers \ {c} : mem'[b] = mem[b] /\ pc'[b] = pc[b]
      BY <2>2 DEF Holds, Goes, Types
    <3> QED
      BY <1>k, <3>2, <3>3 DEF SavedRunsKept, PlansHeld, Types, Applying
  <2> QED
    BY <1>2, <2>1, <2>2 DEF StartCorruption, GuardValid, Fingerprint
<1>3. ASSUME NEW c \in Callers, Blocked(c) PROVE  PlansHeld'
  <2>1. \A b \in Callers : pc'[b] \in AtWork =>
           pc[b] \in AtWork /\ mem'[b].run = mem[b].run /\ mem'[b].plan = mem[b].plan
    BY <1>3 DEF Blocked, AtStep, Advances, Holds, Goes, AtWork, Types, Applying
  <2> QED
    BY <1>k, <2>1 DEF SavedRunsKept, PlansHeld, Types, Applying
<1>4. ASSUME NEW c \in Callers, Execute(c) PROVE  PlansHeld'
  <2>1. \A b \in Callers : pc'[b] \in AtWork =>
           pc[b] \in AtWork /\ mem'[b].run = mem[b].run /\ mem'[b].plan = mem[b].plan
    BY <1>4 DEF Execute, AtStep, Advances, Holds, Goes, AtWork, Types, Applying
  <2> QED
    BY <1>k, <2>1 DEF SavedRunsKept, PlansHeld, Types, Applying
<1>5. ASSUME NEW c \in Callers, ExecuteFails(c) PROVE  PlansHeld'
  <2>1. \A b \in Callers : pc'[b] \in AtWork =>
           pc[b] \in AtWork /\ mem'[b].run = mem[b].run /\ mem'[b].plan = mem[b].plan
    BY <1>5 DEF ExecuteFails, AtStep, Advances, Holds, Goes, AtWork, Types, Applying
  <2> QED
    BY <1>k, <2>1 DEF SavedRunsKept, PlansHeld, Types, Applying
<1>6. ASSUME NEW c \in Callers, JournalStep(c) PROVE  PlansHeld'
  <2>1. \A b \in Callers : pc'[b] \in AtWork =>
           pc[b] \in AtWork /\ mem'[b].run = mem[b].run /\ mem'[b].plan = mem[b].plan
    BY <1>6 DEF JournalStep, AtStep, Advances, Holds, Goes, AtWork, Types, Applying
  <2> QED
    BY <1>k, <2>1 DEF SavedRunsKept, PlansHeld, Types, Applying
<1>7. ASSUME NEW c \in Callers, FailCorruption(c) PROVE  PlansHeld'
  BY <1>7, <1>k DEF FailCorruption, journalVars, corrVars, database, Goes, Holds, Leaves, Drifts, JournalCrash, SavedRunsKept, PlansHeld, Types, AtWork, Applying
<1>8. ASSUME NEW c \in Callers, FinishCorruption(c) PROVE  PlansHeld'
  BY <1>8, <1>k DEF FinishCorruption, journalVars, corrVars, database, Goes, Holds, Leaves, Drifts, JournalCrash, SavedRunsKept, PlansHeld, Types, AtWork, Applying
<1>9. ASSUME RowsChange PROVE  PlansHeld'
  BY <1>9, <1>k DEF RowsChange, journalVars, corrVars, database, Goes, Holds, Leaves, Drifts, JournalCrash, SavedRunsKept, PlansHeld, Types, AtWork, Applying
<1>10. ASSUME Damage PROVE  PlansHeld'
  BY <1>10, <1>k DEF Damage, journalVars, corrVars, database, Goes, Holds, Leaves, Drifts, JournalCrash, SavedRunsKept, PlansHeld, Types, AtWork, Applying
<1>11. ASSUME SessionsChange PROVE  PlansHeld'
  BY <1>11, <1>k DEF SessionsChange, journalVars, corrVars, database, Goes, Holds, Leaves, Drifts, JournalCrash, SavedRunsKept, PlansHeld, Types, AtWork, Applying
<1>12. ASSUME CorrCrash PROVE  PlansHeld'
  BY <1>12, <1>k DEF CorrCrash, journalVars, corrVars, database, Goes, Holds, Leaves, Drifts, JournalCrash, SavedRunsKept, PlansHeld, Types, AtWork, Applying
<1>13. CASE UNCHANGED <<journalVars, corrVars>>
  BY <1>13, <1>k DEF journalVars, corrVars, database, Goes, Holds, Leaves, Drifts, JournalCrash, SavedRunsKept, PlansHeld, Types, AtWork, Applying
<1> QED
  BY <1>1, <1>2, <1>3, <1>4, <1>5, <1>6, <1>7, <1>8, <1>9, <1>10, <1>11, <1>12, <1>13 DEF CorrNext

\* No step takes an applied entry away.
RecordsKept == \A r \in Runs : AppliedItems[r] \subseteq AppliedItems'[r]

\* The journal of a run only grows, whoever works on it.
LEMMA RecordsStay ==
    Types /\ Progress /\ [CorrNext]_<<journalVars, corrVars>>
  => RecordsKept
<1> SUFFICES ASSUME Types, Progress, [CorrNext]_<<journalVars, corrVars>>
             PROVE  RecordsKept
  OBVIOUS
<1>1. ASSUME NEW c \in Callers, NEW r \in Runs, NEW request \in Requests,
             PreviewCorruption(c, r, request)
      PROVE  RecordsKept
  BY <1>1 DEF PreviewCorruption, journalVars, Drifts, JournalCrash, RecordsKept, AppliedItems, Having, Entries
<1>2. ASSUME NEW c \in Callers, NEW r \in Runs, StartCorruption(c, r) PROVE  RecordsKept
  BY <1>2 DEF StartCorruption, journalVars, Drifts, JournalCrash, RecordsKept, AppliedItems, Having, Entries
<1>3. ASSUME NEW c \in Callers, Blocked(c) PROVE  RecordsKept
  BY <1>3 DEF Blocked, journalVars, Drifts, JournalCrash, RecordsKept, AppliedItems, Having, Entries
<1>4. ASSUME NEW c \in Callers, Execute(c) PROVE  RecordsKept
  BY <1>4 DEF Execute, journalVars, Drifts, JournalCrash, RecordsKept, AppliedItems, Having, Entries
<1>5. ASSUME NEW c \in Callers, ExecuteFails(c) PROVE  RecordsKept
  BY <1>5 DEF ExecuteFails, journalVars, Drifts, JournalCrash, RecordsKept, AppliedItems, Having, Entries
<1>6. ASSUME NEW c \in Callers, JournalStep(c) PROVE  RecordsKept
  <2>1. mem[c] \in Applying
    BY <1>6 DEF JournalStep, AtWork, Types
  <2>2. CASE Appends(mem[c].run, StepEntry(c, "applied"))
    <3>1. StepEntry(c, "applied") \in CorrEntry
      BY <1>6, EntryTyped DEF JournalStep, EntryStatus
    <3> QED
      BY <2>1, <2>2, <3>1, RecordedStays DEF Applying, RecordsKept
  <2>3. CASE UNCHANGED journal
    BY <2>3 DEF RecordsKept, AppliedItems, Having, Entries
  <2> QED
    BY <1>6, <2>2, <2>3 DEF JournalStep
<1>7. ASSUME NEW c \in Callers, FailCorruption(c) PROVE  RecordsKept
  <2>1. mem[c] \in Applying
    BY <1>7 DEF FailCorruption, AtWork, Types
  <2>2. CASE Appends(mem[c].run, StepEntry(c, "failed"))
    <3>1. StepEntry(c, "failed") \in CorrEntry
      BY <1>7, EntryTyped DEF FailCorruption, EntryStatus
    <3> QED
      BY <2>1, <2>2, <3>1, RecordedStays DEF Applying, RecordsKept
  <2>3. CASE UNCHANGED journal
    BY <2>3 DEF RecordsKept, AppliedItems, Having, Entries
  <2> QED
    BY <1>7, <2>2, <2>3 DEF FailCorruption
<1>8. ASSUME NEW c \in Callers, FinishCorruption(c) PROVE  RecordsKept
  BY <1>8 DEF FinishCorruption, journalVars, Drifts, JournalCrash, RecordsKept, AppliedItems, Having, Entries
<1>9. ASSUME RowsChange PROVE  RecordsKept
  BY <1>9 DEF RowsChange, journalVars, Drifts, JournalCrash, RecordsKept, AppliedItems, Having, Entries
<1>10. ASSUME Damage PROVE  RecordsKept
  BY <1>10 DEF Damage, journalVars, Drifts, JournalCrash, RecordsKept, AppliedItems, Having, Entries
<1>11. ASSUME SessionsChange PROVE  RecordsKept
  BY <1>11 DEF SessionsChange, journalVars, Drifts, JournalCrash, RecordsKept, AppliedItems, Having, Entries
<1>12. ASSUME CorrCrash PROVE  RecordsKept
  BY <1>12 DEF CorrCrash, journalVars, Drifts, JournalCrash, RecordsKept, AppliedItems, Having, Entries
<1>13. CASE UNCHANGED <<journalVars, corrVars>>
  BY <1>13 DEF journalVars, Drifts, JournalCrash, RecordsKept, AppliedItems, Having, Entries
<1> QED
  BY <1>1, <1>2, <1>3, <1>4, <1>5, <1>6, <1>7, <1>8, <1>9, <1>10, <1>11, <1>12, <1>13 DEF CorrNext

\* A caller passes a step without an entry only when it is blocked.
LEMMA ProgressStep ==
    Types /\ Progress /\ Types' /\ [CorrNext]_<<journalVars, corrVars>>
  => Progress'
<1> SUFFICES ASSUME Types, Progress, Types', [CorrNext]_<<journalVars, corrVars>>
             PROVE  Progress'
  OBVIOUS
<1>t. Types'
  OBVIOUS
<1>k. RecordsKept
  BY RecordsStay
<1>1. ASSUME NEW c \in Callers, NEW r \in Runs, NEW request \in Requests,
             PreviewCorruption(c, r, request)
      PROVE  Progress'
  BY <1>1, <1>k DEF PreviewCorruption, journalVars, Goes, Holds, Leaves, Drifts, JournalCrash, RecordsKept, Progress, Types, AtWork, Applying
<1>2. ASSUME NEW c \in Callers, NEW r \in Runs, StartCorruption(c, r) PROVE  Progress'
  <2>1. \A b \in Callers \ {c} : mem'[b] = mem[b] /\ pc'[b] = pc[b]
    BY <1>2 DEF StartCorruption, Holds, Goes, Types
  <2>2. CASE UNCHANGED <<pc, mem>>
    BY <1>k, <2>2 DEF RecordsKept, Progress, AtWork, Types, Applying
  <2>3. CASE /\ Holds(c, [run |-> r, plan |-> Plan(Snapshot, runs[r].scope), at |-> 1,
                          before |-> Snapshot, applied |-> FALSE])
             /\ Goes(c, "statement")
    <3>1. pc'[c] = "statement" /\ mem'[c].at = 1 /\ mem'[c].plan = Plan(Snapshot, runs[r].scope)
      BY <2>3 DEF Holds, Goes, Types
    <3>2. mem'[c] \in Applying
      BY <1>t, <3>1 DEF Types, AtWork
    <3>3. 1 \in 1 .. Len(mem'[c].plan) + 1 /\ 1 .. (1 - 1) = {}
      BY <3>2 DEF Applying
    <3> QED
      BY <1>k, <2>1, <3>1, <3>3 DEF RecordsKept, Progress, Types, Applying
  <2> QED
    BY <1>2, <2>2, <2>3 DEF StartCorruption
<1>3. ASSUME NEW c \in Callers, Blocked(c) PROVE  Progress'
  <2>1. \A b \in Callers \ {c} : mem'[b] = mem[b] /\ pc'[b] = pc[b]
    BY <1>3 DEF Blocked, Advances, Holds, Types
  <2>2. mem[c] \in Applying /\ mem[c].at <= Len(mem[c].plan) /\ mem[c].plan[mem[c].at].state # "execute"
    BY <1>3 DEF Blocked, AtStep, AtWork, Types, Current
  <2>3. /\ mem'[c].at = mem[c].at + 1 /\ mem'[c].plan = mem[c].plan /\ mem'[c].run = mem[c].run
        /\ pc'[c] = "statement"
    BY <1>3, <2>2 DEF Blocked, AtStep, Advances, Holds, Types, Applying
  <2>4. mem[c].at \in Nat /\ Len(mem[c].plan) \in Nat /\ mem[c].at >= 1
    BY <1>3, <2>2 DEF Blocked, AtStep, AtWork, Applying, Progress
  <2>5. mem'[c].at \in 1 .. Len(mem'[c].plan) + 1
    BY <2>2, <2>3, <2>4
  <2>6. ASSUME NEW i \in 1 .. mem'[c].at - 1, mem'[c].plan[i].state = "execute"
        PROVE  mem'[c].plan[i] \in AppliedItems'[mem'[c].run]
    <3>1. i \in 1 .. mem[c].at - 1
      BY <2>2, <2>3, <2>4, <2>6
    <3>2. mem[c].plan[i] \in AppliedItems[mem[c].run]
      BY <1>3, <2>3, <2>6, <3>1 DEF Progress, Blocked, AtStep, AtWork
    <3> QED
      BY <1>k, <2>2, <2>3, <3>2 DEF RecordsKept, Applying
  <2> QED
    BY ZenonT(60), <1>k, <2>1, <2>3, <2>5, <2>6 DEF RecordsKept, Progress, Types, Applying
<1>4. ASSUME NEW c \in Callers, Execute(c) PROVE  Progress'
  <2>1. \A b \in Callers \ {c} : mem'[b] = mem[b] /\ pc'[b] = pc[b]
    BY <1>4 DEF Execute, Goes, Holds, Types
  <2>2. /\ mem'[c].at = mem[c].at /\ mem'[c].plan = mem[c].plan /\ mem'[c].run = mem[c].run
        /\ pc'[c] = "journal" /\ pc[c] = "statement"
        /\ mem[c].at <= Len(mem[c].plan) /\ mem[c].plan[mem[c].at].state = "execute"
    BY <1>4 DEF Execute, AtStep, Current, Goes, Holds, Types, Applying, AtWork
  <2>3. mem[c].run \in Runs /\ pc[c] \in AtWork
    BY <2>2 DEF Types, Applying, AtWork
  <2>4. /\ mem[c].at \in 1 .. Len(mem[c].plan) + 1
        /\ \A i \in 1 .. mem[c].at - 1 : mem[c].plan[i].state = "execute"
              => mem[c].plan[i] \in AppliedItems'[mem[c].run]
    BY <1>k, <2>3 DEF Progress, RecordsKept
  <2>5. \A b \in Callers \ {c} : pc[b] \in AtWork => mem[b].run \in Runs
    BY DEF Types, Applying
  <2> SUFFICES ASSUME NEW b \in Callers, pc'[b] \in AtWork
               PROVE  /\ mem'[b].at \in 1 .. Len(mem'[b].plan) + 1
                      /\ \A i \in 1 .. mem'[b].at - 1 : mem'[b].plan[i].state = "execute"
                            => mem'[b].plan[i] \in AppliedItems'[mem'[b].run]
                      /\ pc'[b] # "statement" => mem'[b].at <= Len(mem'[b].plan)
                      /\ pc'[b] = "journal" => mem'[b].plan[mem'[b].at].state = "execute"
    BY DEF Progress
  <2>6. CASE b = c
    BY <2>2, <2>4, <2>6
  <2>7. CASE b # c
    BY <1>k, <2>1, <2>5, <2>7 DEF RecordsKept, Progress
  <2> QED
    BY <2>6, <2>7
<1>5. ASSUME NEW c \in Callers, ExecuteFails(c) PROVE  Progress'
  <2>1. \A b \in Callers \ {c} : mem'[b] = mem[b] /\ pc'[b] = pc[b]
    BY <1>5 DEF ExecuteFails, Goes, Holds, Types
  <2>2. /\ mem'[c].at = mem[c].at /\ mem'[c].plan = mem[c].plan /\ mem'[c].run = mem[c].run
        /\ pc'[c] = "failing" /\ pc[c] = "statement"
        /\ mem[c].at <= Len(mem[c].plan) /\ mem[c].plan[mem[c].at].state = "execute"
    BY <1>5 DEF ExecuteFails, AtStep, Current, Goes, Holds, Types, Applying, AtWork
  <2>3. mem[c].run \in Runs /\ pc[c] \in AtWork
    BY <2>2 DEF Types, Applying, AtWork
  <2>4. /\ mem[c].at \in 1 .. Len(mem[c].plan) + 1
        /\ \A i \in 1 .. mem[c].at - 1 : mem[c].plan[i].state = "execute"
              => mem[c].plan[i] \in AppliedItems'[mem[c].run]
    BY <1>k, <2>3 DEF Progress, RecordsKept
  <2>5. \A b \in Callers \ {c} : pc[b] \in AtWork => mem[b].run \in Runs
    BY DEF Types, Applying
  <2> SUFFICES ASSUME NEW b \in Callers, pc'[b] \in AtWork
               PROVE  /\ mem'[b].at \in 1 .. Len(mem'[b].plan) + 1
                      /\ \A i \in 1 .. mem'[b].at - 1 : mem'[b].plan[i].state = "execute"
                            => mem'[b].plan[i] \in AppliedItems'[mem'[b].run]
                      /\ pc'[b] # "statement" => mem'[b].at <= Len(mem'[b].plan)
                      /\ pc'[b] = "journal" => mem'[b].plan[mem'[b].at].state = "execute"
    BY DEF Progress
  <2>6. CASE b = c
    BY <2>2, <2>4, <2>6
  <2>7. CASE b # c
    BY <1>k, <2>1, <2>5, <2>7 DEF RecordsKept, Progress
  <2> QED
    BY <2>6, <2>7
<1>6. ASSUME NEW c \in Callers, JournalStep(c) PROVE  Progress'
  <2>1. \A b \in Callers \ {c} : mem'[b] = mem[b] /\ pc'[b] = pc[b]
    BY <1>6 DEF JournalStep, Goes, Advances, Holds, Types
  <2>2. mem[c] \in Applying /\ pc[c] = "journal"
    BY <1>6 DEF JournalStep, AtWork, Types
  <2>3. mem[c].at \in Nat /\ Len(mem[c].plan) \in Nat /\ mem[c].at \in 1 .. Len(mem[c].plan)
    BY <2>2 DEF AtWork, Applying, Progress
  <2>4. CASE Goes(c, "failing") /\ UNCHANGED mem
    <3>1. pc'[c] = "failing" /\ mem'[c] = mem[c]
      BY <2>4 DEF Goes, Types
    <3> QED
      BY ZenonT(60), <1>k, <2>1, <2>2, <3>1 DEF RecordsKept, Progress, Types, Applying, AtWork
  <2>5. CASE Appends(mem[c].run, StepEntry(c, "applied")) /\ Advances(c) /\ Goes(c, "statement")
    <3>1. /\ mem'[c].at = mem[c].at + 1 /\ mem'[c].plan = mem[c].plan /\ mem'[c].run = mem[c].run
          /\ pc'[c] = "statement"
      BY <2>2, <2>5 DEF Goes, Advances, Holds, Types, Applying
    <3>2. mem'[c].at \in 1 .. Len(mem'[c].plan) + 1
      BY <2>3, <3>1
    <3>3. StepEntry(c, "applied") \in CorrEntry
      BY <2>2, EntryTyped DEF EntryStatus
    <3>4. /\ StepEntry(c, "applied").item = mem[c].plan[mem[c].at]
          /\ StepEntry(c, "applied").status = "applied"
      BY DEF StepEntry, Entry, Current
    <3>5. mem[c].plan[mem[c].at] \in AppliedItems'[mem[c].run]
      BY <2>2, <2>5, <3>3, <3>4, RecordedStays DEF Applying
    <3>6. ASSUME NEW i \in 1 .. mem'[c].at - 1, mem'[c].plan[i].state = "execute"
          PROVE  mem'[c].plan[i] \in AppliedItems'[mem'[c].run]
      <4>1. CASE i = mem[c].at
        BY <3>1, <3>5, <4>1
      <4>2. CASE i # mem[c].at
        <5>1. i \in 1 .. mem[c].at - 1
          BY <2>3, <3>1, <4>2
        <5>2. mem[c].plan[i] \in AppliedItems[mem[c].run]
          BY <2>2, <3>1, <3>6, <5>1 DEF Progress, AtWork
        <5> QED
          BY <1>k, <2>2, <3>1, <5>2 DEF RecordsKept, Applying
      <4> QED
        BY <4>1, <4>2
    <3> QED
      BY ZenonT(60), <1>k, <2>1, <3>1, <3>2, <3>6 DEF RecordsKept, Progress, Types, Applying
  <2> QED
    BY <1>6, <2>4, <2>5 DEF JournalStep
<1>7. ASSUME NEW c \in Callers, FailCorruption(c) PROVE  Progress'
  BY <1>7, <1>k DEF FailCorruption, journalVars, Goes, Holds, Leaves, Drifts, JournalCrash, RecordsKept, Progress, Types, AtWork, Applying
<1>8. ASSUME NEW c \in Callers, FinishCorruption(c) PROVE  Progress'
  BY <1>8, <1>k DEF FinishCorruption, journalVars, Goes, Holds, Leaves, Drifts, JournalCrash, RecordsKept, Progress, Types, AtWork, Applying
<1>9. ASSUME RowsChange PROVE  Progress'
  BY <1>9, <1>k DEF RowsChange, journalVars, Goes, Holds, Leaves, Drifts, JournalCrash, RecordsKept, Progress, Types, AtWork, Applying
<1>10. ASSUME Damage PROVE  Progress'
  BY <1>10, <1>k DEF Damage, journalVars, Goes, Holds, Leaves, Drifts, JournalCrash, RecordsKept, Progress, Types, AtWork, Applying
<1>11. ASSUME SessionsChange PROVE  Progress'
  BY <1>11, <1>k DEF SessionsChange, journalVars, Goes, Holds, Leaves, Drifts, JournalCrash, RecordsKept, Progress, Types, AtWork, Applying
<1>12. ASSUME CorrCrash PROVE  Progress'
  BY <1>12, <1>k DEF CorrCrash, journalVars, Goes, Holds, Leaves, Drifts, JournalCrash, RecordsKept, Progress, Types, AtWork, Applying
<1>13. CASE UNCHANGED <<journalVars, corrVars>>
  BY <1>13, <1>k DEF journalVars, Goes, Holds, Leaves, Drifts, JournalCrash, RecordsKept, Progress, Types, AtWork, Applying
<1> QED
  BY <1>1, <1>2, <1>3, <1>4, <1>5, <1>6, <1>7, <1>8, <1>9, <1>10, <1>11, <1>12, <1>13 DEF CorrNext

\* CompletedMeansDone of one run.
Done(r) == \A step \in ToSet(shown[r]) : step.state = "execute" => step \in AppliedItems[r]
AllDone == \A r \in Runs : runs[r] # None /\ runs[r].status = "completed" => Done(r)

LEMMA DoneIsDone == AllDone <=> CompletedMeansDone
  BY DEF AllDone, Done, CompletedMeansDone, AppliedItems

\* A run is marked completed by a caller that has passed its whole plan, and what it
\* has recorded stays.
LEMMA DoneStep ==
    /\ Types
    /\ PlansHeld
    /\ Progress
    /\ AllDone
    /\ [CorrNext]_<<journalVars, corrVars>>
  => AllDone'
<1> SUFFICES ASSUME Types, PlansHeld, Progress, AllDone,
                    [CorrNext]_<<journalVars, corrVars>>
             PROVE  AllDone'
  OBVIOUS
<1>k. SavedRunsKept
  BY RunsKept
<1>r. RecordsKept
  BY RecordsStay
<1> USE DEF AllDone
<1>1. ASSUME NEW c \in Callers, NEW r \in Runs, NEW request \in Requests,
             PreviewCorruption(c, r, request)
      PROVE  AllDone'
  <2>1. runs[r] = None /\ \A s \in Runs \ {r} : runs'[s] = runs[s]
    BY <1>1 DEF PreviewCorruption, CreateRun, Types
  <2>2. runs'[r].status = "planned"
    BY <1>1 DEF PreviewCorruption, CreateRun, NewRun, Types
  <2> QED
    BY <1>k, <1>r, <2>1, <2>2 DEF SavedRunsKept, RecordsKept, Done
<1>2. ASSUME NEW c \in Callers, NEW r \in Runs, StartCorruption(c, r) PROVE  AllDone'
  <2>1. runs[r] # None /\ r \in Runs
    BY <1>2 DEF StartCorruption, Types, PlansHeld, AtWork, Applying
  <2>2. runs' = runs \/ \E status \in {"running", "failed", "partial"} :
                           runs' = [runs EXCEPT ![r].status = status]
    BY <1>2 DEF StartCorruption, Finish, AfterFailure
  <2>3. \A s \in Runs : runs'[s] # None /\ runs'[s].status = "completed" =>
           runs[s] # None /\ runs[s].status = "completed"
    BY <2>1, <2>2 DEF Types, CorrRun
  <2> QED
    BY <1>k, <1>r, <2>3 DEF SavedRunsKept, RecordsKept, Done
<1>3. ASSUME NEW c \in Callers, Blocked(c) PROVE  AllDone'
  BY <1>3, <1>k, <1>r DEF Blocked, journalVars, corrVars, database, Drifts, JournalCrash, SavedRunsKept, RecordsKept, Done
<1>4. ASSUME NEW c \in Callers, Execute(c) PROVE  AllDone'
  BY <1>4, <1>k, <1>r DEF Execute, journalVars, corrVars, database, Drifts, JournalCrash, SavedRunsKept, RecordsKept, Done
<1>5. ASSUME NEW c \in Callers, ExecuteFails(c) PROVE  AllDone'
  BY <1>5, <1>k, <1>r DEF ExecuteFails, journalVars, corrVars, database, Drifts, JournalCrash, SavedRunsKept, RecordsKept, Done
<1>6. ASSUME NEW c \in Callers, JournalStep(c) PROVE  AllDone'
  BY <1>6, <1>k, <1>r DEF JournalStep, journalVars, corrVars, database, Drifts, JournalCrash, SavedRunsKept, RecordsKept, Done
<1>7. ASSUME NEW c \in Callers, FailCorruption(c) PROVE  AllDone'
  <2>1. runs[mem[c].run] # None /\ mem[c].run \in Runs
    BY <1>7 DEF FailCorruption, Types, PlansHeld, AtWork, Applying
  <2>2. runs' = runs \/ \E status \in {"running", "failed", "partial"} :
                           runs' = [runs EXCEPT ![mem[c].run].status = status]
    BY <1>7 DEF FailCorruption, Finish, AfterFailure
  <2>3. \A s \in Runs : runs'[s] # None /\ runs'[s].status = "completed" =>
           runs[s] # None /\ runs[s].status = "completed"
    BY <2>1, <2>2 DEF Types, CorrRun
  <2> QED
    BY <1>k, <1>r, <2>3 DEF SavedRunsKept, RecordsKept, Done
<1>8. ASSUME NEW c \in Callers, FinishCorruption(c) PROVE  AllDone'
  <2> DEFINE r == mem[c].run
             plan == mem[c].plan
  <2>1. mem[c] \in Applying /\ r \in Runs /\ plan \in Seq(PlanStep) /\ runs[r] # None /\ plan = shown[r]
    BY <1>8 DEF FinishCorruption, Types, PlansHeld, AtWork, Applying
  <2>2. \A i \in 1 .. Len(plan) : plan[i].state = "execute" => plan[i] \in AppliedItems[r]
    <3>1. mem[c].at = Len(plan) + 1
      BY <1>8, <2>1 DEF FinishCorruption, Progress, AtWork, Applying
    <3>2. 1 .. mem[c].at - 1 = 1 .. Len(plan)
      BY <2>1, <3>1
    <3> QED
      BY <1>8, <3>2 DEF FinishCorruption, Progress, AtWork
  <2>3. \A step \in ToSet(shown[r]) : step.state = "execute" => step \in AppliedItems[r]
    BY <2>1, <2>2 DEF ToSet
  <2>4. \A s \in Runs \ {r} : runs'[s] = runs[s]
    BY <1>8, <2>1 DEF FinishCorruption, Finish, Types
  <2> HIDE DEF r, plan
  <2> QED
    BY <1>k, <1>r, <2>1, <2>3, <2>4 DEF SavedRunsKept, RecordsKept, Done
<1>9. ASSUME RowsChange PROVE  AllDone'
  BY <1>9, <1>k, <1>r DEF RowsChange, journalVars, corrVars, database, Drifts, JournalCrash, SavedRunsKept, RecordsKept, Done
<1>10. ASSUME Damage PROVE  AllDone'
  BY <1>10, <1>k, <1>r DEF Damage, journalVars, corrVars, database, Drifts, JournalCrash, SavedRunsKept, RecordsKept, Done
<1>11. ASSUME SessionsChange PROVE  AllDone'
  BY <1>11, <1>k, <1>r DEF SessionsChange, journalVars, corrVars, database, Drifts, JournalCrash, SavedRunsKept, RecordsKept, Done
<1>12. ASSUME CorrCrash PROVE  AllDone'
  BY <1>12, <1>k, <1>r DEF CorrCrash, journalVars, corrVars, database, Drifts, JournalCrash, SavedRunsKept, RecordsKept, Done
<1>13. CASE UNCHANGED <<journalVars, corrVars>>
  BY <1>13, <1>k, <1>r DEF journalVars, corrVars, database, Drifts, JournalCrash, SavedRunsKept, RecordsKept, Done
<1> QED
  BY <1>1, <1>2, <1>3, <1>4, <1>5, <1>6, <1>7, <1>8, <1>9, <1>10, <1>11, <1>12, <1>13 DEF CorrNext

LEMMA InitInv == JournalInit /\ CorrInit => Inv
<1> SUFFICES ASSUME JournalInit, CorrInit PROVE Inv
  OBVIOUS
<1>1. Types
  BY DEF JournalInit, CorrInit, Types, DatabaseTypes, AtWork
<1>2. \A r \in Runs : runs[r] = None
  BY DEF JournalInit
<1>3. \A c \in Callers : pc[c] \notin AtWork
  BY DEF JournalInit, AtWork
<1> QED
  BY <1>1, <1>2, <1>3 DEF Inv, PlansFromTokens, PlansHeld, Progress, CompletedMeansDone

LEMMA InvStep == Inv /\ [CorrNext]_<<journalVars, corrVars>> => Inv'
<1> SUFFICES ASSUME Inv, [CorrNext]_<<journalVars, corrVars>> PROVE Inv'
  OBVIOUS
<1> USE DEF Inv
<1>1. Types'
  BY TypesStep
<1>2. PlansFromTokens' /\ PlansHeld'
  BY PlansFromTokensStep, PlansHeldStep
<1>3. Progress'
  BY <1>1, ProgressStep
<1>4. AllDone'
  BY DoneIsDone, DoneStep
<1>5. CompletedMeansDone'
  BY <1>4 DEF AllDone, Done, CompletedMeansDone, AppliedItems
<1> QED
  BY <1>1, <1>2, <1>3, <1>5

-----------------------------------------------------------------------------
(* The theorems about the corruption repair.                               *)

\* In every state runs, journal and callers satisfy Inv.
THEOREM CorrSpecInv == CorrSpec => []Inv
  BY InitInv, InvStep, PTL DEF CorrSpec

\* DbCorruptionRepairService.apply: the snapshot is taken and planned again behind
\* the plan token, so what is executed is what the operator was shown, whatever
\* changed in the database and however many callers apply the run.
THEOREM PreviewIsBinding == CorrSpec => []AppliedAsPreviewed
<1>1. Inv => AppliedAsPreviewed
  BY DEF Inv, PlansHeld, AppliedAsPreviewed, AtWork
<1> QED
  BY <1>1, CorrSpecInv, PTL

\* apply marks a run completed after the last statement: by then every step that
\* was not blocked is in the journal as applied, and it stays there.
THEOREM CompletedIsDone == CorrSpec => []CompletedMeansDone
<1>1. Inv => CompletedMeansDone
  BY DEF Inv
<1> QED
  BY <1>1, CorrSpecInv, PTL

-----------------------------------------------------------------------------
(* The size estimate: what is known of the values that are kept.            *)

EstStates ==
    {"pending", "running", "partial", "completed", "unsupported", "canceled", "failed", "stopping"}
Snaps == [state : EstStates, at : Nat \cup {None}, by : Jobs \cup {None}, stale : BOOLEAN]
EstRecord == [state : EstStates, result : Snaps]
EstMemory == [job : Jobs \cup {None}, previous : Snaps \cup {None}]

\* Values have the time they were collected at, before the restart unless a job of
\* this process collected them; sound ones are also called stale in that case.
Dated(snap) ==
    /\ snap \in Snaps
    /\ snap.by # None => snap.at \in 0 .. now
    /\ snap.by # None /\ snap.by \notin alive => snap.at < startedAt
Sound(snap) == Dated(snap) /\ (snap.by # None /\ snap.by \notin alive => snap.stale)

Collecting == {"queued", "announce", "database", "completed", "failed", "unsupported", "cleanup"}
EstSteps == {"idle", "get_latest", "collect_latest", "collect_forced", "start", "register"}

EstTypes ==
    /\ now \in Nat /\ startedAt \in 0 .. now /\ alive \subseteq Jobs
    /\ pc \in [Callers -> EstSteps] /\ mem \in [Callers -> EstMemory \cup {None}]
    /\ file \in [Jobs -> EstRecord \cup {None}]
    /\ recent \in Seq(Jobs)
    /\ worker \in [Jobs -> Collecting \cup {"none", "dead", "over"}]
    /\ previous \in [Jobs -> Snaps \cup {None}]

\* What is kept is dated; what the jobs of this process show, and what was served,
\* is sound.
RecordsDated ==
    /\ \A i \in DOMAIN recent : file[recent[i]] \in EstRecord /\ Dated(file[recent[i]].result)
    /\ \A j \in alive : file[j] \in EstRecord /\ Sound(file[j].result)
    /\ \A j \in Jobs : previous[j] = None \/ Dated(previous[j])
    /\ \A snap \in served : Sound(snap)

\* Who is in the middle of a collection works on a job of this process.
OfThisProcess ==
    /\ \A c \in Callers : pc[c] \in {"start", "register"} =>
          mem[c] \in EstMemory /\ (mem[c].previous = None \/ Dated(mem[c].previous))
    /\ \A c \in Callers : pc[c] = "register" => mem[c].job \in alive
    /\ active \in alive \cup {None}
    /\ \A j \in Jobs : worker[j] \in Collecting => j \in alive

EstInv == EstTypes /\ RecordsDated /\ OfThisProcess

-----------------------------------------------------------------------------
(* Snapshots.                                                               *)

\* Values whose freshness was looked at are sound.
LEMMA FreshnessSound ==
  ASSUME EstTypes, NEW snap, Dated(snap)
  PROVE  Sound(Freshness(snap))
<1>1. CASE snap.at = None
  <2>1. Freshness(snap) = snap /\ snap.by = None
    BY <1>1, NoTimeAssumption DEF Freshness, Dated
  <2> QED BY <2>1 DEF Sound
<1>2. CASE snap.at # None
  <2>1. snap.at \in Nat /\ now \in Nat /\ startedAt \in Nat /\ Window \in Nat
    BY <1>2, EstimateBounds DEF Dated, Snaps, EstTypes
  <2>2. Stale(snap) \in BOOLEAN /\ (snap.at < startedAt => Stale(snap))
    BY <2>1 DEF Stale
  <2>3. Freshness(snap) = [snap EXCEPT !.stale = Stale(snap)]
    BY <1>2 DEF Freshness
  <2> DEFINE looked == Freshness(snap)
  <2>4. /\ looked \in Snaps /\ looked.at = snap.at /\ looked.by = snap.by
        /\ looked.stale = Stale(snap)
    BY <2>2, <2>3 DEF Dated, Snaps
  <2> QED BY <2>2, <2>4 DEF Sound, Dated
<1> QED BY <1>1, <1>2

\* What a queued or running job shows of an earlier snapshot is called stale.
LEMMA ShownSound ==
  ASSUME NEW snap, snap = None \/ Dated(snap)
  PROVE  Sound(Queued(snap)) /\ Sound(Shown(snap))
<1>1. CASE snap = None
  <2>1. Queued(snap) = Pending /\ Pending.by = None /\ Pending \in Snaps
    BY <1>1 DEF Queued, Pending, Snap, Snaps, EstStates
  <2>2. Shown(snap) = [Pending EXCEPT !.state = "running"]
    BY <2>1 DEF Shown
  <2>3. Shown(snap) \in Snaps /\ Shown(snap).by = None
    BY <2>1, <2>2 DEF Snaps, EstStates
  <2> QED BY <2>1, <2>3 DEF Sound, Dated
<1>2. CASE snap # None
  <2>1. Queued(snap) = [[snap EXCEPT !.stale = TRUE] EXCEPT !.state = "pending"]
    BY <1>2 DEF Queued, CarriedOver
  <2>2. Shown(snap) = [Queued(snap) EXCEPT !.state = "running"]
    BY DEF Shown
  <2>3. /\ Queued(snap) \in Snaps /\ Queued(snap).stale
        /\ Queued(snap).at = snap.at /\ Queued(snap).by = snap.by
    BY <1>2, <2>1 DEF Dated, Snaps, EstStates
  <2>4. /\ Shown(snap) \in Snaps /\ Shown(snap).stale
        /\ Shown(snap).at = snap.at /\ Shown(snap).by = snap.by
    BY <2>2, <2>3 DEF Snaps, EstStates
  <2> QED BY <1>2, <2>3, <2>4 DEF Sound, Dated
<1> QED BY <1>1, <1>2

\* A state is derived for whatever the scopes are in.
LEMMA OverallTyped ==
  ASSUME NEW states \in SUBSET EstStates
  PROVE  Overall(states) \in EstStates
<1>1. ASSUME NEW s \in EstStates, states = {s} PROVE (CHOOSE t \in states : TRUE) \in EstStates
  BY <1>1
<1>2. {"unsupported", "canceled", "completed", "failed", "pending", "running", "partial"}
        \subseteq EstStates
  BY DEF EstStates
<1> QED BY <1>1, <1>2 DEF Overall

\* What a job of this process collects is sound.
LEMMA BuiltSound ==
  ASSUME EstTypes, NEW j \in alive, NEW states \in SUBSET EstStates
  PROVE  Sound(Built(j, states)) /\ Built(j, states).state \in EstStates
<1> DEFINE built == Built(j, states)
           state == Overall(states)
<1>1. state \in EstStates
  BY OverallTyped
<1>2. built \in {Snap(state, None, None), Snap(state, now, j)}
  BY DEF Built
<1> HIDE DEF state
<1>3. built \in Snaps /\ (built.by = None \/ (built.by = j /\ built.at = now)) /\ built.state = state
  <2>1. now \in Nat /\ j \in Jobs
    BY DEF EstTypes
  <2>2. CASE built = Snap(state, None, None)
    <3> HIDE DEF built
    <3> QED BY <1>1, <2>2 DEF Snap, Snaps
  <2>3. CASE built = Snap(state, now, j)
    <3> HIDE DEF built
    <3> QED BY <1>1, <2>1, <2>3 DEF Snap, Snaps
  <2> QED BY <1>2, <2>2, <2>3
<1> HIDE DEF built
<1>4. Sound(built) /\ built.state \in EstStates
  BY <1>1, <1>3 DEF Sound, Dated, EstTypes
<1> QED BY <1>4 DEF built

-----------------------------------------------------------------------------
(* Records.                                                                 *)

\* The record that is the latest of those in given states.
LEMMA LatestDated ==
  ASSUME EstInv, NEW states
  PROVE  Latest(states) = None \/ Dated(Latest(states))
<1> DEFINE found == {i \in DOMAIN recent : file[recent[i]].state \in states}
<1>1. CASE found = {}
  BY <1>1 DEF Latest
<1>2. CASE found # {}
  <2>1. Len(recent) \in Nat /\ DOMAIN recent = 1 .. Len(recent)
    BY DEF EstInv, EstTypes
  <2>2. Max(found) \in found
    <3>1. found \subseteq 0 .. Len(recent)
      BY <2>1
    <3> HIDE DEF found
    <3> QED BY <1>2, <2>1, <3>1, MaxIsLast
  <2>3. Dated(file[recent[Max(found)]].result)
    <3> HIDE DEF found
    <3>1. found \subseteq DOMAIN recent
      BY DEF found
    <3> QED BY <2>1, <2>2, <3>1 DEF EstInv, EstTypes, RecordsDated
  <2>4. Latest(states) = file[recent[Max(found)]].result
    BY <1>2 DEF Latest
  <2> HIDE DEF found
  <2> QED BY <2>3, <2>4
<1> QED BY <1>1, <1>2

\* Taking a job out of the order leaves jobs that were in it.
LEMMA OrderKept ==
  ASSUME NEW j \in Jobs, recent \in Seq(Jobs)
  PROVE  /\ Append(RemoveFirst(recent, j), j) \in Seq(Jobs)
         /\ \A i \in DOMAIN Append(RemoveFirst(recent, j), j) :
               \/ Append(RemoveFirst(recent, j), j)[i] = j
               \/ \E k \in DOMAIN recent : Append(RemoveFirst(recent, j), j)[i] = recent[k]
<1> DEFINE n == Len(recent)
           at == {i \in 1 .. n : recent[i] = j}
           others == RemoveFirst(recent, j)
<1>1. n \in Nat /\ DOMAIN recent = 1 .. n /\ \A i \in 1 .. n : recent[i] \in Jobs
  OBVIOUS
<1>2. others \in Seq(Jobs) /\ \A i \in DOMAIN others : \E k \in DOMAIN recent : others[i] = recent[k]
  <2>1. CASE at = {}
    <3>1. others = recent
      BY <2>1 DEF RemoveFirst
    <3> QED BY <3>1
  <2>2. CASE at # {}
    <3> DEFINE first == Min(at)
    <3>1. first \in at
      <4>1. at \subseteq Nat
        OBVIOUS
      <4> HIDE DEF at
      <4> QED BY <2>2, <4>1, FirstExists DEF Min
    <3>2. others = RemoveAt(recent, first)
      BY <2>2 DEF RemoveFirst, SelectInSeq
    <3>3. first \in 1 .. n
      BY <3>1
    <3> HIDE DEF others, first
    <3> DEFINE head == SubSeq(recent, 1, first - 1)
               tail == SubSeq(recent, first + 1, n)
    <3>4. others = head \o tail
      BY <3>2 DEF RemoveAt
    <3>5. /\ head \in Seq(Jobs) /\ Len(head) = first - 1
          /\ \A i \in 1 .. first - 1 : head[i] = recent[i]
      BY <1>1, <3>3
    <3>6. /\ tail \in Seq(Jobs) /\ Len(tail) = n - first
          /\ \A i \in 1 .. n - first : tail[i] = recent[first + i]
      <4>1. first + 1 \in 1 .. n + 1 /\ n \in first .. n
        BY <1>1, <3>3
      <4>2. /\ tail \in Seq(Jobs) /\ Len(tail) = n - (first + 1) + 1
            /\ \A i \in 1 .. n - (first + 1) + 1 : tail[i] = recent[first + 1 + i - 1]
        <5> DEFINE m == first + 1
        <5> HIDE DEF n, at
        <5>1. m \in Int /\ n \in Int /\ \A i \in m .. n : recent[i] \in Jobs
          BY <1>1, <3>3
        <5>2. IF m <= n THEN TRUE ELSE n - m + 1 = 0
          BY <1>1, <3>3
        <5> HIDE DEF m
        <5>3. /\ SubSeq(recent, m, n) \in Seq(Jobs)
              /\ Len(SubSeq(recent, m, n)) = IF m <= n THEN n - m + 1 ELSE 0
              /\ \A i \in 1 .. n - m + 1 : SubSeq(recent, m, n)[i] = recent[m + i - 1]
          BY <5>1, SubSeqProperties
        <5>4. Len(SubSeq(recent, m, n)) = n - m + 1
          BY <5>2, <5>3
        <5> QED BY <5>3, <5>4 DEF m
      <4>3. n - (first + 1) + 1 = n - first
        BY <1>1, <3>3
      <4>4. \A i \in 1 .. n - first : first + 1 + i - 1 = first + i
        BY <1>1, <3>3
      <4> HIDE DEF tail, n
      <4> QED BY <4>2, <4>3, <4>4
    <3> HIDE DEF head, tail
    <3>7. others \in Seq(Jobs) /\ DOMAIN others = 1 .. n - 1
      <4>1. others \in Seq(Jobs) /\ Len(others) = Len(head) + Len(tail)
        BY <3>4, <3>5, <3>6, ConcatProperties
      <4>2. Len(others) = n - 1
        <5> HIDE DEF n
        <5> QED BY <1>1, <3>3, <3>5, <3>6, <4>1
      <4> QED BY <4>1, <4>2
    <3>8. ASSUME NEW i \in 1 .. n - 1 PROVE \E k \in 1 .. n : others[i] = recent[k]
      <4>1. CASE i <= first - 1
        <5>1. others[i] = recent[i] /\ i \in 1 .. n
          BY <1>1, <3>3, <3>4, <3>5, <3>6, <4>1
        <5> QED BY <5>1
      <4>2. CASE i > first - 1
        <5>1. i - (first - 1) \in 1 .. n - first
          BY <1>1, <3>3, <4>2
        <5>2. others[i] = tail[i - (first - 1)]
          BY <1>1, <3>3, <3>4, <3>5, <3>6, <4>2
        <5>3. others[i] = recent[i + 1] /\ i + 1 \in 1 .. n
          BY <1>1, <3>3, <3>6, <5>1, <5>2
        <5> QED BY <5>3
      <4> QED BY <1>1, <3>3, <4>1, <4>2
    <3> QED BY <1>1, <3>7, <3>8
  <2> QED BY <2>1, <2>2
<1> HIDE DEF others
<1> QED BY <1>1, <1>2 DEF others

\* A record that is written with what is known of its values.
LEMMA PersistsKeeps ==
  ASSUME EstInv, NEW j \in Jobs, NEW state \in EstStates, NEW snap \in Snaps,
         Persists(j, state, snap)
  PROVE  /\ file' = [file EXCEPT ![j] = [state |-> state, result |-> snap]]
         /\ file' \in [Jobs -> EstRecord \cup {None}] /\ file'[j] \in EstRecord
         /\ recent' \in Seq(Jobs)
         /\ \A i \in DOMAIN recent' : recent'[i] = j \/ \E k \in DOMAIN recent : recent'[i] = recent[k]
<1> DEFINE line == [state |-> state, result |-> snap]
<1>1. line \in EstRecord
  BY DEF EstRecord
<1>2. file' = [file EXCEPT ![j] = line] /\ file \in [Jobs -> EstRecord \cup {None}]
  BY DEF Persists, EstInv, EstTypes
<1> HIDE DEF line
<1>3. file' \in [Jobs -> EstRecord \cup {None}] /\ file'[j] = line
  BY <1>1, <1>2
<1>4. recent' = Append(RemoveFirst(recent, j), j) /\ recent \in Seq(Jobs)
  BY DEF Persists, EstInv, EstTypes
<1>5. /\ recent' \in Seq(Jobs)
      /\ \A i \in DOMAIN recent' : recent'[i] = j \/ \E k \in DOMAIN recent : recent'[i] = recent[k]
  BY <1>4, OrderKept
<1> QED BY <1>1, <1>2, <1>3, <1>5 DEF line

-----------------------------------------------------------------------------
(* The steps of the estimate.                                               *)

\* A job of this process writes its record, and may go on to another step.
LEMMA RunnerStep ==
  ASSUME EstInv, NEW j \in alive, NEW state \in EstStates, NEW snap, Sound(snap),
         Persists(j, state, snap), NEW step \in Collecting \cup {"over"},
         worker' = [worker EXCEPT ![j] = step] \/ worker' = worker,
         UNCHANGED <<now, startedAt, alive, previous, pc, mem>>,
         active' \in {active, None}, \A x \in served' : Sound(x)
  PROVE  EstInv'
<1>1. j \in Jobs /\ snap \in Snaps
  BY DEF EstInv, EstTypes, Sound, Dated
<1>2. /\ file' = [file EXCEPT ![j] = [state |-> state, result |-> snap]]
      /\ file' \in [Jobs -> EstRecord \cup {None}] /\ file'[j] \in EstRecord
      /\ recent' \in Seq(Jobs)
      /\ \A i \in DOMAIN recent' : recent'[i] = j \/ \E k \in DOMAIN recent : recent'[i] = recent[k]
  BY <1>1, PersistsKeeps
<1>3. /\ file'[j].result = snap
      /\ \A i \in Jobs \ {j} : file'[i] = file[i]
  BY <1>1, <1>2 DEF EstInv, EstTypes
<1>4. \A x : (Dated(x)' <=> Dated(x)) /\ (Sound(x)' <=> Sound(x))
  BY DEF Dated, Sound
<1>5. EstTypes'
  BY <1>1, <1>2 DEF EstInv, EstTypes
<1>6. RecordsDated'
  <2>1. ASSUME NEW i \in DOMAIN recent'
        PROVE  file'[recent'[i]] \in EstRecord /\ Dated(file'[recent'[i]].result)
    <3>1. CASE recent'[i] = j
      BY <1>2, <1>3, <3>1 DEF Sound
    <3>2. CASE recent'[i] # j
      <4>1. PICK k \in DOMAIN recent : recent'[i] = recent[k]
        BY <1>2, <3>2
      <4>2. recent[k] \in Jobs /\ recent[k] # j
        BY <3>2, <4>1 DEF EstInv, EstTypes
      <4> QED BY <1>3, <4>1, <4>2 DEF EstInv, RecordsDated
    <3> QED BY <3>1, <3>2
  <2>2. \A i \in alive : file'[i] \in EstRecord /\ Sound(file'[i].result)
    BY <1>2, <1>3 DEF EstInv, EstTypes, RecordsDated
  <2>3. \A i \in Jobs : previous[i] = None \/ Dated(previous[i])
    BY DEF EstInv, RecordsDated
  <2> QED BY <1>2, <1>4, <2>1, <2>2, <2>3 DEF RecordsDated
<1>7. OfThisProcess'
  <2>1. \A i \in Jobs : worker'[i] \in Collecting => i \in alive
    BY <1>1 DEF EstInv, EstTypes, OfThisProcess
  <2>2. active' \in alive \cup {None}
    BY DEF EstInv, OfThisProcess
  <2> QED BY <1>4, <2>1, <2>2 DEF EstInv, OfThisProcess
<1> QED BY <1>5, <1>6, <1>7 DEF EstInv

\* A caller moves, and is served what is sound.
LEMMA EstCallerStep ==
  ASSUME EstInv, UNCHANGED <<now, startedAt, file, recent, worker, previous, alive>>,
         NEW c \in Callers, NEW step \in EstSteps, NEW held \in EstMemory \cup {None},
         pc' = [pc EXCEPT ![c] = step], mem' = [mem EXCEPT ![c] = held],
         step \in {"start", "register"} =>
            held \in EstMemory /\ (held.previous = None \/ Dated(held.previous)),
         step = "register" => held.job \in alive,
         active' \in alive \cup {None}, \A x \in served' : Sound(x)
  PROVE  EstInv'
<1>1. \A x : (Dated(x)' <=> Dated(x)) /\ (Sound(x)' <=> Sound(x))
  BY DEF Dated, Sound
<1>2. /\ pc' \in [Callers -> EstSteps] /\ mem' \in [Callers -> EstMemory \cup {None}]
      /\ pc'[c] = step /\ mem'[c] = held
      /\ \A d \in Callers \ {c} : pc'[d] = pc[d] /\ mem'[d] = mem[d]
  BY DEF EstInv, EstTypes
<1>3. EstTypes'
  BY <1>2 DEF EstInv, EstTypes
<1>4. RecordsDated'
  BY <1>1 DEF EstInv, RecordsDated
<1>5. OfThisProcess'
  <2>1. ASSUME NEW d \in Callers, pc'[d] \in {"start", "register"}
        PROVE  /\ mem'[d] \in EstMemory /\ (mem'[d].previous = None \/ Dated(mem'[d].previous))
               /\ pc'[d] = "register" => mem'[d].job \in alive
    <3>1. CASE d = c
      BY <1>2, <2>1, <3>1
    <3>2. CASE d # c
      BY <1>2, <2>1, <3>2 DEF EstInv, OfThisProcess
    <3> QED BY <3>1, <3>2
  <2> QED BY <1>1, <2>1 DEF EstInv, OfThisProcess
<1> QED BY <1>3, <1>4, <1>5 DEF EstInv

LEMMA CallersKeepEstimates ==
  ASSUME EstInv, NEW c \in Callers,
         ServeActive(c) \/ FindsNone(c) \/ GetLatest(c) \/ CollectLatest(c) \/ Register(c)
  PROVE  EstInv'
<1>0. /\ pc = [pc EXCEPT ![c] = pc[c]] /\ mem = [mem EXCEPT ![c] = mem[c]]
      /\ pc[c] \in EstSteps /\ mem[c] \in EstMemory \cup {None}
      /\ active \in alive \cup {None} /\ alive \subseteq Jobs
      /\ {"idle", "get_latest", "collect_latest", "collect_forced", "start", "register"}
            \subseteq EstSteps
      /\ \A x \in served : Sound(x)
  BY DEF EstInv, EstTypes, RecordsDated, OfThisProcess, EstSteps
<1>t. EstTypes
  BY DEF EstInv
<1>1. CASE ServeActive(c)
  <2>1. Dated(file[active].result)
    BY <1>0, <1>1 DEF ServeActive, EstInv, RecordsDated, Sound
  <2>2. \A x \in served' : Sound(x)
    BY <1>t, <1>1, <2>1, FreshnessSound DEF ServeActive, Serves
  <2>3. /\ UNCHANGED <<now, startedAt, file, recent, worker, previous, alive, pc, mem>>
        /\ active' \in {active, None} /\ pc[c] = "idle"
    BY <1>1 DEF ServeActive, RestIdle, Call
  <2> QED BY <1>0, <2>2, <2>3, EstCallerStep
<1>2. CASE FindsNone(c)
  <2>1. PICK step \in {"get_latest", "collect_latest", "collect_forced"} :
          pc' = [pc EXCEPT ![c] = step]
    BY <1>2 DEF FindsNone, Goes
  <2>2. UNCHANGED <<now, startedAt, file, recent, worker, previous, alive, mem, active, served>>
    BY <1>2 DEF FindsNone, RestIdle, jobVars
  <2> QED BY <1>0, <2>1, <2>2, EstCallerStep
<1>3. CASE GetLatest(c)
  <2>1. Latest(Terminal) = None \/ Dated(Latest(Terminal))
    BY LatestDated
  <2>2. Sound(Pending)
    BY DEF Sound, Dated, Pending, Snap, Snaps, EstStates
  <2>3. \A x \in served' : Sound(x)
    BY <1>t, <1>3, <2>1, <2>2, FreshnessSound DEF GetLatest, Serves
  <2>4. /\ UNCHANGED <<now, startedAt, file, recent, worker, previous, alive, active>>
        /\ pc' = [pc EXCEPT ![c] = "idle"] /\ mem' = [mem EXCEPT ![c] = None]
    BY <1>3 DEF GetLatest, RestIdle, jobVars, Leaves, Goes, Holds
  <2> QED BY <1>0, <2>3, <2>4, EstCallerStep
<1>4. CASE CollectLatest(c)
  <2> DEFINE latest == Latest(WithData)
             seen == IF latest = None THEN None ELSE Freshness(latest)
  <2>1. seen = None \/ Sound(seen)
    BY <1>t, LatestDated, FreshnessSound
  <2>2. UNCHANGED <<now, startedAt, file, recent, worker, previous, alive, active>>
    BY <1>4 DEF CollectLatest, RestIdle, jobVars
  <2>3. \/ /\ seen # None /\ Serves(seen) /\ Leaves(c)
        \/ Goes(c, "start") /\ Holds(c, [job |-> None, previous |-> seen]) /\ UNCHANGED served
    BY <1>4 DEF CollectLatest
  <2> HIDE DEF seen
  <2>4. CASE seen # None /\ Serves(seen) /\ Leaves(c)
    <3>1. \A x \in served' : Sound(x)
      BY <2>1, <2>4 DEF Serves
    <3> QED BY <1>0, <2>2, <2>4, <3>1, EstCallerStep DEF Leaves, Goes, Holds
  <2>5. CASE Goes(c, "start") /\ Holds(c, [job |-> None, previous |-> seen]) /\ UNCHANGED served
    <3> DEFINE held == [job |-> None, previous |-> seen]
    <3>1. held \in EstMemory /\ (held.previous = None \/ Dated(held.previous))
      BY <2>1 DEF EstMemory, Sound, Dated
    <3>2. pc' = [pc EXCEPT ![c] = "start"] /\ mem' = [mem EXCEPT ![c] = held]
      BY <2>5 DEF Goes, Holds
    <3> HIDE DEF held
    <3> QED BY <1>0, <2>2, <2>5, <3>1, <3>2, EstCallerStep
  <2> QED BY <2>3, <2>4, <2>5
<1>5. CASE Register(c)
  <2>1. pc[c] = "register"
    BY <1>5 DEF Register
  <2>2. /\ mem[c] \in EstMemory /\ (mem[c].previous = None \/ Dated(mem[c].previous))
        /\ mem[c].job \in alive
    BY <2>1 DEF EstInv, OfThisProcess
  <2>3. \A x \in served' : Sound(x)
    BY <1>5, <2>2, ShownSound DEF Register, Serves
  <2>4. /\ UNCHANGED <<now, startedAt, file, recent, worker, previous, alive>>
        /\ pc' = [pc EXCEPT ![c] = "idle"] /\ mem' = [mem EXCEPT ![c] = None]
        /\ active' = mem[c].job
    BY <1>5 DEF Register, RestIdle, Leaves, Goes, Holds
  <2> QED BY <1>0, <2>2, <2>3, <2>4, EstCallerStep
<1> QED BY <1>1, <1>2, <1>3, <1>4, <1>5

\* A job begins with a record that shows the earlier estimate as stale.
LEMMA StartJobKeeps ==
  ASSUME EstInv, NEW c \in Callers, StartJob(c)
  PROVE  EstInv'
<1>1. pc[c] = "start" /\ mem[c] \in EstMemory /\ (mem[c].previous = None \/ Dated(mem[c].previous))
  BY DEF StartJob, EstInv, OfThisProcess
<1> DEFINE snap == Queued(mem[c].previous)
<1>2. PICK j \in Jobs :
        /\ Persists(j, "pending", snap)
        /\ worker' = [worker EXCEPT ![j] = "queued"]
        /\ previous' = [previous EXCEPT ![j] = mem[c].previous]
        /\ alive' = alive \cup {j}
        /\ Holds(c, [mem[c] EXCEPT !.job = j])
  BY DEF StartJob
<1>3. UNCHANGED <<now, startedAt, active, served>> /\ pc' = [pc EXCEPT ![c] = "register"]
  BY DEF StartJob, RestIdle, Goes
<1>4. Sound(snap) /\ snap \in Snaps
  BY <1>1, ShownSound DEF Sound, Dated
<1> HIDE DEF snap
<1>5. /\ file' = [file EXCEPT ![j] = [state |-> "pending", result |-> snap]]
      /\ file' \in [Jobs -> EstRecord \cup {None}] /\ file'[j] \in EstRecord
      /\ recent' \in Seq(Jobs)
      /\ \A i \in DOMAIN recent' : recent'[i] = j \/ \E k \in DOMAIN recent : recent'[i] = recent[k]
  BY <1>2, <1>4, PersistsKeeps DEF EstStates
<1>6. file'[j].result = snap /\ \A i \in Jobs \ {j} : file'[i] = file[i]
  BY <1>5 DEF EstInv, EstTypes
<1>7. \A x : (Dated(x) => Dated(x)') /\ (Sound(x) => Sound(x)')
  BY <1>2, <1>3 DEF Dated, Sound
<1>8. /\ mem' \in [Callers -> EstMemory \cup {None}] /\ mem'[c] \in EstMemory
      /\ mem'[c].job = j /\ mem'[c].previous = mem[c].previous
      /\ pc' \in [Callers -> EstSteps] /\ pc'[c] = "register"
      /\ \A d \in Callers \ {c} : pc'[d] = pc[d] /\ mem'[d] = mem[d]
  <2>1. [mem[c] EXCEPT !.job = j] \in EstMemory
    BY <1>1 DEF EstMemory
  <2>2. /\ [mem[c] EXCEPT !.job = j].job = j
        /\ [mem[c] EXCEPT !.job = j].previous = mem[c].previous
    BY <1>1 DEF EstMemory
  <2> QED BY <1>2, <1>3, <2>1, <2>2 DEF EstInv, EstTypes, EstSteps, Holds
<1>9. previous' \in [Jobs -> Snaps \cup {None}]
  BY <1>1, <1>2 DEF EstInv, EstTypes, EstMemory
<1>10. EstTypes'
  BY <1>2, <1>3, <1>5, <1>8, <1>9 DEF EstInv, EstTypes, Collecting
<1>11. RecordsDated'
  <2>1. ASSUME NEW i \in DOMAIN recent'
        PROVE  file'[recent'[i]] \in EstRecord /\ Dated(file'[recent'[i]].result)
    <3>1. CASE recent'[i] = j
      BY <1>4, <1>5, <1>6, <3>1 DEF Sound
    <3>2. CASE recent'[i] # j
      <4>1. PICK k \in DOMAIN recent : recent'[i] = recent[k]
        BY <1>5, <3>2
      <4>2. recent[k] \in Jobs /\ recent[k] # j
        BY <3>2, <4>1 DEF EstInv, EstTypes
      <4> QED BY <1>6, <4>1, <4>2 DEF EstInv, RecordsDated
    <3> QED BY <3>1, <3>2
  <2>2. \A i \in alive' : file'[i] \in EstRecord /\ Sound(file'[i].result)
    <3> TAKE i \in alive'
    <3>1. CASE i = j
      BY <1>4, <1>5, <1>6, <1>7, <3>1
    <3>2. CASE i # j
      BY <1>2, <1>6, <1>7, <3>2 DEF EstInv, EstTypes, RecordsDated
    <3> QED BY <3>1, <3>2
  <2>3. \A i \in Jobs : previous'[i] = None \/ Dated(previous'[i])
    BY <1>1, <1>2, <1>7 DEF EstInv, EstTypes, RecordsDated
  <2>4. \A x \in served' : Sound(x)
    BY <1>3 DEF EstInv, RecordsDated
  <2> QED BY <1>5, <1>7, <2>1, <2>2, <2>3, <2>4 DEF RecordsDated
<1>12. OfThisProcess'
  <2>1. ASSUME NEW d \in Callers, pc'[d] \in {"start", "register"}
        PROVE  /\ mem'[d] \in EstMemory /\ (mem'[d].previous = None \/ Dated(mem'[d].previous))
               /\ pc'[d] = "register" => mem'[d].job \in alive'
    <3>1. CASE d = c
      BY <1>1, <1>2, <1>7, <1>8, <3>1
    <3>2. CASE d # c
      BY <1>2, <1>7, <1>8, <2>1, <3>2 DEF EstInv, OfThisProcess
    <3> QED BY <3>1, <3>2
  <2>2. \A i \in Jobs : worker'[i] \in Collecting => i \in alive'
    BY <1>2 DEF EstInv, EstTypes, OfThisProcess
  <2>3. active' \in alive' \cup {None}
    BY <1>2, <1>3 DEF EstInv, OfThisProcess
  <2> QED BY <1>7, <2>1, <2>2, <2>3 DEF OfThisProcess
<1> QED BY <1>10, <1>11, <1>12 DEF EstInv

\* A cancel request repeats what the record shows, whatever the job does meanwhile.
LEMMA CancelKeeps ==
  ASSUME EstInv, NEW c \in Callers, CancelEstimate(c)
  PROVE  EstInv'
<1>1. active \in alive /\ active \in Jobs
  BY DEF CancelEstimate, EstInv, EstTypes, OfThisProcess
<1>2. PICK j \in alive : j = active
  BY <1>1
<1>3. Sound(file[j].result)
  BY DEF EstInv, RecordsDated
<1>4. Persists(j, "stopping", file[j].result) /\ served' = {file[j].result}
  BY <1>2 DEF CancelEstimate, Serves
<1>5. UNCHANGED <<now, startedAt, alive, previous, pc, mem, active, worker>>
  BY DEF CancelEstimate, RestIdle
<1>6. "stopping" \in EstStates /\ "over" \in Collecting \cup {"over"}
  BY DEF EstStates
<1>7. \A x \in served' : Sound(x)
  BY <1>3, <1>4
<1> QED BY <1>3, <1>4, <1>5, <1>6, <1>7, RunnerStep

\* Whatever a runner does, its record shows what is sound.
LEMMA RunnersKeepEstimates ==
  ASSUME EstInv, NEW j \in Jobs,
         \/ Begins(j) \/ Announces(j) \/ CollectDatabase(j) \/ StorageProgress(j)
         \/ CollectStorage(j) \/ RunnerRaises(j) \/ CleansUp(j)
  PROVE  EstInv'
<1>1. /\ {"completed", "failed", "unsupported", "canceled", "partial", "running"}
           \subseteq EstStates
      /\ {"queued", "announce", "database", "completed", "failed", "unsupported", "cleanup"}
           \subseteq Collecting
  BY DEF EstStates, Collecting
<1>2. worker[j] \in Collecting /\ UNCHANGED <<now, startedAt, alive, previous, pc, mem, served>>
  BY <1>1 DEF Begins, Announces, CollectDatabase, StorageProgress, CollectStorage, RunnerRaises,
              CleansUp, RestOfJob, RestIdle, Worker, DatabaseDone
<1>3. /\ j \in alive /\ Sound(file[j].result) /\ file[j] \in EstRecord
      /\ previous[j] = None \/ Dated(previous[j])
      /\ \A x \in served' : Sound(x)
  BY <1>2 DEF EstInv, RecordsDated, OfThisProcess
<1>4. CASE Begins(j)
  BY <1>1, <1>2, <1>3, <1>4, RunnerStep DEF Begins, Worker
<1>5. CASE Announces(j)
  <2>1. Sound(Shown(previous[j]))
    BY <1>3, ShownSound
  <2> QED BY <1>1, <1>2, <1>3, <1>5, <2>1, RunnerStep DEF Announces, Worker
<1>6. CASE CollectDatabase(j)
  <2>1. PICK state \in {"completed", "failed", "unsupported"} :
          /\ worker' = [worker EXCEPT ![j] = state]
          /\ Persists(j, Built(j, {state, "running"}).state, Built(j, {state, "running"}))
    BY <1>6 DEF CollectDatabase, Worker
  <2> DEFINE snap == Built(j, {state, "running"})
  <2>2. Sound(snap) /\ snap.state \in EstStates
    BY <1>1, <1>3, BuiltSound DEF EstInv
  <2>3. active' = active
    BY <1>6 DEF CollectDatabase
  <2> HIDE DEF snap
  <2>4. Persists(j, snap.state, snap)
    BY <2>1 DEF snap
  <2> QED BY <1>1, <1>2, <1>3, <2>1, <2>2, <2>3, <2>4, RunnerStep
<1>7. CASE StorageProgress(j)
  <2> DEFINE snap == Built(j, {worker[j], "running"})
  <2>1. worker[j] \in EstStates
    BY <1>1, <1>7 DEF StorageProgress, DatabaseDone
  <2>2. Sound(snap) /\ snap.state \in EstStates
    BY <1>1, <1>3, <2>1, BuiltSound DEF EstInv
  <2>3. Persists(j, snap.state, snap) /\ UNCHANGED <<worker, active>>
    BY <1>7 DEF StorageProgress
  <2> HIDE DEF snap
  <2> QED BY <1>1, <1>2, <1>3, <2>2, <2>3, RunnerStep
<1>8. CASE CollectStorage(j)
  <2>1. PICK state \in WalkEnds(j) \cup {"unsupported"} :
          Persists(j, Built(j, {worker[j], state}).state, Built(j, {worker[j], state}))
    BY <1>8 DEF CollectStorage
  <2> DEFINE snap == Built(j, {worker[j], state})
  <2>2. worker[j] \in EstStates /\ state \in EstStates
    BY <1>1, <1>8 DEF CollectStorage, DatabaseDone, WalkEnds
  <2>3. Sound(snap) /\ snap.state \in EstStates
    BY <1>3, <2>2, BuiltSound DEF EstInv
  <2>4. Persists(j, snap.state, snap)
    BY <2>1
  <2>5. worker' = [worker EXCEPT ![j] = "cleanup"] /\ active' = active
    BY <1>8 DEF CollectStorage
  <2> HIDE DEF snap
  <2> QED BY <1>1, <1>2, <1>3, <2>3, <2>4, <2>5, RunnerStep
<1>9. CASE RunnerRaises(j)
  <2> DEFINE snap == [file[j].result EXCEPT !.state = "failed"]
  <2>1. /\ worker' = [worker EXCEPT ![j] = "cleanup"] /\ active' = active
        /\ Persists(j, "failed", snap)
    BY <1>9 DEF RunnerRaises
  <2>2. /\ snap \in Snaps /\ snap.by = file[j].result.by /\ snap.at = file[j].result.at
        /\ snap.stale = file[j].result.stale
    BY <1>1, <1>3 DEF Sound, Dated, Snaps
  <2> HIDE DEF snap
  <2>3. Sound(snap)
    BY <1>3, <2>2 DEF Sound, Dated
  <2> QED BY <1>1, <1>2, <1>3, <2>1, <2>3, RunnerStep
<1>10. CASE CleansUp(j)
  <2>1. /\ worker' = [worker EXCEPT ![j] = "over"] /\ active' \in {active, None}
        /\ UNCHANGED <<file, recent>>
    BY <1>10 DEF CleansUp, Worker
  <2>2. \A x : (Dated(x)' <=> Dated(x)) /\ (Sound(x)' <=> Sound(x))
    BY <1>2 DEF Dated, Sound
  <2>3. EstTypes'
    BY <1>2, <2>1 DEF EstInv, EstTypes
  <2>4. RecordsDated'
    BY <1>2, <2>1, <2>2 DEF EstInv, RecordsDated
  <2>5. OfThisProcess'
    <3>1. \A i \in Jobs : worker'[i] \in Collecting => i \in alive
      BY <2>1 DEF EstInv, EstTypes, OfThisProcess, Collecting
    <3> QED BY <1>2, <2>1, <2>2, <3>1 DEF EstInv, OfThisProcess
  <2> QED BY <2>3, <2>4, <2>5 DEF EstInv
<1> QED BY <1>4, <1>5, <1>6, <1>7, <1>8, <1>9, <1>10

\* Time passes; what is dated stays so.
LEMMA TickKeeps ==
  ASSUME EstInv, Tick
  PROVE  EstInv'
<1>1. /\ now' = now + 1 /\ now \in Nat /\ startedAt \in 0 .. now
      /\ UNCHANGED <<startedAt, pc, mem, file, recent, active, worker, previous, alive, served>>
  BY DEF Tick, journalVars, jobVars, EstInv, EstTypes
<1>2. \A x : (Dated(x) => Dated(x)') /\ (Sound(x) => Sound(x)')
  BY <1>1 DEF Dated, Sound
<1>3. EstTypes'
  BY <1>1 DEF EstInv, EstTypes
<1>4. RecordsDated'
  BY <1>1, <1>2 DEF EstInv, RecordsDated
<1>5. OfThisProcess'
  BY <1>1, <1>2 DEF EstInv, OfThisProcess
<1> QED BY <1>3, <1>4, <1>5 DEF EstInv

\* After a restart all values that are kept are older than the process.
LEMMA RestartKeeps ==
  ASSUME EstInv, EstCrash
  PROVE  EstInv'
<1>1. /\ now' = now + 1 /\ startedAt' = now' /\ now \in Nat
      /\ UNCHANGED <<file, recent>>
      /\ active' = None /\ served' = {} /\ alive' = {}
      /\ worker' = [j \in Jobs |-> IF file[j] = None THEN "none" ELSE "dead"]
      /\ previous' = [j \in Jobs |-> None]
      /\ pc' = [c \in Callers |-> "idle"] /\ mem' = [c \in Callers |-> None]
  BY DEF EstCrash, JournalCrash, EstInv, EstTypes
<1>2. \A x : Dated(x) => Dated(x)'
  BY <1>1 DEF Dated
<1>3. EstTypes'
  BY <1>1 DEF EstInv, EstTypes, EstSteps
<1>4. RecordsDated'
  BY <1>1, <1>2 DEF EstInv, RecordsDated
<1>5. OfThisProcess'
  BY <1>1 DEF OfThisProcess, Collecting
<1> QED BY <1>3, <1>4, <1>5 DEF EstInv

LEMMA EstInvStep ==
  ASSUME EstInv, [EstNext]_<<journalVars, estVars>>
  PROVE  EstInv'
<1>1. CASE UNCHANGED <<journalVars, estVars>>
  <2>1. UNCHANGED <<now, startedAt, pc, mem, file, recent, active, worker, previous, alive, served>>
    BY <1>1 DEF journalVars, estVars, jobVars
  <2>2. \A x : (Dated(x)' <=> Dated(x)) /\ (Sound(x)' <=> Sound(x))
    BY <2>1 DEF Dated, Sound
  <2> QED BY <2>1, <2>2 DEF EstInv, EstTypes, RecordsDated, OfThisProcess
<1> QED BY <1>1, CallersKeepEstimates, StartJobKeeps, CancelKeeps, RunnersKeepEstimates,
           TickKeeps, RestartKeeps DEF EstNext

\* Every reachable state of the estimate's records, runner and requests satisfies the
\* inductive invariant (BackupSizeEstimationService).
THEOREM EstSpecInv == EstSpec => []EstInv
<1>1. JournalInit /\ EstInit => EstInv
  <2> SUFFICES ASSUME JournalInit, EstInit PROVE EstInv
    OBVIOUS
  <2>1. recent \in Seq(Jobs) /\ DOMAIN recent = {}
    BY DEF EstInit
  <2>2. EstTypes
    BY <2>1 DEF JournalInit, EstInit, EstTypes, EstSteps
  <2>3. RecordsDated
    BY <2>1 DEF EstInit, RecordsDated
  <2>4. OfThisProcess
    BY DEF JournalInit, EstInit, OfThisProcess, Collecting
  <2> QED BY <2>2, <2>3, <2>4 DEF EstInv
<1>2. EstInv /\ [EstNext]_<<journalVars, estVars>> => EstInv'
  BY EstInvStep
<1> QED BY <1>1, <1>2, PTL DEF EstSpec

\* Values from before the restart are never served as fresh, whichever record they come
\* from and however often they were carried over into another job's snapshot
\* (apply_freshness, mark_stale, queued_snapshot).
THEOREM FreshIsRecent == EstSpec => []FreshIsOfThisRuntime
<1>1. EstInv => FreshIsOfThisRuntime
  BY DEF EstInv, RecordsDated, Sound, Dated, FreshIsOfThisRuntime
<1> QED BY <1>1, EstSpecInv, PTL

-----------------------------------------------------------------------------
(* The catalog workflow: jobs, sessions and reports.                        *)

WfStatus == {"running", "paused", "stopped", "failed", "completed"}
Job == [at : {"queued", "next", "select", "walk", "work"}, full : BOOLEAN,
        todo : SUBSET Roots, session : Sessions \cup {Nothing},
        worst : {"completed", "partial"}, pause : BOOLEAN, stop : BOOLEAN, halted : BOOLEAN,
        made : SUBSET Sessions, skipped : SUBSET Roots, given : SUBSET Roots]
JobEnd == [state : {"completed", "partial", "failed", "stopped", "paused"}, full : BOOLEAN,
           given : SUBSET Roots, made : SUBSET Sessions, skipped : SUBSET Roots,
           halted : BOOLEAN]

WfTypes ==
    /\ layout \in Layouts
    /\ rows \in [Roots -> Places \cup {Nothing}]
    /\ session \in [Sessions -> SessionRows \cup {Nothing}]
    /\ scan = Nothing \/ scan \in Job
    /\ latestScan = Nothing \/ latestScan \in JobEnd

\* The sessions are numbered without gaps; a session is committed when it is
\* completed, and only a committed one is fresh.
SessionsSound ==
    /\ Used = 1 .. Cardinality(Used)
    /\ \A s \in Used : session[s].committed <=> session[s].status = "completed"
    /\ \A s \in fresh : s \in Used /\ session[s].committed

\* A job that took up a session, or is inside a root, has a running session; a full
\* job inside a root has roots to do.
JobSound ==
    scan # Nothing =>
        /\ ~scan.full \/ scan.at \in {"walk", "work"} =>
              scan.session \in Used /\ session[scan.session].status = "running"
        /\ scan.full /\ scan.at \notin {"queued", "next"} => scan.todo # {}

WfInv == WfTypes /\ SessionsSound /\ JobSound

\* No open session is newer than a running one, and none runs while a full job is
\* between two roots.
RunningIsLast ==
    /\ \A s \in Used : session[s].status = "running" => \A t \in Open : t <= s
    /\ scan # Nothing /\ scan.full /\ scan.at \notin {"walk", "work"} =>
          \A s \in Used : session[s].status # "running"

\* A session that is open or fresh was scanned where its root is now, or its root
\* moved while it was open; a committed one left nothing unless it was starved.
ScannedInPlace ==
    /\ \A s \in (Open \cup fresh) \ moved : session[s].through \subseteq {rows[session[s].root]}
    /\ \A s \in Used : session[s].committed => session[s].left = 0 \/ s \in starved

\* A full job accounts for every root it was given: it is to be done, was skipped, or
\* its session is committed and whole, unless the workers were stopped.
JobAccounts ==
    scan # Nothing /\ scan.full =>
        /\ scan.given = scan.todo \cup scan.skipped \cup {session[s].root : s \in scan.made}
        /\ \A s \in scan.made :
              /\ s \in Used /\ session[s].committed
              /\ session[s].left = 0 \/ scan.halted
              /\ scan.worst = "completed" => ~session[s].errors
        /\ scan.worst = "completed" => scan.skipped = {}
        /\ scan.at \in {"walk", "work"} => session[scan.session].root = FirstOf(scan.todo)

\* So does the last one that ended.
EndAccounts ==
    latestScan # Nothing /\ latestScan.full /\ latestScan.state \in {"completed", "partial"} =>
        /\ latestScan.given = latestScan.skipped \cup {session[s].root : s \in latestScan.made}
        /\ \A s \in latestScan.made :
              /\ s \in Used /\ session[s].committed
              /\ session[s].left = 0 \/ latestScan.halted
              /\ latestScan.state = "completed" => ~session[s].errors
        /\ latestScan.state = "completed" => latestScan.skipped = {}

-----------------------------------------------------------------------------
(* Roots, open sessions and rewritten rows.                                 *)

\* The first of some roots is one of them.
LEMMA FirstOfRoots ==
  ASSUME NEW roots, roots \subseteq Roots, roots # {}
  PROVE  FirstOf(roots) \in roots
<1> DEFINE S == {i \in DOMAIN RootOrder : RootOrder[i] \in roots}
<1>1. S \subseteq Nat /\ S # {}
  <2>1. DOMAIN RootOrder = 1 .. Len(RootOrder) /\ Len(RootOrder) \in Nat
    BY WorkflowAssumption
  <2>2. Roots = {RootOrder[i] : i \in DOMAIN RootOrder}
    BY DEF Roots, ToSet
  <2> QED BY <2>1, <2>2
<1>2. \E i \in S : \A j \in S : i <= j
  <2> HIDE DEF S
  <2> QED BY <1>1, FirstExists
<1>3. Min(S) \in S
  <2> HIDE DEF S
  <2> QED BY <1>2 DEF Min
<1> QED BY <1>3 DEF FirstOf

\* The latest open session is open, and no open session is newer.
LEMMA LatestOpenIsLast ==
  ASSUME Open # {}
  PROVE  LatestOpen \in Open /\ LatestOpen # Nothing /\ \A t \in Open : t <= LatestOpen
<1>1. MaxSessions \in Nat /\ Open \subseteq 0 .. MaxSessions
  BY WorkflowAssumption DEF Open, Used, Sessions
<1>2. Max(Open) \in Open /\ \A t \in Open : Max(Open) >= t
  BY <1>1, MaxIsLast
<1>3. LatestOpen = Max(Open)
  BY DEF LatestOpen
<1>4. Open \subseteq Nat
  BY WorkflowAssumption DEF Open, Used, Sessions
<1> QED BY <1>1, <1>2, <1>3, <1>4, NothingAssumption

\* A step rewrites the row of an open session, or adds that of a new one.
Rewrites(s, row) ==
    /\ s \in Sessions /\ row \in SessionRows
    /\ session' = [session EXCEPT ![s] = row]
    /\ \/ s \in Open /\ row.root = session[s].root
       \/ s = Cardinality(Used) + 1

\* The number of a new session is not used.
LEMMA NewIsUnused ==
  ASSUME WfInv
  PROVE  /\ Cardinality(Used) \in Nat /\ Used = 1 .. Cardinality(Used)
         /\ Cardinality(Used) + 1 \notin Used
<1>1. IsFiniteSet(1 .. MaxSessions)
  BY WorkflowAssumption, FS_Interval
<1>2. IsFiniteSet(Used)
  BY <1>1, FS_Subset DEF Used, Sessions
<1>3. Cardinality(Used) \in Nat
  BY <1>2, FS_CardinalityType
<1> QED BY <1>3 DEF WfInv, SessionsSound

\* Then the other sessions are as before, and so is every committed one.
LEMMA RowRewritten ==
  ASSUME WfInv, NEW s, NEW row, Rewrites(s, row)
  PROVE  /\ session' \in [Sessions -> SessionRows \cup {Nothing}]
         /\ Used' = Used \cup {s} /\ Used' = 1 .. Cardinality(Used')
         /\ session'[s] = row
         /\ \A t \in Sessions : t # s => session'[t] = session[t]
         /\ \A t \in Used : session[t].committed => t # s
         /\ s \notin Open => s \notin Used /\ \A t \in Used : t <= s
<1>1. session \in [Sessions -> SessionRows \cup {Nothing}]
  BY DEF WfInv, WfTypes
<1>2. /\ session' \in [Sessions -> SessionRows \cup {Nothing}]
      /\ session'[s] = row /\ \A t \in Sessions : t # s => session'[t] = session[t]
  BY <1>1 DEF Rewrites
<1>3. Used' = Used \cup {s}
  BY <1>2, NothingAssumption DEF Rewrites, Used
<1> DEFINE k == Cardinality(Used)
<1>4. k \in Nat /\ Used = 1 .. k
  BY NewIsUnused
<1>5. CASE s \in Open
  <2>1. Used' = Used
    BY <1>3, <1>5 DEF Open
  <2>2. \A t \in Used : session[t].committed => t # s
    BY <1>5 DEF WfInv, SessionsSound, Open
  <2> QED BY <1>2, <1>3, <1>4, <1>5, <2>1, <2>2
<1>6. CASE s \notin Open
  <2>1. s = k + 1
    BY <1>6 DEF Rewrites
  <2>2. s \notin Used /\ \A t \in Used : t <= s
    BY <1>4, <2>1
  <2>3. Used' = 1 .. k + 1
    BY <1>3, <1>4, <2>1
  <2>4. Cardinality(1 .. k + 1) = k + 1
    <3>1. k + 1 \in Nat /\ 1 <= k + 1
      BY <1>4
    <3>2. Cardinality(1 .. k + 1) = (k + 1) - 1 + 1
      BY <3>1, FS_Interval
    <3> QED BY <3>1, <3>2
  <2> QED BY <1>2, <1>3, <1>6, <2>2, <2>3, <2>4
<1> QED BY <1>5, <1>6

\* Rows stay typed and numbered, and a committed one stays a completed one.
LEMMA RowsSound ==
  ASSUME WfInv, NEW s, NEW row, Rewrites(s, row),
         row.committed <=> row.status = "completed",
         \A t \in fresh' : t \in fresh \/ (t = s /\ row.committed)
  PROVE  session' \in [Sessions -> SessionRows \cup {Nothing}] /\ SessionsSound'
<1>1. /\ session' \in [Sessions -> SessionRows \cup {Nothing}]
      /\ Used' = Used \cup {s} /\ Used' = 1 .. Cardinality(Used')
      /\ session'[s] = row
      /\ \A t \in Sessions : t # s => session'[t] = session[t]
      /\ \A t \in Used : session[t].committed => t # s
  BY RowRewritten
<1>2. ASSUME NEW t \in Used'
      PROVE  session'[t].committed <=> session'[t].status = "completed"
  <2>1. CASE t = s
    BY <1>1, <2>1
  <2>2. CASE t # s
    BY <1>1, <1>2, <2>2 DEF WfInv, SessionsSound, Used
  <2> QED BY <2>1, <2>2
<1>3. ASSUME NEW t \in fresh' PROVE t \in Used' /\ session'[t].committed
  <2>1. CASE t \in fresh
    <3>1. t \in Used /\ session[t].committed
      BY <2>1 DEF WfInv, SessionsSound
    <3> QED BY <1>1, <3>1 DEF Used
  <2>2. CASE t = s /\ row.committed
    BY <1>1, <2>2
  <2> QED BY <1>3, <2>1, <2>2
<1> QED BY <1>1, <1>2, <1>3 DEF SessionsSound

\* So do they when no row is rewritten.
LEMMA RowsUnchanged ==
  ASSUME WfInv, session' = session, fresh' \subseteq fresh
  PROVE  session' \in [Sessions -> SessionRows \cup {Nothing}] /\ SessionsSound' /\ Used' = Used
BY DEF WfInv, WfTypes, SessionsSound, Used

\* Synchronising the roots keeps a root that is not touched where it is.
LEMMA SyncSound ==
  ASSUME WfTypes, Sync
  PROVE  /\ rows' \in [Roots -> Places \cup {Nothing}] /\ fresh' \subseteq fresh
         /\ \A r \in Roots \ Touched : rows'[r] = rows[r]
         /\ \A s \in Open : session[s].root \in Touched => s \in moved'
         /\ \A s \in fresh' : session[s].root \notin Touched
         /\ moved \subseteq moved'
<1>1. layout \in [Roots -> Places \cup {Nothing}]
  BY WorkflowAssumption DEF WfTypes
<1> QED BY <1>1 DEF WfTypes, Sync, SyncedRows, Fresh, Touched, Configured

-----------------------------------------------------------------------------
(* What the operations write.                                               *)

\* The job that takes up an open session.
LEMMA ResumedJob ==
  ASSUME WfTypes, NEW s \in Open
  PROVE  /\ Resumed(s) \in Job /\ ~Resumed(s).full
         /\ Resumed(s).session = s /\ Resumed(s).at = "queued"
<1>1. session[s].root \in Roots /\ s \in Sessions
  BY DEF WfTypes, Open, Used, SessionRows
<1> QED BY <1>1 DEF Resumed, ScanJob, Job

\* The job over the roots that are scanned.
LEMMA FullJob ==
  /\ FullScan \in Job /\ FullScan.full /\ FullScan.at = "queued"
  /\ FullScan.given = FullScan.todo /\ FullScan.made = {} /\ FullScan.skipped = {}
BY DEF FullScan, ScanJob, Job, Scanned, Configured

\* The row of an open session with another status.
LEMMA OpenRow ==
  ASSUME WfInv, NEW s \in Open, NEW st \in WfStatus
  PROVE  /\ s \in Used /\ s \in Sessions /\ session[s] \in SessionRows
         /\ ~session[s].committed
         /\ [session[s] EXCEPT !.status = st] \in SessionRows
         /\ WithStatus(s, st) = [session EXCEPT ![s] = [session[s] EXCEPT !.status = st]]
         /\ session[s].status \in {"running", "paused", "stopped"}
<1>1. s \in Used /\ s \in Sessions /\ session[s] \in SessionRows
      /\ session[s].status \in {"running", "paused", "stopped"}
  BY DEF WfInv, WfTypes, Open, Used
<1>2. ~session[s].committed
  BY <1>1 DEF WfInv, SessionsSound, SessionRows
<1>3. [session[s] EXCEPT !.status = st] \in SessionRows
  BY <1>1 DEF SessionRows, WfStatus
<1> QED BY <1>1, <1>2, <1>3 DEF WithStatus

\* Recovery takes up the latest open session, which is running.
LEMMA RecoverWrites ==
  ASSUME WfInv, Recover
  PROVE  /\ LatestOpen \in Open /\ session[LatestOpen].status = "running"
         /\ scan' = Resumed(LatestOpen) /\ session' = session
BY LatestOpenIsLast DEF Recover, Recoverable, LatestOpen

\* Or it fails that session.
FailedRow(s) == [session[s] EXCEPT !.status = "failed", !.committed = FALSE]
LEMMA RetireWrites ==
  ASSUME WfInv, Retire
  PROVE  /\ Rewrites(LatestOpen, FailedRow(LatestOpen))
         /\ LatestOpen \in Open /\ session[LatestOpen].status = "running"
         /\ FailedRow(LatestOpen).status = "failed" /\ ~FailedRow(LatestOpen).committed
<1> DEFINE s == LatestOpen
<1>1. s \in Open /\ session[s].status = "running"
  BY LatestOpenIsLast DEF Retire, Recoverable, LatestOpen
<1>2. session[s] \in SessionRows /\ s \in Sessions
  BY <1>1, OpenRow DEF WfStatus
<1>3. /\ FailedRow(s) \in SessionRows /\ FailedRow(s).root = session[s].root
      /\ FailedRow(s).status = "failed" /\ ~FailedRow(s).committed
  BY <1>2 DEF FailedRow, SessionRows
<1>4. session' = [session EXCEPT ![s] = FailedRow(s)]
  BY DEF Retire, Failed, FailedRow
<1> HIDE DEF s
<1> QED BY <1>1, <1>2, <1>3, <1>4 DEF Rewrites, s

\* A stopped or paused session runs again, and there was no running one.
RunningRow(s) == [session[s] EXCEPT !.status = "running"]
LEMMA ResumeWrites ==
  ASSUME WfInv, ResumeScan
  PROVE  /\ Rewrites(LatestOpen, RunningRow(LatestOpen))
         /\ LatestOpen \in Open /\ RunningRow(LatestOpen).status = "running"
         /\ ~RunningRow(LatestOpen).committed
         /\ RunningRow(LatestOpen).through = session[LatestOpen].through
         /\ scan' = Resumed(LatestOpen)
<1> DEFINE s == LatestOpen
<1>1. s \in Open
  BY LatestOpenIsLast DEF ResumeScan, LatestOpen
<1>2. /\ session[s] \in SessionRows /\ s \in Sessions /\ ~session[s].committed
      /\ RunningRow(s) \in SessionRows
      /\ WithStatus(s, "running") = [session EXCEPT ![s] = RunningRow(s)]
  BY <1>1, OpenRow DEF WfStatus, RunningRow
<1>3. /\ RunningRow(s).root = session[s].root /\ RunningRow(s).status = "running"
      /\ ~RunningRow(s).committed /\ RunningRow(s).through = session[s].through
  BY <1>2 DEF RunningRow, SessionRows
<1>4. session' = WithStatus(s, "running") /\ scan' = Resumed(s)
  BY DEF ResumeScan
<1> HIDE DEF s
<1> QED BY <1>1, <1>2, <1>3, <1>4 DEF Rewrites, s

\* What a job inside a root works on: an open session.
LEMMA SessionInHand ==
  ASSUME WfInv, scan # Nothing, ~scan.full \/ scan.at \in {"walk", "work"}
  PROVE  /\ scan \in Job /\ scan.session \in Open /\ scan.session \in Sessions
         /\ session[scan.session] \in SessionRows
         /\ session[scan.session].status = "running" /\ ~session[scan.session].committed
<1>1. scan \in Job /\ scan.session \in Used /\ session[scan.session].status = "running"
  BY DEF WfInv, WfTypes, JobSound
<1>2. scan.session \in Open
  BY <1>1 DEF Open
<1> QED BY <1>1, <1>2, OpenRow DEF WfStatus

\* A root is begun with a new session, or goes on with the one that was taken up; a
\* root that cannot be read fails it.
SelectedRow(s, status) ==
    IF scan.full THEN [NewSession(FirstOf(scan.todo)) EXCEPT !.status = status]
    ELSE [session[s] EXCEPT !.status = status]
LEMMA SelectWrites ==
  ASSUME WfInv, SelectSession
  PROVE  \E s \in Sessions, status \in {"running", "failed"} :
            LET row == SelectedRow(s, status) IN
            /\ Rewrites(s, row) /\ row.status = status /\ ~row.committed
            /\ IF scan.full
               THEN s \notin Open /\ row.through = {} /\ row.root = FirstOf(scan.todo)
               ELSE s \in Open /\ s = scan.session /\ row.through = session[s].through
            /\ \/ status = "failed" /\ EndsScan("failed")
               \/ /\ status = "running" /\ UNCHANGED latestScan
                  /\ scan' = [scan EXCEPT !.at = "walk", !.session = s]
<1> DEFINE Opened(s) == IF scan.full THEN [session EXCEPT ![s] = NewSession(FirstOf(scan.todo))]
                        ELSE WithStatus(s, "running")
<1>1. /\ scan # Nothing /\ scan.at = "select" /\ scan \in Job
      /\ session \in [Sessions -> SessionRows \cup {Nothing}]
  BY DEF SelectSession, At, WfInv, WfTypes
<1>2. PICK s \in Sessions :
        /\ IF scan.full THEN s = Cardinality(Used) + 1 ELSE s = scan.session
        /\ \/ /\ session' = Opened(s)
              /\ scan' = [scan EXCEPT !.at = "walk", !.session = s]
              /\ UNCHANGED latestScan
           \/ /\ session' = [Opened(s) EXCEPT ![s].status = "failed", ![s].committed = FALSE]
              /\ EndsScan("failed")
  BY DEF SelectSession
<1>3. PICK status \in {"running", "failed"} :
        /\ session' = IF status = "running" THEN Opened(s)
                      ELSE [Opened(s) EXCEPT ![s].status = "failed", ![s].committed = FALSE]
        /\ \/ status = "failed" /\ EndsScan("failed")
           \/ /\ status = "running" /\ UNCHANGED latestScan
              /\ scan' = [scan EXCEPT !.at = "walk", !.session = s]
  <2>1. CASE session' = Opened(s) /\ scan' = [scan EXCEPT !.at = "walk", !.session = s]
             /\ UNCHANGED latestScan
    <3> HIDE DEF Opened
    <3> WITNESS "running" \in {"running", "failed"}
    <3> QED BY <2>1
  <2>2. CASE /\ session' = [Opened(s) EXCEPT ![s].status = "failed", ![s].committed = FALSE]
             /\ EndsScan("failed")
    <3> HIDE DEF Opened
    <3> WITNESS "failed" \in {"running", "failed"}
    <3> QED BY <2>2
  <2> HIDE DEF Opened
  <2> QED BY <1>2, <2>1, <2>2
<1> DEFINE row == SelectedRow(s, status)
<1>4. CASE scan.full
  <2>1. FirstOf(scan.todo) \in Roots
    BY <1>1, <1>4, FirstOfRoots DEF WfInv, JobSound, Job
  <2> DEFINE new == NewSession(FirstOf(scan.todo))
  <2>2. /\ new \in SessionRows /\ new.status = "running" /\ ~new.committed
        /\ new.through = {} /\ new.root = FirstOf(scan.todo)
    BY <2>1, WorkflowAssumption DEF NewSession, SessionRows
  <2>3. row = [new EXCEPT !.status = status]
    BY <1>4 DEF SelectedRow
  <2>4. Opened(s) = [session EXCEPT ![s] = new]
    BY <1>4
  <2> HIDE DEF new, row, Opened
  <2>5. /\ row \in SessionRows /\ row.status = status /\ ~row.committed
        /\ row.through = {} /\ row.root = FirstOf(scan.todo)
    BY <2>2, <2>3 DEF SessionRows
  <2>6. session' = [session EXCEPT ![s] = row]
    <3>1. CASE status = "running"
      <4>1. row = new
        BY <2>2, <2>3, <3>1 DEF SessionRows
      <4> QED BY <1>3, <2>4, <3>1, <4>1
    <3>2. CASE status = "failed"
      <4>1. row = [new EXCEPT !.status = "failed", !.committed = FALSE]
        BY <2>2, <2>3, <3>2 DEF SessionRows
      <4> QED BY <1>1, <1>3, <2>4, <3>2, <4>1
    <3> QED BY <3>1, <3>2
  <2>7. Rewrites(s, row)
    BY <1>2, <1>4, <2>5, <2>6 DEF Rewrites
  <2>8. s \notin Open
    BY <2>7, RowRewritten, <1>2, <1>4, NewIsUnused DEF Open
  <2> QED BY <1>3, <1>4, <2>5, <2>7, <2>8 DEF row
<1>5. CASE ~scan.full
  <2>1. s = scan.session /\ s \in Open /\ session[s] \in SessionRows
        /\ session[s].status = "running" /\ ~session[s].committed
    BY <1>1, <1>2, <1>5, SessionInHand
  <2>2. Opened(s) = session
    BY <1>1, <1>5, <2>1 DEF WithStatus, SessionRows
  <2>3. row = [session[s] EXCEPT !.status = status]
    BY <1>5 DEF SelectedRow
  <2> HIDE DEF row, Opened
  <2>4. /\ row \in SessionRows /\ row.status = status /\ ~row.committed
        /\ row.through = session[s].through /\ row.root = session[s].root
    BY <2>1, <2>3 DEF SessionRows
  <2>5. session' = [session EXCEPT ![s] = row]
    <3>1. CASE status = "running"
      <4>1. row = session[s]
        BY <2>1, <2>3, <3>1 DEF SessionRows
      <4> QED BY <1>1, <1>3, <2>2, <3>1, <4>1
    <3>2. CASE status = "failed"
      <4>1. row = [session[s] EXCEPT !.status = "failed", !.committed = FALSE]
        BY <2>1, <2>3, <3>2 DEF SessionRows
      <4> QED BY <1>1, <1>3, <2>2, <3>2, <4>1
    <3> QED BY <3>1, <3>2
  <2>6. Rewrites(s, row)
    BY <1>2, <2>1, <2>4, <2>5 DEF Rewrites
  <2> QED BY <1>3, <1>5, <2>1, <2>4, <2>6 DEF row
<1> QED BY <1>4, <1>5

\* The walk says what is left to scan.
LeftRow(s, left) == [session[s] EXCEPT !.left = left]
LEMMA WalkWrites ==
  ASSUME WfInv, Walk
  PROVE  \E left \in 0 .. Units :
            LET row == LeftRow(scan.session, left) IN
            /\ Rewrites(scan.session, row) /\ row.status = "running" /\ ~row.committed
            /\ row.through = session[scan.session].through
            /\ scan.session \in Open
<1> DEFINE s == scan.session
<1>1. /\ scan # Nothing /\ s \in Open /\ s \in Sessions /\ session[s] \in SessionRows
      /\ session[s].status = "running" /\ ~session[s].committed
  BY SessionInHand DEF Walk, At
<1>2. PICK left \in 0 .. Units : session' = [session EXCEPT ![s].left = left]
  <2>1. session[s].left \in 0 .. Units /\ Units \in Nat
    BY <1>1, WorkflowAssumption DEF SessionRows
  <2>2. PICK left \in IF session[s].through \subseteq {rows[session[s].root]}
                      THEN {session[s].left} ELSE session[s].left .. Units :
                session' = [session EXCEPT ![s].left = left]
    BY DEF Walk, ThisSession
  <2>3. left \in 0 .. Units
    BY <2>1, <2>2
  <2> QED BY <2>2, <2>3
<1> DEFINE row == LeftRow(s, left)
<1>3. /\ row \in SessionRows /\ row.status = "running" /\ ~row.committed
      /\ row.root = session[s].root /\ row.through = session[s].through
  BY <1>1 DEF LeftRow, SessionRows
<1>4. session' = [session EXCEPT ![s] = row]
  BY <1>2 DEF LeftRow
<1> HIDE DEF s, row
<1>5. Rewrites(s, row)
  BY <1>1, <1>3, <1>4 DEF Rewrites
<1> QED BY <1>1, <1>3, <1>5 DEF s, row

\* A directory is scanned at the place the root has now.
ScannedRow(s, failing) ==
    [session[s] EXCEPT !.left = @ - 1, !.through = @ \cup {rows[session[s].root]},
                       !.errors = @ \/ failing]
LEMMA WorkWrites ==
  ASSUME WfInv, Work
  PROVE  \E failing \in BOOLEAN :
            LET row == ScannedRow(scan.session, failing) IN
            /\ Rewrites(scan.session, row) /\ row.status = "running" /\ ~row.committed
            /\ row.through = session[scan.session].through \cup {rows[session[scan.session].root]}
            /\ scan.session \in Open
<1> DEFINE s == scan.session
<1>1. /\ scan # Nothing /\ s \in Open /\ s \in Sessions /\ session[s] \in SessionRows
      /\ session[s].status = "running" /\ ~session[s].committed
  BY SessionInHand DEF Work, At
<1>2. PICK failing \in BOOLEAN :
        session' = [session EXCEPT ![s].left = @ - 1,
                                   ![s].through = @ \cup {rows[session[s].root]},
                                   ![s].errors = @ \/ failing]
  BY DEF Work, ThisSession
<1> DEFINE row == ScannedRow(s, failing)
<1>3. /\ row \in SessionRows /\ row.status = "running" /\ ~row.committed
      /\ row.root = session[s].root
      /\ row.through = session[s].through \cup {rows[session[s].root]}
  <2>1. session[s].left - 1 \in 0 .. Units
    BY <1>1, WorkflowAssumption DEF Work, ThisSession, SessionRows
  <2>2. session[s].root \in Roots /\ rows[session[s].root] \in Places \cup {Nothing}
    BY <1>1 DEF WfInv, WfTypes, SessionRows
  <2>3. session[s].through \cup {rows[session[s].root]} \in SUBSET (Places \cup {Nothing})
    BY <1>1, <2>2 DEF SessionRows
  <2>4. (session[s].errors \/ failing) \in BOOLEAN
    OBVIOUS
  <2> QED BY <1>1, <2>1, <2>3, <2>4 DEF ScannedRow, SessionRows
<1>4. session' = [session EXCEPT ![s] = row]
  <2>1. session \in [Sessions -> SessionRows \cup {Nothing}]
    BY DEF WfInv, WfTypes
  <2> HIDE DEF s
  <2> QED BY <1>1, <1>2, <2>1 DEF ScannedRow
<1> HIDE DEF s, row
<1>5. Rewrites(s, row)
  BY <1>1, <1>3, <1>4 DEF Rewrites
<1> QED BY <1>1, <1>3, <1>5 DEF s, row

\* A request is met: the session is left open, and the job ends.
StatusRow(s, status) == [session[s] EXCEPT !.status = status]
LEMMA InterruptWrites ==
  ASSUME WfInv, InterruptScan
  PROVE  \E status \in {"stopped", "paused"} :
            LET row == StatusRow(scan.session, status) IN
            /\ Rewrites(scan.session, row) /\ row.status = status /\ ~row.committed
            /\ row.through = session[scan.session].through
            /\ scan.session \in Open /\ EndsScan(status)
<1> DEFINE s == scan.session
<1>1. /\ scan # Nothing /\ s \in Open /\ s \in Sessions /\ session[s] \in SessionRows
      /\ ~session[s].committed
  BY SessionInHand DEF InterruptScan, At
<1>2. PICK status \in {"stopped", "paused"} : session' = WithStatus(s, status) /\ EndsScan(status)
  BY DEF InterruptScan
<1> DEFINE row == StatusRow(s, status)
<1>3. /\ row \in SessionRows /\ row.status = status /\ ~row.committed
      /\ row.root = session[s].root /\ row.through = session[s].through
  BY <1>1 DEF StatusRow, SessionRows
<1>4. session' = [session EXCEPT ![s] = row]
  BY <1>2 DEF WithStatus, StatusRow
<1> HIDE DEF s, row
<1>5. Rewrites(s, row)
  BY <1>1, <1>3, <1>4 DEF Rewrites
<1> QED BY <1>1, <1>2, <1>3, <1>5 DEF s, row

\* The snapshot of the session is committed.
CommittedRow(s) == [session[s] EXCEPT !.status = "completed", !.committed = TRUE]
LEMMA CommitWrites ==
  ASSUME WfInv, CommitRoot
  PROVE  LET s == scan.session
             row == CommittedRow(s) IN
         /\ Rewrites(s, row) /\ row.status = "completed" /\ row.committed
         /\ row.through = session[s].through /\ row.left = session[s].left
         /\ row.errors = session[s].errors
         /\ s \in Open
<1> DEFINE s == scan.session
           row == CommittedRow(s)
<1>1. /\ scan # Nothing /\ s \in Open /\ s \in Sessions /\ session[s] \in SessionRows
  BY SessionInHand DEF CommitRoot, At
<1>2. /\ row \in SessionRows /\ row.status = "completed" /\ row.committed
      /\ row.root = session[s].root /\ row.through = session[s].through
      /\ row.left = session[s].left /\ row.errors = session[s].errors
  BY <1>1 DEF CommittedRow, SessionRows
<1>3. session' = [session EXCEPT ![s] = row]
  BY DEF CommitRoot, CommittedRow
<1> HIDE DEF s, row
<1>4. Rewrites(s, row)
  BY <1>1, <1>2, <1>3 DEF Rewrites
<1> QED BY <1>1, <1>2, <1>4 DEF s, row

\* A job that ends leaves its account.
LEMMA EndsWrites ==
  ASSUME WfInv, scan # Nothing, NEW state \in {"completed", "partial", "failed", "stopped", "paused"},
         EndsScan(state)
  PROVE  scan' = Nothing /\ latestScan' \in JobEnd
BY DEF WfInv, WfTypes, EndsScan, Job, JobEnd

\* After a root a full job has one root less to do; a resumed job ends.
LEMMA ReportWrites ==
  ASSUME WfInv, scan # Nothing, NEW status \in {"pass", "warn", "fail"}, AfterReport(status),
         scan.full => scan.todo # {},
         scan.full /\ status # "fail" => scan.session \in Sessions
  PROVE  \/ /\ scan.full /\ scan' \in Job /\ scan'.full /\ scan'.at = "next"
            /\ latestScan' = latestScan
         \/ ~scan.full /\ scan' = Nothing /\ latestScan' \in JobEnd /\ ~latestScan'.full
<1>1. scan \in Job
  BY DEF WfInv, WfTypes
<1>2. CASE scan.full
  <2>1. FirstOf(scan.todo) \in Roots
    BY <1>1, <1>2, FirstOfRoots DEF Job
  <2>2. Worst(scan.worst, status) \in {"completed", "partial"}
    BY <1>1 DEF Worst, Job
  <2> DEFINE made == IF status = "fail" THEN scan.made ELSE scan.made \cup {scan.session}
             skipped == IF status = "fail" THEN scan.skipped \cup {FirstOf(scan.todo)}
                        ELSE scan.skipped
             todo == scan.todo \ {FirstOf(scan.todo)}
  <2>3. made \in SUBSET Sessions /\ skipped \in SUBSET Roots /\ todo \in SUBSET Roots
    BY <1>1, <1>2, <2>1 DEF Job
  <2>4. scan' = [scan EXCEPT !.at = "next", !.worst = Worst(scan.worst, status), !.todo = todo,
                             !.made = made, !.skipped = skipped]
        /\ latestScan' = latestScan
    BY <1>2 DEF AfterReport
  <2> HIDE DEF made, skipped, todo
  <2>5. scan' \in Job /\ scan'.full /\ scan'.at = "next"
    BY <1>1, <1>2, <2>2, <2>3, <2>4 DEF Job
  <2> QED BY <1>2, <2>4, <2>5
<1>3. CASE ~scan.full
  BY <1>1, <1>3 DEF AfterReport, EndsScan, ReportState, Job, JobEnd
<1> QED BY <1>2, <1>3

-----------------------------------------------------------------------------
(* Types, numbers and the session in hand.                                  *)

\* What a step leaves or synchronises of the roots, and what it leaves of the rest.
RestSound ==
    /\ layout' \in Layouts /\ rows' \in [Roots -> Places \cup {Nothing}]
    /\ latestScan' = Nothing \/ latestScan' \in JobEnd

\* A job that takes up a running session is sound.
LEMMA TakenUp ==
  ASSUME WfInv, NEW s \in Open, scan' = Resumed(s), RestSound,
         session' \in [Sessions -> SessionRows \cup {Nothing}], SessionsSound',
         s \in Used', session'[s].status = "running"
  PROVE  WfInv'
<1>1. scan' \in Job /\ ~scan'.full /\ scan'.session = s /\ scan'.at = "queued"
  BY ResumedJob DEF WfInv
<1>2. WfTypes'
  BY <1>1 DEF WfTypes, RestSound
<1>3. JobSound'
  BY <1>1 DEF JobSound
<1> QED BY <1>2, <1>3 DEF WfInv

\* So is recovery.
LEMMA RecoverInv ==
  ASSUME WfInv, Recover, RestSound, fresh' \subseteq fresh
  PROVE  WfInv'
<1>1. /\ LatestOpen \in Open /\ session[LatestOpen].status = "running"
      /\ scan' = Resumed(LatestOpen) /\ session' = session
  BY RecoverWrites
<1>2. session' \in [Sessions -> SessionRows \cup {Nothing}] /\ SessionsSound' /\ Used' = Used
  BY <1>1, RowsUnchanged
<1>3. LatestOpen \in Used'
  BY <1>1, <1>2 DEF Open
<1> QED BY <1>1, <1>2, <1>3, TakenUp

\* No job, or a full one that has not begun, whatever became of the latest session.
LEMMA BeginInv ==
  ASSUME WfInv, Retire \/ session' = session, RestSound, fresh' \subseteq fresh,
         scan' = Nothing \/ scan' = FullScan
  PROVE  WfInv'
<1>1. session' \in [Sessions -> SessionRows \cup {Nothing}] /\ SessionsSound'
  <2>1. CASE Retire
    <3>1. Rewrites(LatestOpen, FailedRow(LatestOpen))
          /\ FailedRow(LatestOpen).status = "failed" /\ ~FailedRow(LatestOpen).committed
      BY <2>1, RetireWrites
    <3> QED BY <3>1, RowsSound
  <2>2. CASE session' = session
    BY <2>2, RowsUnchanged
  <2> QED BY <2>1, <2>2
<1>2. scan' = Nothing \/ (scan' \in Job /\ scan'.full /\ scan'.at = "queued")
  BY FullJob
<1>3. WfTypes'
  BY <1>1, <1>2 DEF WfTypes, RestSound
<1>4. JobSound'
  BY <1>2 DEF JobSound
<1> QED BY <1>1, <1>3, <1>4 DEF WfInv

\* The rest of a request.
LEMMA CallRest ==
  ASSUME WfInv, layout' \in Layouts, latestScan' = latestScan,
         Sync \/ UNCHANGED <<rows, fresh, moved>>
  PROVE  RestSound /\ fresh' \subseteq fresh
BY SyncSound DEF WfInv, WfTypes, RestSound

\* Every request keeps the state sound.
LEMMA RequestInv ==
  ASSUME WfInv,
         \/ GetScanJob \/ Steer \/ ResumeScan \/ GetConsistencyJob
         \/ \E force \in BOOLEAN : StartScan(force) \/ StartConsistency(force)
  PROVE  WfInv'
<1>0. RestSound /\ fresh' \subseteq fresh
  <2>1. layout' = layout /\ latestScan' = latestScan
    BY DEF GetScanJob, Steer, ResumeScan, GetConsistencyJob, StartScan, StartConsistency,
           RestOfCall, records
  <2>2. Sync \/ UNCHANGED <<rows, fresh, moved>>
    BY DEF GetScanJob, Steer, ResumeScan, GetConsistencyJob, StartScan, StartConsistency
  <2> QED BY <2>1, <2>2, CallRest DEF WfInv, WfTypes
<1>1. CASE GetScanJob
  <2>1. Recover \/ (Retire /\ scan' = Nothing)
    BY <1>1 DEF GetScanJob
  <2> QED BY <1>0, <2>1, RecoverInv, BeginInv
<1>2. CASE Steer
  <2>1. session' = session /\ scan # Nothing /\ scan \in Job
    BY <1>2 DEF Steer, WfInv, WfTypes
  <2>2. /\ scan' \in Job /\ scan'.full = scan.full /\ scan'.at = scan.at
        /\ scan'.session = scan.session /\ scan'.todo = scan.todo
    BY <1>2, <2>1 DEF Steer, Job
  <2>3. session' \in [Sessions -> SessionRows \cup {Nothing}] /\ SessionsSound' /\ Used' = Used
    BY <1>0, <2>1, RowsUnchanged
  <2>4. WfTypes'
    BY <1>0, <2>2, <2>3 DEF WfTypes, RestSound
  <2>5. JobSound'
    BY <2>1, <2>2, <2>3 DEF JobSound, WfInv
  <2> QED BY <2>3, <2>4, <2>5 DEF WfInv
<1>3. CASE ResumeScan
  <2> DEFINE s == LatestOpen
             row == RunningRow(s)
  <2>1. /\ Rewrites(s, row) /\ s \in Open /\ row.status = "running"
        /\ ~row.committed /\ scan' = Resumed(s)
    BY <1>3, ResumeWrites
  <2> HIDE DEF s, row
  <2>2. session' \in [Sessions -> SessionRows \cup {Nothing}] /\ SessionsSound'
    BY <1>0, <2>1, RowsSound
  <2>3. s \in Used' /\ session'[s].status = "running"
    BY <2>1, RowRewritten
  <2> QED BY <1>0, <2>1, <2>2, <2>3, TakenUp
<1>4. CASE GetConsistencyJob
  <2>1. session' = session /\ scan' = Nothing
    BY <1>4 DEF GetConsistencyJob, control
  <2> QED BY <1>0, <2>1, BeginInv
<1>5. CASE \E force \in BOOLEAN : StartScan(force)
  <2>1. \/ Recover
        \/ (Retire \/ session' = session) /\ (scan' = Nothing \/ scan' = FullScan)
    BY <1>5 DEF StartScan
  <2> QED BY <1>0, <2>1, RecoverInv, BeginInv
<1>6. CASE \E force \in BOOLEAN : StartConsistency(force)
  <2>1. \/ Recover
        \/ (Retire \/ session' = session) /\ (scan' = Nothing \/ scan' = FullScan)
    BY <1>6 DEF StartConsistency
  <2> QED BY <1>0, <2>1, RecoverInv, BeginInv
<1> QED BY <1>1, <1>2, <1>3, <1>4, <1>5, <1>6

\* A step of the job that rewrites the row of a session keeps the state sound, if the
\* job has a running one afterwards when it must have one.
LEMMA RewriteInv ==
  ASSUME WfInv, NEW s, NEW row, Rewrites(s, row),
         row.committed <=> row.status = "completed",
         \A t \in fresh' : t \in fresh \/ (t = s /\ row.committed),
         RestSound,
         \/ scan' = Nothing
         \/ /\ scan' \in Job
            /\ ~scan'.full \/ scan'.at \in {"walk", "work"} =>
                  scan'.session = s /\ row.status = "running"
            /\ scan'.full /\ scan'.at \notin {"queued", "next"} => scan'.todo # {}
  PROVE  WfInv'
<1>1. session' \in [Sessions -> SessionRows \cup {Nothing}] /\ SessionsSound'
  BY RowsSound
<1>2. s \in Used' /\ session'[s] = row
  BY RowRewritten
<1>3. WfTypes'
  BY <1>1 DEF WfTypes, RestSound
<1>4. JobSound'
  BY <1>2 DEF JobSound
<1> QED BY <1>1, <1>3, <1>4 DEF WfInv

\* So does one that rewrites none.
LEMMA ScanStepInv ==
  ASSUME WfInv, UNCHANGED catalog, RestSound,
         \/ scan' = Nothing
         \/ /\ scan' \in Job
            /\ ~scan'.full \/ scan'.at \in {"walk", "work"} =>
                  scan # Nothing /\ scan'.session = scan.session /\ scan'.full = scan.full
                  /\ (~scan.full \/ scan.at \in {"walk", "work"})
            /\ scan'.full /\ scan'.at \notin {"queued", "next"} => scan'.todo # {}
  PROVE  WfInv'
<1>1. /\ session' \in [Sessions -> SessionRows \cup {Nothing}] /\ SessionsSound' /\ Used' = Used
      /\ session' = session
  BY RowsUnchanged DEF catalog
<1>2. WfTypes'
  BY <1>1 DEF WfTypes, RestSound
<1>3. JobSound'
  BY <1>1 DEF JobSound, WfInv
<1> QED BY <1>1, <1>2, <1>3 DEF WfInv

\* Every step of the scan job keeps the state sound.
LEMMA ScanJobInv ==
  ASSUME WfInv,
         \/ BeginScan \/ NextRoot \/ CatalogPathFails \/ SelectSession \/ Walk \/ Work
         \/ InterruptScan \/ ScanRaises \/ CommitRoot
  PROVE  WfInv'
<1>0. /\ scan # Nothing /\ scan \in Job
      /\ layout' \in Layouts /\ rows' \in [Roots -> Places \cup {Nothing}]
  <2>1. scan # Nothing /\ scan \in Job /\ layout' = layout
    BY DEF BeginScan, NextRoot, CatalogPathFails, SelectSession, Walk, Work, InterruptScan,
           ScanRaises, CommitRoot, At, RestOfScan, WfInv, WfTypes
  <2>2. Sync \/ rows' = rows
    BY DEF BeginScan, NextRoot, CatalogPathFails, SelectSession, Walk, Work, InterruptScan,
           ScanRaises, CommitRoot, catalog
  <2> QED BY <2>1, <2>2, SyncSound DEF WfInv, WfTypes
<1>1. CASE BeginScan
  <2>1. CASE EndsScan("failed")
    <3>1. scan' = Nothing /\ latestScan' \in JobEnd
      BY <1>0, <2>1, EndsWrites
    <3> QED BY <1>0, <1>1, <3>1, ScanStepInv DEF BeginScan, RestSound
  <2>2. CASE ~EndsScan("failed")
    <3>1. /\ scan.at = "queued" /\ latestScan' = latestScan /\ UNCHANGED catalog
          /\ scan' = [scan EXCEPT !.at = IF scan.full THEN "next" ELSE "select"]
      BY <1>1, <2>2 DEF BeginScan, At
    <3>2. /\ scan' \in Job /\ scan'.full = scan.full /\ scan'.session = scan.session
          /\ scan'.at = IF scan.full THEN "next" ELSE "select"
      BY <1>0, <3>1 DEF Job
    <3>3. RestSound
      BY <1>0, <3>1 DEF RestSound, WfInv, WfTypes
    <3> QED BY <1>0, <3>1, <3>2, <3>3, ScanStepInv
  <2> QED BY <2>1, <2>2
<1>2. CASE NextRoot
  <2>1. CASE \E state \in {"completed", "partial", "stopped"} : EndsScan(state)
    <3>1. scan' = Nothing /\ latestScan' \in JobEnd
      BY <1>0, <2>1, EndsWrites
    <3> QED BY <1>0, <1>2, <3>1, ScanStepInv DEF NextRoot, RestSound
  <2>2. CASE ~\E state \in {"completed", "partial", "stopped"} : EndsScan(state)
    <3>0. scan.worst \in {"completed", "partial"}
      BY <1>0 DEF Job
    <3>1. /\ scan.at = "next" /\ scan.todo # {} /\ latestScan' = latestScan /\ UNCHANGED catalog
          /\ scan' = [scan EXCEPT !.at = "select"]
      BY <1>2, <2>2, <3>0 DEF NextRoot, At
    <3>2. /\ scan' \in Job /\ scan'.full = scan.full /\ scan'.session = scan.session
          /\ scan'.at = "select" /\ scan'.todo = scan.todo
      BY <1>0, <3>1 DEF Job
    <3>3. RestSound
      BY <1>0, <3>1 DEF RestSound, WfInv, WfTypes
    <3> QED BY <1>0, <3>1, <3>2, <3>3, ScanStepInv
  <2> QED BY <2>1, <2>2
<1>3. CASE CatalogPathFails
  <2>1. AfterReport("fail") /\ UNCHANGED catalog /\ (scan.full => scan.todo # {})
    BY <1>3, <1>0 DEF CatalogPathFails, At, WfInv, JobSound
  <2>2. \/ scan' \in Job /\ scan'.full /\ scan'.at = "next" /\ latestScan' = latestScan
        \/ scan' = Nothing /\ latestScan' \in JobEnd
    BY <1>0, <2>1, ReportWrites
  <2>3. RestSound
    BY <1>0, <2>2 DEF RestSound, WfInv, WfTypes
  <2> QED BY <2>1, <2>2, <2>3, ScanStepInv
<1>4. CASE SelectSession
  <2>1. PICK s \in Sessions, status \in {"running", "failed"} :
           LET row == SelectedRow(s, status) IN
           /\ Rewrites(s, row) /\ row.status = status /\ ~row.committed
           /\ \/ status = "failed" /\ EndsScan("failed")
              \/ /\ status = "running" /\ UNCHANGED latestScan
                 /\ scan' = [scan EXCEPT !.at = "walk", !.session = s]
    BY <1>4, SelectWrites
  <2>2. fresh' \subseteq fresh /\ (scan.full => scan.todo # {})
    BY <1>0, <1>4, SyncSound DEF SelectSession, At, WfInv, JobSound
  <2>3. CASE EndsScan("failed")
    <3>1. scan' = Nothing /\ RestSound
      BY <1>0, <2>3, EndsWrites DEF RestSound
    <3> QED BY <2>1, <2>2, <3>1, RewriteInv
  <2>4. CASE ~EndsScan("failed")
    <3>1. /\ scan' \in Job /\ scan'.full = scan.full /\ scan'.at = "walk"
          /\ scan'.session = s /\ scan'.todo = scan.todo /\ status = "running"
      BY <1>0, <2>1, <2>4 DEF Job
    <3>2. RestSound
      BY <1>0, <2>1, <2>4 DEF RestSound, WfInv, WfTypes
    <3> QED BY <2>1, <2>2, <3>1, <3>2, RewriteInv
  <2> QED BY <2>3, <2>4
<1>5. CASE Walk
  <2>1. PICK left \in 0 .. Units :
           LET row == LeftRow(scan.session, left) IN
           Rewrites(scan.session, row) /\ row.status = "running" /\ ~row.committed
    BY <1>5, WalkWrites
  <2>2. /\ scan.at = "walk" /\ scan' = [scan EXCEPT !.at = "work"]
        /\ fresh' = fresh /\ latestScan' = latestScan
    BY <1>5 DEF Walk, At
  <2>3. /\ scan' \in Job /\ scan'.full = scan.full /\ scan'.session = scan.session
        /\ scan'.at = "work" /\ scan'.todo = scan.todo
    BY <1>0, <2>2 DEF Job
  <2>4. scan.full => scan.todo # {}
    BY <1>0, <2>2 DEF WfInv, JobSound
  <2>5. RestSound
    BY <1>0, <2>2 DEF RestSound, WfInv, WfTypes
  <2> QED BY <2>1, <2>2, <2>3, <2>4, <2>5, RewriteInv
<1>6. CASE Work
  <2>1. PICK failing \in BOOLEAN :
           LET row == ScannedRow(scan.session, failing) IN
           Rewrites(scan.session, row) /\ row.status = "running" /\ ~row.committed
    BY <1>6, WorkWrites
  <2>2. /\ scan.at = "work" /\ scan' = scan /\ fresh' = fresh /\ latestScan' = latestScan
    BY <1>6 DEF Work, At
  <2>3. scan.full => scan.todo # {}
    BY <1>0, <2>2 DEF WfInv, JobSound
  <2>4. RestSound
    BY <1>0, <2>2 DEF RestSound, WfInv, WfTypes
  <2> QED BY <1>0, <2>1, <2>2, <2>3, <2>4, RewriteInv
<1>7. CASE InterruptScan
  <2>1. PICK status \in {"stopped", "paused"} :
           LET row == StatusRow(scan.session, status) IN
           /\ Rewrites(scan.session, row) /\ row.status = status /\ ~row.committed
           /\ EndsScan(status)
    BY <1>7, InterruptWrites
  <2>2. scan' = Nothing /\ RestSound /\ fresh' = fresh
    BY <1>0, <1>7, <2>1, EndsWrites DEF RestSound, InterruptScan
  <2> QED BY <2>1, <2>2, RewriteInv
<1>8. CASE ScanRaises
  <2>1. EndsScan("failed") /\ UNCHANGED catalog
    BY <1>8 DEF ScanRaises
  <2>2. scan' = Nothing /\ RestSound
    BY <1>0, <2>1, EndsWrites DEF RestSound
  <2> QED BY <2>1, <2>2, ScanStepInv
<1>9. CASE CommitRoot
  <2>1. /\ Rewrites(scan.session, CommittedRow(scan.session))
        /\ CommittedRow(scan.session).status = "completed"
        /\ CommittedRow(scan.session).committed
        /\ scan.session \in Sessions
    BY <1>9, CommitWrites DEF Rewrites
  <2>2. /\ fresh' = fresh \cup {scan.session} /\ scan.at = "work"
        /\ (scan.full => scan.todo # {})
    BY <1>0, <1>9 DEF CommitRoot, At, WfInv, JobSound
  <2>3. \/ scan' \in Job /\ scan'.full /\ scan'.at = "next" /\ latestScan' = latestScan
        \/ scan' = Nothing /\ latestScan' \in JobEnd
    <3>1. PICK status \in {"pass", "warn"} : AfterReport(status)
      BY <1>9 DEF CommitRoot
    <3> QED BY <1>0, <2>1, <2>2, <3>1, ReportWrites
  <2>4. RestSound
    BY <1>0, <2>3 DEF RestSound, WfInv, WfTypes
  <2> DEFINE s == scan.session
             row == CommittedRow(s)
  <2>5. \A t \in fresh' : t \in fresh \/ (t = s /\ row.committed)
    BY <2>1, <2>2
  <2>6. Rewrites(s, row) /\ row.committed /\ row.status = "completed"
    BY <2>1
  <2> HIDE DEF s, row
  <2> QED BY <2>3, <2>4, <2>5, <2>6, RewriteInv
<1> QED BY <1>1, <1>2, <1>3, <1>4, <1>5, <1>6, <1>7, <1>8, <1>9

\* The catalog workflow keeps its rows, its numbers and the session in hand as the
\* state says: a committed session is a completed one, and a job inside a root has a
\* running session.
THEOREM WfSpecInv == WfSpec => []WfInv
<1>1. WfInit => WfInv
  <2> SUFFICES ASSUME WfInit PROVE WfInv
    OBVIOUS
  <2>1. Used = {}
    BY DEF WfInit, Used
  <2>2. Cardinality(Used) = 0 /\ 1 .. 0 = {}
    BY <2>1, FS_EmptySet
  <2> QED BY <2>1, <2>2 DEF WfInit, WfInv, WfTypes, SessionsSound, JobSound
<1>2. WfInv /\ [WfNext]_wfVars => WfInv'
  <2> SUFFICES ASSUME WfInv, [WfNext]_wfVars PROVE WfInv'
    OBVIOUS
  <2>1. CASE \/ GetScanJob \/ Steer \/ ResumeScan \/ GetConsistencyJob
             \/ \E force \in BOOLEAN : StartScan(force) \/ StartConsistency(force)
    BY <2>1, RequestInv
  <2>2. CASE \/ BeginScan \/ NextRoot \/ CatalogPathFails \/ SelectSession \/ Walk \/ Work
             \/ InterruptScan \/ ScanRaises \/ CommitRoot
    BY <2>2, ScanJobInv
  <2>3. CASE RunComparison
    <3>1. Sync /\ UNCHANGED <<layout, session, scan, latestScan>>
      BY <2>3 DEF RunComparison
    <3>2. RestSound /\ fresh' \subseteq fresh
      BY <3>1, CallRest DEF WfInv, WfTypes
    <3>3. session' \in [Sessions -> SessionRows \cup {Nothing}] /\ SessionsSound' /\ Used' = Used
      BY <3>1, <3>2, RowsUnchanged
    <3>4. JobSound'
      BY <3>1, <3>3 DEF WfInv, JobSound
    <3> QED BY <3>1, <3>2, <3>3, <3>4 DEF WfInv, WfTypes, RestSound
  <2>4. CASE WfCrash
    <3>1. scan' = Nothing /\ UNCHANGED catalog /\ RestSound
      BY <2>4 DEF WfCrash, records, catalog, RestSound, WfInv, WfTypes
    <3> QED BY <3>1, ScanStepInv
  <2>5. CASE UNCHANGED wfVars
    BY <2>5 DEF wfVars, catalog, control, records, WfInv, WfTypes, SessionsSound, JobSound, Used
  <2> QED BY <2>1, <2>2, <2>3, <2>4, <2>5 DEF WfNext
<1> QED BY <1>1, <1>2, PTL DEF WfSpec

-----------------------------------------------------------------------------
(* A running session is the latest open one.                                *)

LEMMA RunningIsLatest ==
  ASSUME WfInv, RunningIsLast, NEW s \in Used, session[s].status = "running"
  PROVE  s \in Open /\ s = LatestOpen
<1>1. s \in Open /\ \A t \in Open : t <= s
  BY DEF RunningIsLast, Open
<1>2. LatestOpen \in Open /\ s <= LatestOpen
  BY <1>1, LatestOpenIsLast
<1>3. Open \subseteq Nat
  BY WorkflowAssumption DEF Open, Used, Sessions
<1> QED BY <1>1, <1>2, <1>3

\* It stays so when another row is written, if that one does not run either or is last.
LEMMA LastKept ==
  ASSUME WfInv, RunningIsLast, NEW s, NEW row, Rewrites(s, row),
         \/ row.status # "running" /\ (s \in Open \/ row.status = "failed")
         \/ /\ row.status = "running" /\ \A t \in Open : t <= s
            /\ s \in Open \/ \A t \in Used : session[t].status # "running"
  PROVE  \A u \in Used' : session'[u].status = "running" => \A t \in Open' : t <= u
<1>1. /\ Used' = Used \cup {s} /\ session'[s] = row
      /\ \A t \in Sessions : t # s => session'[t] = session[t]
  BY RowRewritten
<1>2. Open' \subseteq Open \cup {s} /\ s \in Nat
  BY <1>1, WorkflowAssumption DEF Open, Used, Rewrites, Sessions
<1>3. Open \subseteq Nat
  BY WorkflowAssumption DEF Open, Used, Sessions
<1> SUFFICES ASSUME NEW u \in Used', session'[u].status = "running", NEW t \in Open'
             PROVE  t <= u
  OBVIOUS
<1>4. CASE row.status # "running"
  <2>1. u # s /\ u \in Used /\ session[u].status = "running"
    BY <1>1, <1>4 DEF Used
  <2>2. t \in Open
    BY <1>1, <1>2, <1>4 DEF Open
  <2> QED BY <2>1, <2>2 DEF RunningIsLast
<1>5. CASE row.status = "running"
  <2>1. \A x \in Open : x <= s
    BY <1>5
  <2>2. CASE u = s
    BY <1>2, <2>1, <2>2
  <2>3. CASE u # s
    <3>1. u \in Used /\ session[u].status = "running"
      BY <1>1, <2>3 DEF Used
    <3>2. s \in Open
      BY <1>5, <3>1
    <3> QED BY <1>2, <3>1, <3>2 DEF RunningIsLast
  <2> QED BY <2>2, <2>3
<1> QED BY <1>4, <1>5

\* None runs when the one that ran does no longer.
LEMMA NoneRuns ==
  ASSUME WfInv, RunningIsLast, NEW s \in Open, session[s].status = "running",
         NEW row, Rewrites(s, row), row.status # "running"
  PROVE  \A t \in Used' : session'[t].status # "running"
<1>1. /\ Used' = Used \cup {s} /\ session'[s] = row
      /\ \A t \in Sessions : t # s => session'[t] = session[t]
  BY RowRewritten
<1>2. ASSUME NEW t \in Used', session'[t].status = "running" PROVE FALSE
  <2>1. t # s /\ t \in Used /\ session[t].status = "running"
    BY <1>1, <1>2 DEF Used
  <2>2. t = LatestOpen /\ s = LatestOpen
    BY <2>1, RunningIsLatest DEF Open
  <2> QED BY <2>1, <2>2
<1> QED BY <1>2

\* A request starts a full job when no session runs, or has failed the one that did.
LEMMA RequestLast ==
  ASSUME WfInv, RunningIsLast,
         \/ Recover
         \/ (Retire \/ (~Recoverable /\ session' = session))
               /\ (scan' = Nothing \/ scan' = FullScan)
         \/ session' = session /\ scan' = Nothing
  PROVE  RunningIsLast'
<1>1. CASE Recover
  <2>1. session' = session /\ scan' = Resumed(LatestOpen) /\ LatestOpen \in Open
    BY <1>1, RecoverWrites
  <2>2. ~scan'.full
    BY <2>1, ResumedJob DEF WfInv
  <2> QED BY <2>1, <2>2 DEF RunningIsLast, Open, Used
<1>2. CASE Retire
  <2> DEFINE s == LatestOpen
             row == FailedRow(s)
  <2>1. /\ Rewrites(s, row) /\ s \in Open /\ session[s].status = "running"
        /\ row.status = "failed"
    BY <1>2, RetireWrites
  <2> HIDE DEF s, row
  <2>2. \A u \in Used' : session'[u].status = "running" => \A t \in Open' : t <= u
    BY <2>1, LastKept
  <2>3. \A t \in Used' : session'[t].status # "running"
    BY <2>1, NoneRuns
  <2> QED BY <2>2, <2>3 DEF RunningIsLast
<1>3. CASE ~Recoverable /\ session' = session
  <2>1. \A t \in Used : session[t].status # "running"
    <3>1. ASSUME NEW t \in Used, session[t].status = "running" PROVE FALSE
      <4>1. t \in Open /\ t = LatestOpen
        BY <3>1, RunningIsLatest
      <4>2. LatestOpen # Nothing
        BY <4>1, LatestOpenIsLast
      <4> QED BY <1>3, <3>1, <4>1, <4>2 DEF Recoverable
    <3> QED BY <3>1
  <2> QED BY <1>3, <2>1 DEF RunningIsLast, Open, Used
<1>4. CASE session' = session /\ scan' = Nothing
  BY <1>4 DEF RunningIsLast, Open, Used
<1> QED BY <1>1, <1>2, <1>3, <1>4

\* Every step keeps it so.
LEMMA LastStep ==
  ASSUME WfInv, RunningIsLast, [WfNext]_wfVars
  PROVE  RunningIsLast'
<1>0. scan = Nothing \/ scan \in Job
  BY DEF WfInv, WfTypes
<1>1. CASE GetScanJob
  BY <1>1, RequestLast DEF GetScanJob
<1>2. CASE Steer
  <2>1. session' = session /\ scan # Nothing /\ scan'.full = scan.full /\ scan'.at = scan.at
    BY <1>0, <1>2 DEF Steer, Job
  <2> QED BY <2>1 DEF RunningIsLast, Open, Used
<1>3. CASE ResumeScan
  <2> DEFINE s == LatestOpen
             row == RunningRow(s)
  <2>1. /\ Rewrites(s, row) /\ s \in Open /\ row.status = "running" /\ scan' = Resumed(s)
    BY <1>3, ResumeWrites
  <2>2. \A t \in Open : t <= s
    BY <2>1, LatestOpenIsLast
  <2> HIDE DEF s, row
  <2>3. \A u \in Used' : session'[u].status = "running" => \A t \in Open' : t <= u
    BY <2>1, <2>2, LastKept
  <2>4. ~scan'.full
    BY <2>1, ResumedJob DEF WfInv
  <2> QED BY <2>3, <2>4 DEF RunningIsLast
<1>4. CASE GetConsistencyJob
  BY <1>4, RequestLast DEF GetConsistencyJob, control
<1>5. CASE \E force \in BOOLEAN : StartScan(force)
  BY <1>5, RequestLast DEF StartScan
<1>6. CASE \E force \in BOOLEAN : StartConsistency(force)
  BY <1>6, RequestLast DEF StartConsistency
<1>7. CASE BeginScan \/ NextRoot \/ CatalogPathFails \/ ScanRaises
  <2>1. session' = session /\ scan # Nothing /\ scan \in Job
    BY <1>0, <1>7 DEF BeginScan, NextRoot, CatalogPathFails, ScanRaises, At, catalog
  <2>2. \/ scan' = Nothing \/ ~scan'.full
        \/ scan.full /\ scan.at \notin {"walk", "work"}
    BY <1>7, <2>1 DEF BeginScan, NextRoot, CatalogPathFails, ScanRaises, At, EndsScan,
                      AfterReport, Job
  <2> QED BY <2>1, <2>2 DEF RunningIsLast, Open, Used
<1>8. CASE SelectSession
  <2>1. PICK s \in Sessions, status \in {"running", "failed"} :
           LET row == SelectedRow(s, status) IN
           /\ Rewrites(s, row) /\ row.status = status
           /\ IF scan.full THEN s \notin Open ELSE s \in Open /\ s = scan.session
           /\ \/ status = "failed" /\ EndsScan("failed")
              \/ status = "running" /\ scan' = [scan EXCEPT !.at = "walk", !.session = s]
    BY <1>8, SelectWrites
  <2> DEFINE row == SelectedRow(s, status)
  <2>2. /\ Rewrites(s, row) /\ row.status = status
        /\ IF scan.full THEN s \notin Open ELSE s \in Open /\ s = scan.session
    BY <2>1
  <2>3. scan # Nothing /\ scan.at = "select" /\ scan \in Job
    BY <1>0, <1>8 DEF SelectSession, At
  <2> HIDE DEF row
  <2>4. /\ \A t \in Open : t <= s
        /\ s \in Open \/ \A t \in Used : session[t].status # "running"
    <3>1. CASE scan.full
      BY <2>2, <2>3, <3>1, RowRewritten DEF RunningIsLast, Open
    <3>2. CASE ~scan.full
      BY <2>2, <2>3, <3>2, SessionInHand DEF RunningIsLast, Open
    <3> QED BY <3>1, <3>2
  <2>5. \A u \in Used' : session'[u].status = "running" => \A t \in Open' : t <= u
    BY <2>2, <2>4, LastKept
  <2>6. scan' = Nothing \/ scan'.at = "walk"
    BY <2>1, <2>3 DEF EndsScan, Job
  <2> QED BY <2>5, <2>6 DEF RunningIsLast
<1>9. CASE Walk \/ Work
  <2> DEFINE s == scan.session
  <2>1. PICK row : Rewrites(s, row) /\ row.status = "running" /\ s \in Open
    BY <1>9, WalkWrites, WorkWrites
  <2>2. /\ scan # Nothing /\ session[s].status = "running" /\ scan'.at = "work"
    BY <1>0, <1>9, SessionInHand DEF Walk, Work, At, Job
  <2> HIDE DEF s
  <2>3. \A t \in Open : t <= s
    BY <2>1, <2>2 DEF RunningIsLast, Open
  <2>4. \A u \in Used' : session'[u].status = "running" => \A t \in Open' : t <= u
    BY <2>1, <2>3, LastKept
  <2> QED BY <2>2, <2>4 DEF RunningIsLast
<1>10. CASE InterruptScan \/ CommitRoot
  <2> DEFINE s == scan.session
  <2>1. PICK row : Rewrites(s, row) /\ row.status # "running" /\ s \in Open
    <3>1. CASE InterruptScan
      BY <3>1, InterruptWrites
    <3>2. CASE CommitRoot
      BY <3>2, CommitWrites
    <3> QED BY <1>10, <3>1, <3>2
  <2>2. session[s].status = "running"
    BY <1>10, SessionInHand DEF InterruptScan, CommitRoot, At
  <2> HIDE DEF s
  <2>3. \A t \in Used' : session'[t].status # "running"
    BY <2>1, <2>2, NoneRuns
  <2> QED BY <2>3 DEF RunningIsLast
<1>11. CASE RunComparison \/ WfCrash \/ UNCHANGED wfVars
  <2>1. session' = session /\ (scan' = scan \/ scan' = Nothing)
    BY <1>11 DEF RunComparison, WfCrash, wfVars, catalog, control
  <2> QED BY <2>1 DEF RunningIsLast, Open, Used
<1> QED BY <1>1, <1>2, <1>3, <1>4, <1>5, <1>6, <1>7, <1>8, <1>9, <1>10, <1>11 DEF WfNext

\* A session that a crash or an exception left running is the one that
\* find_latest_incomplete_scan_session gives to recovery, which therefore never
\* overlooks one: none runs when a full job opens the next session.
THEOREM OrphansAreFound == WfSpec => []OrphanIsFound
<1>1. WfInit => RunningIsLast
  BY DEF WfInit, RunningIsLast, Used
<1>2. WfInv /\ RunningIsLast /\ [WfNext]_wfVars => RunningIsLast'
  BY LastStep
<1>3. WfInv /\ RunningIsLast => OrphanIsFound
  BY RunningIsLatest DEF OrphanIsFound
<1> QED BY <1>1, <1>2, <1>3, WfSpecInv, PTL DEF WfSpec

-----------------------------------------------------------------------------
(* What was scanned was scanned where its root is.                          *)

\* A step leaves the root of a fresh session and of an open one where it is, or the
\* open one counts as moved.
RootsInPlace ==
    /\ moved \subseteq moved' /\ starved \subseteq starved'
    /\ \A u \in Open : rows'[session[u].root] = rows[session[u].root] \/ u \in moved'
    /\ \A u \in fresh \cap fresh' : rows'[session[u].root] = rows[session[u].root]

LEMMA RootsStay ==
  ASSUME WfInv, Sync \/ UNCHANGED <<rows, moved>>, starved \subseteq starved'
  PROVE  RootsInPlace
<1>1. \A u \in Open \cup fresh : session[u].root \in Roots
  BY DEF WfInv, WfTypes, SessionsSound, Open, Used, SessionRows
<1>2. CASE Sync
  BY <1>1, <1>2, SyncSound DEF WfInv, RootsInPlace
<1>3. CASE UNCHANGED <<rows, moved>>
  BY <1>3 DEF RootsInPlace
<1> QED BY <1>2, <1>3

\* Then what no step rewrites stays in place.
LEMMA PlacesUnchanged ==
  ASSUME WfInv, ScannedInPlace, session' = session, fresh' \subseteq fresh, RootsInPlace
  PROVE  ScannedInPlace'
<1>1. Open' = Open /\ Used' = Used
  BY DEF Open, Used
<1> QED BY <1>1 DEF ScannedInPlace, RootsInPlace

\* So does the row of a session that was scanned nowhere but where its root is.
LEMMA PlacesKept ==
  ASSUME WfInv, ScannedInPlace, NEW s, NEW row, Rewrites(s, row), RootsInPlace,
         IF s \in Open THEN row.through \subseteq session[s].through \cup {rows[session[s].root]}
         ELSE row.through = {},
         row.committed => row.left = 0 \/ s \in starved',
         \A t \in fresh' : t \in fresh \/ (t = s /\ row.committed)
  PROVE  ScannedInPlace'
<1>1. /\ Used' = Used \cup {s} /\ session'[s] = row
      /\ \A t \in Sessions : t # s => session'[t] = session[t]
  BY RowRewritten
<1>2. ASSUME NEW u \in (Open' \cup fresh') \ moved'
      PROVE  session'[u].through \subseteq {rows'[session'[u].root]}
  <2>1. CASE u = s
    <3>1. CASE s \in Open
      <4>1. s \notin moved /\ rows'[session[s].root] = rows[session[s].root]
        BY <1>2, <2>1, <3>1 DEF RootsInPlace
      <4>2. session[s].through \subseteq {rows[session[s].root]}
        BY <3>1, <4>1 DEF ScannedInPlace
      <4>3. row.root = session[s].root
        <5>1. s \in Used
          BY <3>1 DEF Open
        <5> QED BY <5>1, NewIsUnused DEF Rewrites
      <4> QED BY <1>1, <2>1, <3>1, <4>1, <4>2, <4>3
    <3>2. CASE s \notin Open
      BY <1>1, <2>1, <3>2
    <3> QED BY <3>1, <3>2
  <2>2. CASE u # s
    <3>1. u \in Sessions /\ session'[u] = session[u] /\ u \in Open \cup fresh
      <4>1. CASE u \in Open'
        BY <1>1, <2>2, <4>1 DEF Open, Used
      <4>2. CASE u \in fresh'
        <5>1. u \in fresh /\ u \in Sessions
          BY <2>2, <4>2 DEF WfInv, SessionsSound, Used
        <5> QED BY <1>1, <2>2, <5>1
      <4> QED BY <1>2, <4>1, <4>2
    <3>2. u \notin moved
      BY <1>2 DEF RootsInPlace
    <3>3. rows'[session[u].root] = rows[session[u].root]
      <4>1. CASE u \in Open
        BY <1>2, <4>1 DEF RootsInPlace
      <4>2. CASE u \notin Open
        <5>1. u \in fresh /\ session[u].committed /\ u \in Used
          BY <3>1, <4>2 DEF WfInv, SessionsSound
        <5>2. u \notin Open'
          BY <3>1, <4>2, <5>1 DEF Open, Used
        <5> QED BY <1>2, <5>1, <5>2 DEF RootsInPlace
      <4> QED BY <4>1, <4>2
    <3> QED BY <3>1, <3>2, <3>3 DEF ScannedInPlace
  <2> QED BY <2>1, <2>2
<1>3. ASSUME NEW u \in Used', session'[u].committed
      PROVE  session'[u].left = 0 \/ u \in starved'
  <2>1. CASE u = s
    BY <1>1, <1>3, <2>1
  <2>2. CASE u # s
    BY <1>1, <1>3, <2>2 DEF ScannedInPlace, RootsInPlace, Used
  <2> QED BY <2>1, <2>2
<1> QED BY <1>2, <1>3 DEF ScannedInPlace

\* Every step keeps them so.
LEMMA PlacesStep ==
  ASSUME WfInv, ScannedInPlace, [WfNext]_wfVars
  PROVE  ScannedInPlace'
<1>1. CASE \/ GetScanJob \/ Steer \/ ResumeScan \/ GetConsistencyJob
           \/ \E force \in BOOLEAN : StartScan(force) \/ StartConsistency(force)
  <2>1. /\ Sync \/ UNCHANGED <<rows, fresh, moved>>
        /\ starved' = starved
    BY <1>1 DEF GetScanJob, Steer, ResumeScan, GetConsistencyJob, StartScan, StartConsistency,
                RestOfCall
  <2>2. RootsInPlace /\ fresh' \subseteq fresh
    BY <2>1, RootsStay, SyncSound DEF WfInv
  <2>3. \/ session' = session
        \/ Retire
        \/ ResumeScan
    <3>1. CASE Recover
      BY <3>1 DEF Recover
    <3> QED BY <1>1, <3>1 DEF GetScanJob, Steer, GetConsistencyJob, StartScan, StartConsistency
  <2>4. CASE session' = session
    BY <2>2, <2>4, PlacesUnchanged
  <2>5. CASE Retire
    <3> DEFINE s == LatestOpen
               row == FailedRow(s)
    <3>1. /\ Rewrites(s, row) /\ s \in Open /\ ~row.committed
      BY <2>5, RetireWrites
    <3>2. row.through = session[s].through
      BY <3>1, OpenRow DEF WfStatus, FailedRow, SessionRows
    <3> HIDE DEF s, row
    <3> QED BY <2>2, <3>1, <3>2, PlacesKept
  <2>6. CASE ResumeScan
    <3> DEFINE s == LatestOpen
               row == RunningRow(s)
    <3>1. /\ Rewrites(s, row) /\ s \in Open /\ ~row.committed
          /\ row.through = session[s].through
      BY <2>6, ResumeWrites
    <3> HIDE DEF s, row
    <3> QED BY <2>2, <3>1, PlacesKept
  <2> QED BY <2>3, <2>4, <2>5, <2>6
<1>2. CASE BeginScan \/ NextRoot \/ CatalogPathFails \/ ScanRaises \/ WfCrash
  <2>1. UNCHANGED catalog
    BY <1>2 DEF BeginScan, NextRoot, CatalogPathFails, ScanRaises, WfCrash
  <2>2. RootsInPlace
    BY <2>1, RootsStay DEF catalog
  <2> QED BY <2>1, <2>2, PlacesUnchanged DEF catalog
<1>3. CASE RunComparison
  <2>1. Sync /\ session' = session /\ starved' = starved
    BY <1>3 DEF RunComparison
  <2>2. RootsInPlace /\ fresh' \subseteq fresh
    BY <2>1, RootsStay, SyncSound DEF WfInv
  <2> QED BY <2>1, <2>2, PlacesUnchanged
<1>4. CASE SelectSession
  <2>1. PICK s \in Sessions, status \in {"running", "failed"} :
           LET row == SelectedRow(s, status) IN
           /\ Rewrites(s, row) /\ ~row.committed
           /\ IF scan.full THEN s \notin Open /\ row.through = {}
              ELSE s \in Open /\ row.through = session[s].through
    BY <1>4, SelectWrites
  <2> DEFINE row == SelectedRow(s, status)
  <2>2. /\ Rewrites(s, row) /\ ~row.committed
        /\ IF s \in Open THEN row.through = session[s].through ELSE row.through = {}
    BY <2>1
  <2>3. Sync /\ starved' = starved
    BY <1>4 DEF SelectSession
  <2>4. RootsInPlace /\ fresh' \subseteq fresh
    BY <2>3, RootsStay, SyncSound DEF WfInv
  <2> HIDE DEF row
  <2> QED BY <2>2, <2>4, PlacesKept
<1>5. CASE Walk \/ Work \/ InterruptScan
  <2> DEFINE s == scan.session
  <2>1. PICK row : /\ Rewrites(s, row) /\ ~row.committed /\ s \in Open
                   /\ row.through \subseteq session[s].through \cup {rows[session[s].root]}
    <3>1. CASE Walk
      BY <3>1, WalkWrites
    <3>2. CASE Work
      BY <3>2, WorkWrites
    <3>3. CASE InterruptScan
      BY <3>3, InterruptWrites
    <3> QED BY <1>5, <3>1, <3>2, <3>3
  <2>2. UNCHANGED <<rows, fresh, moved, starved>>
    BY <1>5 DEF Walk, Work, InterruptScan
  <2>3. RootsInPlace
    BY <2>2, RootsStay
  <2> HIDE DEF s
  <2> QED BY <2>1, <2>2, <2>3, PlacesKept
<1>6. CASE CommitRoot
  <2> DEFINE s == scan.session
             row == CommittedRow(s)
  <2>1. /\ Rewrites(s, row) /\ row.committed /\ s \in Open
        /\ row.through = session[s].through /\ row.left = session[s].left
    BY <1>6, CommitWrites
  <2>2. /\ rows' = rows /\ moved' = moved /\ fresh' = fresh \cup {s}
        /\ starved' = IF scan.halted THEN starved \cup {s} ELSE starved
        /\ session[s].left = 0 \/ scan.halted
    BY <1>6 DEF CommitRoot, ThisSession
  <2>3. RootsInPlace
    BY <2>2, RootsStay
  <2>4. row.left = 0 \/ s \in starved'
    BY <2>1, <2>2
  <2> HIDE DEF s, row
  <2> QED BY <2>1, <2>2, <2>3, <2>4, PlacesKept
<1>7. CASE UNCHANGED wfVars
  BY <1>7 DEF wfVars, catalog, ScannedInPlace, Open, Used
<1> QED BY <1>1, <1>2, <1>3, <1>4, <1>5, <1>6, <1>7 DEF WfNext

\* What _consistency_report_is_current says of a report: it compared every root that
\* is scanned now, each from a snapshot whose units were all scanned at the place the
\* root has now, however scans were paused, resumed and interrupted, and however the
\* roots were configured after each restart.  Sessions that were open while their root
\* moved are set aside, and so are units left by workers that were all stopped.
THEOREM ReportsOfPresentRoots == WfSpec => []ReportOfPresentRoots
<1>1. WfInit => ScannedInPlace
  BY DEF WfInit, ScannedInPlace, Used, Open
<1>2. WfInv /\ ScannedInPlace /\ [WfNext]_wfVars => ScannedInPlace'
  BY PlacesStep
<1>3. WfInv /\ ScannedInPlace => ReportOfPresentRoots
  <2> SUFFICES ASSUME WfInv, ScannedInPlace, ReportCurrent
               PROVE  /\ {session[s].root : s \in latestReport} = Scanned
                      /\ \A s \in latestReport \ moved :
                            /\ session[s].through \subseteq {layout[session[s].root]}
                            /\ session[s].left = 0 \/ s \in starved
    BY DEF ReportOfPresentRoots
  <2>1. latestReport = Basis /\ Scanned = {session[s].root : s \in Basis}
    BY DEF ReportCurrent, Complete
  <2>2. ASSUME NEW s \in Basis, s \notin moved
        PROVE  /\ session[s].through \subseteq {layout[session[s].root]}
               /\ session[s].left = 0 \/ s \in starved
    <3>1. s \in fresh /\ session[s].root \notin Touched /\ session[s].root \in Configured
      BY <2>2 DEF Basis, Fresh, Scanned
    <3>2. rows[session[s].root] = layout[session[s].root]
      BY <3>1 DEF Touched
    <3>3. s \in Used /\ session[s].committed
      BY <3>1 DEF WfInv, SessionsSound
    <3> QED BY <2>2, <3>1, <3>2, <3>3 DEF ScannedInPlace
  <2> QED BY <2>1, <2>2
<1> QED BY <1>1, <1>2, <1>3, WfSpecInv, PTL DEF WfSpec

-----------------------------------------------------------------------------
(* A scan job accounts for its roots.                                       *)

\* A committed session stays as it is.
CommittedStay == \A s \in Used : session[s].committed => s \in Used' /\ session'[s] = session[s]

LEMMA RewriteKeepsCommitted ==
  ASSUME WfInv, NEW s, NEW row, Rewrites(s, row)
  PROVE  CommittedStay
<1>1. /\ Used' = Used \cup {s}
      /\ \A t \in Sessions : t # s => session'[t] = session[t]
      /\ \A t \in Used : session[t].committed => t # s
  BY RowRewritten
<1> QED BY <1>1 DEF CommittedStay, Used

LEMMA CommittedStep ==
  ASSUME WfInv, [WfNext]_wfVars
  PROVE  CommittedStay
<1>1. CASE session' = session
  BY <1>1 DEF CommittedStay, Used
<1>2. CASE session' # session
  <2>1. \/ Retire \/ ResumeScan \/ SelectSession \/ Walk \/ Work \/ InterruptScan \/ CommitRoot
    BY <1>2 DEF WfNext, wfVars, catalog, GetScanJob, Steer, GetConsistencyJob, StartScan,
                StartConsistency, Recover, BeginScan, NextRoot, CatalogPathFails, ScanRaises,
                RunComparison, WfCrash
  <2>2. CASE Retire
    BY <2>2, RetireWrites, RewriteKeepsCommitted
  <2>3. CASE ResumeScan
    BY <2>3, ResumeWrites, RewriteKeepsCommitted
  <2>4. CASE SelectSession
    <3>1. \E s, row : Rewrites(s, row)
      BY <2>4, SelectWrites
    <3> QED BY <3>1, RewriteKeepsCommitted
  <2>5. CASE Walk \/ Work \/ InterruptScan
    <3>1. \E s, row : Rewrites(s, row)
      BY <2>5, WalkWrites, WorkWrites, InterruptWrites
    <3> QED BY <3>1, RewriteKeepsCommitted
  <2>6. CASE CommitRoot
    BY <2>6, CommitWrites, RewriteKeepsCommitted
  <2> QED BY <2>1, <2>2, <2>3, <2>4, <2>5, <2>6
<1> QED BY <1>1, <1>2

\* A step that leaves the account of the job keeps it right.
LEMMA AccountKept ==
  ASSUME JobAccounts, CommittedStay, scan # Nothing, scan.full,
         /\ scan'.given = scan.given /\ scan'.todo = scan.todo /\ scan'.made = scan.made
         /\ scan'.skipped = scan.skipped /\ scan'.worst = scan.worst
         /\ scan.halted => scan'.halted,
         scan'.at \in {"walk", "work"} => session'[scan'.session].root = FirstOf(scan.todo)
  PROVE  JobAccounts'
<1>1. /\ \A s \in scan.made : s \in Used /\ session[s].committed
      /\ scan.given = scan.todo \cup scan.skipped \cup {session[s].root : s \in scan.made}
  BY DEF JobAccounts
<1>2. \A s \in scan.made : s \in Used' /\ session'[s] = session[s]
  BY <1>1 DEF CommittedStay
<1>3. {session'[s].root : s \in scan.made} = {session[s].root : s \in scan.made}
  BY <1>2
<1> QED BY <1>1, <1>2, <1>3 DEF JobAccounts, FirstOf

\* The account of a root that was committed, or that could not be begun.
LEMMA AccountGrows ==
  ASSUME WfInv, JobAccounts, CommittedStay, scan # Nothing, scan.full, scan.todo # {},
         NEW status \in {"pass", "warn", "fail"}, AfterReport(status),
         status # "fail" =>
            /\ scan.session \in Used' /\ session'[scan.session].committed
            /\ session'[scan.session].root = FirstOf(scan.todo)
            /\ session'[scan.session].left = 0 \/ scan.halted
            /\ status = "pass" => ~session'[scan.session].errors
  PROVE  JobAccounts'
<1>1. /\ \A s \in scan.made : /\ s \in Used' /\ session'[s].committed
                              /\ session'[s] = session[s]
                              /\ session'[s].left = 0 \/ scan.halted
                              /\ scan.worst = "completed" => ~session'[s].errors
      /\ scan.given = scan.todo \cup scan.skipped \cup {session[s].root : s \in scan.made}
      /\ scan.worst = "completed" => scan.skipped = {}
      /\ scan \in Job
  BY DEF JobAccounts, CommittedStay, WfInv, WfTypes
<1>2. {session'[s].root : s \in scan.made} = {session[s].root : s \in scan.made}
  BY <1>1
<1>3. FirstOf(scan.todo) \in scan.todo
  BY <1>1, FirstOfRoots DEF Job
<1> DEFINE made == IF status = "fail" THEN scan.made ELSE scan.made \cup {scan.session}
           skipped == IF status = "fail" THEN scan.skipped \cup {FirstOf(scan.todo)}
                      ELSE scan.skipped
           todo == scan.todo \ {FirstOf(scan.todo)}
<1>4. scan' = [scan EXCEPT !.at = "next", !.worst = Worst(scan.worst, status), !.todo = todo,
                           !.made = made, !.skipped = skipped]
  BY DEF AfterReport
<1>5. {session'[s].root : s \in made} =
        {session'[s].root : s \in scan.made}
           \cup (IF status = "fail" THEN {} ELSE {FirstOf(scan.todo)})
  BY DEF made
<1>6. scan.given = todo \cup skipped \cup {session'[s].root : s \in made}
  <2>1. CASE status = "fail"
    BY <1>1, <1>2, <1>3, <1>5, <2>1
  <2>2. CASE status # "fail"
    BY <1>1, <1>2, <1>3, <1>5, <2>2
  <2> QED BY <2>1, <2>2
<1>7. \A s \in made : s \in Used' /\ session'[s].committed
                      /\ (session'[s].left = 0 \/ scan.halted)
  BY <1>1
<1>8. Worst(scan.worst, status) = "completed" =>
        skipped = {} /\ \A s \in made : ~session'[s].errors
  BY <1>1 DEF Worst
<1> HIDE DEF made, skipped, todo
<1>9. /\ scan'.given = scan.given /\ scan'.todo = todo /\ scan'.made = made
      /\ scan'.skipped = skipped /\ scan'.worst = Worst(scan.worst, status)
      /\ scan'.halted = scan.halted /\ scan'.at = "next"
  BY <1>1, <1>4 DEF Job
<1> QED BY <1>6, <1>7, <1>8, <1>9 DEF JobAccounts

\* Every step keeps the account of the job.
LEMMA JobAccountsStep ==
  ASSUME WfInv, JobAccounts, [WfNext]_wfVars
  PROVE  JobAccounts'
<1>0. CommittedStay
  BY CommittedStep
<1>1. CASE scan = Nothing
  <2>1. \/ Recover \/ ResumeScan
        \/ scan' = Nothing \/ scan' = FullScan
    BY <1>1 DEF WfNext, wfVars, control, GetScanJob, Steer, GetConsistencyJob, StartScan,
                StartConsistency, BeginScan, NextRoot, CatalogPathFails, SelectSession, Walk,
                Work, InterruptScan, ScanRaises, CommitRoot, RunComparison, WfCrash, At
  <2>2. CASE Recover \/ ResumeScan
    <3>1. LatestOpen \in Open /\ scan' = Resumed(LatestOpen)
      BY <2>2, RecoverWrites, ResumeWrites
    <3>2. ~scan'.full
      BY <3>1, ResumedJob DEF WfInv
    <3> QED BY <3>2 DEF JobAccounts
  <2>3. CASE scan' = Nothing
    BY <2>3 DEF JobAccounts
  <2>4. CASE scan' = FullScan
    <3>1. /\ scan'.given = scan'.todo /\ scan'.made = {} /\ scan'.skipped = {}
          /\ scan'.at = "queued"
      BY <2>4, FullJob
    <3> QED BY <3>1 DEF JobAccounts
  <2> QED BY <2>1, <2>2, <2>3, <2>4
<1>2. CASE scan # Nothing /\ ~scan.full
  <2>1. scan \in Job
    BY <1>2 DEF WfInv, WfTypes
  <2>2. scan' = Nothing \/ ~scan'.full
    BY <1>2, <2>1 DEF WfNext, wfVars, control, GetScanJob, Steer, GetConsistencyJob, StartScan,
                StartConsistency, BeginScan, NextRoot, CatalogPathFails, SelectSession, Walk, ResumeScan,
                Work, InterruptScan, ScanRaises, CommitRoot, RunComparison, WfCrash, At,
                EndsScan, AfterReport, Job
  <2> QED BY <2>2 DEF JobAccounts
<1>3. CASE scan # Nothing /\ scan.full
  <2>0. /\ scan \in Job
        /\ scan.at \in {"walk", "work"} => session[scan.session].root = FirstOf(scan.todo)
        /\ scan.at \notin {"queued", "next"} => scan.todo # {}
    BY <1>3 DEF WfInv, WfTypes, JobSound, JobAccounts
  <2>1. CASE scan' = Nothing
    BY <2>1 DEF JobAccounts
  <2>2. CASE scan' # Nothing /\ (Steer \/ BeginScan \/ NextRoot)
    <3>1. session' = session
      BY <2>2 DEF Steer, BeginScan, NextRoot, catalog
    <3>2. \/ /\ \/ scan' = [scan EXCEPT !.pause = TRUE] \/ scan' = [scan EXCEPT !.stop = TRUE]
                \/ scan' = [scan EXCEPT !.pause = FALSE] \/ scan' = [scan EXCEPT !.halted = TRUE]
          \/ scan' = [scan EXCEPT !.at = "next"] \/ scan' = [scan EXCEPT !.at = "select"]
      BY <1>3, <2>2 DEF Steer, BeginScan, NextRoot, EndsScan
    <3>3. /\ scan'.given = scan.given /\ scan'.todo = scan.todo /\ scan'.made = scan.made
          /\ scan'.skipped = scan.skipped /\ scan'.worst = scan.worst
          /\ scan.halted => scan'.halted
          /\ scan'.session = scan.session
          /\ scan'.at = scan.at \/ scan'.at \in {"next", "select"}
      BY <2>0, <3>2 DEF Job
    <3>4. scan'.at \in {"walk", "work"} => session'[scan'.session].root = FirstOf(scan.todo)
      BY <2>0, <3>1, <3>3
    <3> QED BY <1>0, <1>3, <3>3, <3>4, AccountKept
  <2>3. CASE CatalogPathFails
    <3>1. AfterReport("fail") /\ scan.todo # {}
      BY <2>0, <2>3 DEF CatalogPathFails, At
    <3> QED BY <1>0, <1>3, <3>1, AccountGrows
  <2>4. CASE SelectSession /\ scan' # Nothing
    <3>1. PICK s \in Sessions, status \in {"running", "failed"} :
             LET row == SelectedRow(s, status) IN
             /\ Rewrites(s, row) /\ row.root = FirstOf(scan.todo)
             /\ \/ status = "failed" /\ EndsScan("failed")
                \/ scan' = [scan EXCEPT !.at = "walk", !.session = s]
      BY <1>3, <2>4, SelectWrites
    <3>2. scan' = [scan EXCEPT !.at = "walk", !.session = s]
      BY <2>4, <3>1 DEF EndsScan
    <3> DEFINE row == SelectedRow(s, status)
    <3>3. Rewrites(s, row) /\ row.root = FirstOf(scan.todo)
      BY <3>1
    <3> HIDE DEF row
    <3>4. session'[s].root = FirstOf(scan.todo)
      BY <3>3, RowRewritten
    <3>5. /\ scan'.given = scan.given /\ scan'.todo = scan.todo /\ scan'.made = scan.made
          /\ scan'.skipped = scan.skipped /\ scan'.worst = scan.worst
          /\ scan'.halted = scan.halted /\ scan'.session = s
      BY <2>0, <3>2 DEF Job
    <3> QED BY <1>0, <1>3, <3>4, <3>5, AccountKept
  <2>5. CASE Walk \/ Work
    <3>1. PICK row : Rewrites(scan.session, row) /\ scan.session \in Open
      BY <2>5, WalkWrites, WorkWrites
    <3>2. session'[scan.session] = row /\ row.root = session[scan.session].root
      <4>1. scan.session \in Used
        BY <3>1 DEF Open
      <4>2. row.root = session[scan.session].root
        BY <3>1, <4>1, NewIsUnused DEF Rewrites
      <4> QED BY <3>1, <4>2, RowRewritten
    <3>3. /\ scan' = scan \/ scan' = [scan EXCEPT !.at = "work"]
          /\ scan.at \in {"walk", "work"}
      BY <2>5 DEF Walk, Work, At
    <3>4. /\ scan'.given = scan.given /\ scan'.todo = scan.todo /\ scan'.made = scan.made
          /\ scan'.skipped = scan.skipped /\ scan'.worst = scan.worst
          /\ scan'.halted = scan.halted /\ scan'.session = scan.session
      BY <2>0, <3>3 DEF Job
    <3> QED BY <1>0, <1>3, <2>0, <3>2, <3>3, <3>4, AccountKept
  <2>6. CASE CommitRoot
    <3> DEFINE s == scan.session
               row == CommittedRow(s)
    <3>1. /\ Rewrites(s, row) /\ row.committed /\ row.left = session[s].left
          /\ row.errors = session[s].errors /\ s \in Open
      BY <2>6, CommitWrites
    <3>2. /\ scan.at = "work" /\ (session[s].left = 0 \/ scan.halted)
      BY <2>6 DEF CommitRoot, At, ThisSession
    <3>3. PICK status \in {"pass", "warn"} :
                  AfterReport(status) /\ (status = "pass" => ~session[s].errors)
      <4>1. AfterReport(IF session[s].errors \/ Overlap(rows) THEN "warn" ELSE "pass")
        BY <2>6 DEF CommitRoot, ThisSession
      <4> QED BY <4>1
    <3> HIDE DEF row
    <3>4. s \in Used' /\ session'[s] = row /\ row.root = session[s].root
      <4>1. s \in Used
        BY <3>1 DEF Open
      <4>2. row.root = session[s].root
        BY <3>1, <4>1, NewIsUnused DEF Rewrites
      <4> QED BY <3>1, <4>2, RowRewritten
    <3>5. session[s].root = FirstOf(scan.todo) /\ scan.todo # {}
      BY <2>0, <3>2
    <3> QED BY <1>0, <1>3, <3>1, <3>2, <3>3, <3>4, <3>5, AccountGrows
  <2>7. CASE RunComparison \/ UNCHANGED wfVars
    <3>1. session' = session /\ scan' = scan
      BY <2>7 DEF RunComparison, wfVars, catalog, control
    <3> QED BY <1>0, <1>3, <2>0, <3>1, AccountKept
  <2>8. CASE GetScanJob \/ ResumeScan \/ GetConsistencyJob
             \/ \E force \in BOOLEAN : StartScan(force) \/ StartConsistency(force)
    BY <1>3, <2>8 DEF GetScanJob, ResumeScan, GetConsistencyJob, StartScan, StartConsistency
  <2>9. CASE InterruptScan \/ ScanRaises \/ WfCrash
    BY <2>1, <2>9 DEF InterruptScan, ScanRaises, WfCrash, EndsScan
  <2> QED BY <2>1, <2>2, <2>3, <2>4, <2>5, <2>6, <2>7, <2>8, <2>9 DEF WfNext
<1> QED BY <1>1, <1>2, <1>3

\* And that of the last job that ended.
LEMMA EndAccountsStep ==
  ASSUME WfInv, JobAccounts, EndAccounts, [WfNext]_wfVars
  PROVE  EndAccounts'
<1>0. CommittedStay
  BY CommittedStep
<1>1. CASE latestScan' = latestScan
  <2> SUFFICES ASSUME latestScan # Nothing, latestScan.full,
                      latestScan.state \in {"completed", "partial"}
               PROVE  EndAccounts'
    BY <1>1 DEF EndAccounts
  <2>1. \A s \in latestScan.made : s \in Used /\ session[s].committed
    BY DEF EndAccounts
  <2>2. \A s \in latestScan.made : s \in Used' /\ session'[s] = session[s]
    BY <1>0, <2>1 DEF CommittedStay
  <2>3. {session'[s].root : s \in latestScan.made} = {session[s].root : s \in latestScan.made}
    BY <2>2
  <2> QED BY <1>1, <2>2, <2>3 DEF EndAccounts
<1>2. CASE latestScan' # latestScan
  <2>1. \/ NextRoot
        \/ BeginScan \/ CatalogPathFails \/ SelectSession \/ InterruptScan \/ ScanRaises
        \/ CommitRoot
    BY <1>2 DEF WfNext, wfVars, records, GetScanJob, Steer, ResumeScan, GetConsistencyJob,
                StartScan, StartConsistency, Walk, Work, RunComparison, WfCrash
  <2>2. CASE EndsScan(scan.worst) /\ scan.todo = {} /\ session' = session /\ scan # Nothing
    <3>1. Used' = Used
      BY <2>2 DEF Used
    <3>2. /\ latestScan'.full = scan.full /\ latestScan'.state = scan.worst
          /\ latestScan'.given = scan.given /\ latestScan'.made = scan.made
          /\ latestScan'.skipped = scan.skipped /\ latestScan'.halted = scan.halted
      BY <2>2 DEF EndsScan
    <3> QED BY <2>2, <3>1, <3>2 DEF JobAccounts, EndAccounts
  <2>3. CASE EndsScan("failed") \/ EndsScan("stopped") \/ EndsScan("paused")
    BY <2>3 DEF EndsScan, EndAccounts
  <2>4. CASE CatalogPathFails \/ CommitRoot
    <3>1. PICK status \in {"pass", "warn", "fail"} : AfterReport(status)
      BY <2>4 DEF CatalogPathFails, CommitRoot
    <3>2. ~latestScan'.full
      BY <1>2, <3>1 DEF AfterReport, EndsScan
    <3> QED BY <3>2 DEF EndAccounts
  <2>5. CASE NextRoot
    BY <1>2, <2>2, <2>3, <2>5 DEF NextRoot, At, catalog
  <2>6. CASE BeginScan \/ SelectSession \/ InterruptScan \/ ScanRaises
    <3>1. CASE BeginScan
      BY <1>2, <2>3, <3>1 DEF BeginScan
    <3>2. CASE SelectSession
      BY <1>2, <2>3, <3>2 DEF SelectSession
    <3>3. CASE InterruptScan
      BY <1>2, <2>3, <3>3 DEF InterruptScan
    <3>4. CASE ScanRaises
      BY <1>2, <2>3, <3>4 DEF ScanRaises
    <3> QED BY <2>6, <3>1, <3>2, <3>3, <3>4
  <2> QED BY <2>1, <2>4, <2>5, <2>6
<1> QED BY <1>1, <1>2

\* What _run_scan_job reports at its end: a completed or partial scan has committed a
\* session of each of its roots but those it could not begin, none is undone by a
\* later job, request or crash, and a completed one skipped none and counted no
\* error.
THEOREM CompletedScansWhole == WfSpec => []CompletedScanWhole
<1>1. WfInit => JobAccounts /\ EndAccounts
  BY DEF WfInit, JobAccounts, EndAccounts
<1>2. WfInv /\ JobAccounts /\ EndAccounts /\ [WfNext]_wfVars => (JobAccounts /\ EndAccounts)'
  BY JobAccountsStep, EndAccountsStep
<1>3. EndAccounts => CompletedScanWhole
  BY DEF EndAccounts, CompletedScanWhole
<1> QED BY <1>1, <1>2, <1>3, WfSpecInv, PTL DEF WfSpec
=============================================================================
