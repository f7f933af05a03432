--------------------------- MODULE Repairs_proofs ---------------------------
(***************************************************************************)
(* Proofs about Repairs for any number of callers, runs, files, assets and *)
(* points: modes are explained by journals and an undo restores them; what *)
(* an apply removed can be brought back and was not there; a finished run  *)
(* tells what its journal tells.                                           *)
(*                                                                         *)
(* Runs, modes and rows each have an invariant of their own.  They meet in *)
(* what callers hold and in the runs: a run is written by the one caller   *)
(* that works on it, so a run that is completed stays as it is.            *)
(***************************************************************************)
EXTENDS Repairs, FiniteSetTheorems, SequenceTheorems, TLAPS

(* What callers hold.                                                       *)

Selections == {Selected(flags, D) : flags \in FlagSets, D \in SUBSET Diagnostic}
Fixing == [flow : {"fix"}, run : Runs, todo : SUBSET Diagnostic, selected : Selections,
           item : Sources \cup {None}, file : Files \cup {None}, old : {None} \cup Modes,
           new : {None} \cup Modes, ok : BOOLEAN]
Undoing == [flow : {"undo"}, run : Runs, todo : SUBSET [at : Nat, entry : UndoEntry],
            item : Sources \cup {None}, file : Files \cup {None}, ok : BOOLEAN]
Working(flow, ids, todos) ==
    [flow : {flow}, run : ids, todo : SUBSET todos, asset : Assets \cup {None},
     links : SUBSET Link, point : Points \cup {None}, index : SUBSET Point,
     done : SUBSET EntryStatus]
Applying == Working("apply", Runs, Assets)
Bringing == Working("restore", Runs, Point)
Deleting == Working("delete", {None}, Points)
Collecting == Working("orphans", {None}, Link)
Memory == {None} \cup Fixing \cup Undoing \cup Applying \cup Bringing \cup Deleting \cup Collecting

FixSteps == {"fix_guard", "fix_snapshot", "fix_item", "fix_chmod", "fix_applied", "fix_failed"}
UndoSteps == {"undo_item", "undo_journal"}
DeleteSteps == {"delete_load", "delete_write"}
Pointed == {"point_load", "point_write", "remove_rows", "unpoint_load", "unpoint_write",
            "restored_load", "restored_write", "journal_applied", "journal_failed"}
Steps == {"idle", "orphans"} \cup FixSteps \cup UndoSteps \cup Removing \cup Restoring \cup DeleteSteps

\* What a caller holds fits the step it stands at.
Fitting(s, m) ==
    /\ s = "idle" => m = None
    /\ s \in FixSteps => m \in Fixing
    /\ s \in UndoSteps => m \in Undoing
    /\ s \in Removing \ Restoring => m \in Applying
    /\ s \in Restoring \ Removing => m \in Bringing
    /\ s \in Removing \cap Restoring => m \in Applying \cup Bringing
    /\ s \in DeleteSteps => m \in Deleting /\ m.todo # {}
    /\ s = "orphans" => m \in Collecting
    /\ s \in {"fix_chmod", "fix_applied", "fix_failed"} => m.item \in Sources /\ m.file = PathOf[m.item]
    /\ s = "fix_applied" => m.old \in Modes /\ m.new \in Modes
    /\ s = "undo_journal" => m.item \in Sources
    /\ s \in Pointed => m.asset \in Assets /\ m.point \in Points
    /\ s \in {"apply_item", "restore_item"} => m.asset = None /\ m.point = None

CallerTypes ==
    /\ pc \in [Callers -> Steps]
    /\ mem \in [Callers -> Memory]
    /\ \A c \in Callers : Fitting(pc[c], mem[c])

RunFiles == FixRun \cup UndoRun \cup RemoveRun \cup RestoreRun
StoreTypes ==
    /\ runs \in [Runs -> RunFiles \cup {None}]
    /\ journal \in [Runs -> Seq(PlainEntry \cup UndoEntry)]
ModeTypes ==
    /\ mode \in [Files -> {None} \cup Modes] /\ given \in [Files -> {None} \cup Modes]
    /\ candidates \subseteq Sources /\ blurred \subseteq Files
RowTypes ==
    /\ assetRows \subseteq Assets /\ albumRows \subseteq Albums /\ links \subseteq Link
    /\ present \subseteq Assets /\ index \subseteq Point
    /\ removed \in [Assets -> {None} \cup SUBSET Link]
    /\ dropped \subseteq Points /\ clashed \subseteq Assets /\ reapplied \subseteq Runs
Types == CallerTypes /\ StoreTypes /\ ModeTypes /\ RowTypes

-----------------------------------------------------------------------------
(* One caller moves.                                                        *)

\* No other caller is concerned.
Moves(c) ==
    /\ pc' = [pc EXCEPT ![c] = pc'[c]] /\ mem' = [mem EXCEPT ![c] = mem'[c]]

LEMMA GoHold ==
  ASSUME CallerTypes, NEW c \in Callers, NEW s, NEW m, Goes(c, s), Holds(c, m)
  PROVE  Moves(c) /\ pc'[c] = s /\ mem'[c] = m
  BY DEF CallerTypes, Goes, Holds, Moves

LEMMA GoOnly ==
  ASSUME CallerTypes, NEW c \in Callers, NEW s, Goes(c, s), UNCHANGED mem
  PROVE  Moves(c) /\ pc'[c] = s /\ mem'[c] = mem[c]
  BY DEF CallerTypes, Goes, Moves

LEMMA HoldOnly ==
  ASSUME CallerTypes, NEW c \in Callers, NEW m, Holds(c, m), UNCHANGED pc
  PROVE  Moves(c) /\ pc'[c] = pc[c] /\ mem'[c] = m
  BY DEF CallerTypes, Holds, Moves

LEMMA GoAway ==
  ASSUME CallerTypes, NEW c \in Callers, Leaves(c)
  PROVE  Moves(c) /\ pc'[c] = "idle" /\ mem'[c] = None
  BY GoHold DEF Leaves

LEMMA NoMove ==
  ASSUME CallerTypes, NEW c \in Callers, UNCHANGED <<pc, mem>>
  PROVE  Moves(c) /\ pc'[c] = pc[c] /\ mem'[c] = mem[c]
  BY DEF CallerTypes, Moves

LEMMA Others ==
  ASSUME CallerTypes, NEW c \in Callers, Moves(c)
  PROVE  \A d \in Callers : d # c => pc'[d] = pc[d] /\ mem'[d] = mem[d]
  BY DEF CallerTypes, Moves

LEMMA FittingIsMemory ==
  ASSUME NEW s \in Steps, NEW m, Fitting(s, m) PROVE m \in Memory
  BY DEF Steps, Fitting, Memory

LEMMA IdleFits == Fitting("idle", None)
  BY DEF Fitting, FixSteps, UndoSteps, Removing, Restoring, DeleteSteps, Pointed

\* A caller that moves to a step with what fits it.
LEMMA CallerStep ==
  ASSUME CallerTypes, NEW c \in Callers, Moves(c), pc'[c] \in Steps,
         Fitting(pc'[c], mem'[c])
  PROVE  CallerTypes'
<1>1. mem'[c] \in Memory
  BY FittingIsMemory
<1>2. pc' \in [Callers -> Steps] /\ mem' \in [Callers -> Memory]
  BY <1>1 DEF CallerTypes, Moves
<1>3. \A d \in Callers : Fitting(pc'[d], mem'[d])
  BY Others DEF CallerTypes
<1> QED
  BY <1>2, <1>3 DEF CallerTypes

-----------------------------------------------------------------------------
(* Runs and entries.                                                        *)

LEMMA KindFacts ==
    /\ \A run \in FixRun : run.kind = "fix"
    /\ \A run \in UndoRun : run.kind = "undo"
    /\ \A run \in RemoveRun : run.kind = "remove"
    /\ \A run \in RestoreRun : run.kind = "restore"
    /\ \A run \in RunFiles : run.status \in RunStatus
    /\ None \notin RunFiles
  BY NoRunAssumption DEF RunFiles, FixRun, UndoRun, RemoveRun, RestoreRun, RunOf

\* finish and update_run change the status and keep what the run is.
LEMMA RewriteFacts ==
  ASSUME NEW run \in RunFiles, NEW status \in RunStatus, NEW new,
         new = [run EXCEPT !.status = status]
  PROVE  /\ new \in RunFiles /\ new.status = status
         /\ new.kind = run.kind /\ new.scope = run.scope /\ new.token = run.token
         /\ run \in FixRun <=> new \in FixRun
         /\ run \in UndoRun <=> new \in UndoRun
         /\ run \in RemoveRun <=> new \in RemoveRun
         /\ run \in RestoreRun <=> new \in RestoreRun
<1>1. CASE run \in FixRun
  BY <1>1 DEF RunFiles, FixRun, UndoRun, RemoveRun, RestoreRun, RunOf
<1>2. CASE run \in UndoRun
  BY <1>2 DEF RunFiles, FixRun, UndoRun, RemoveRun, RestoreRun, RunOf
<1>3. CASE run \in RemoveRun
  BY <1>3 DEF RunFiles, FixRun, UndoRun, RemoveRun, RestoreRun, RunOf
<1>4. CASE run \in RestoreRun
  BY <1>4 DEF RunFiles, FixRun, UndoRun, RemoveRun, RestoreRun, RunOf
<1> QED
  BY <1>1, <1>2, <1>3, <1>4 DEF RunFiles

LEMMA FinalFacts ==
    \A done : /\ FinalStatus(done) \in {"completed", "partial", "failed"}
              /\ FinalStatus(done) = "completed" => "failed" \notin done
              /\ FinalStatus(done) = "failed" => "applied" \notin done
              /\ FinalStatus(done) = "partial" => {"applied", "failed"} \subseteq done
  BY DEF FinalStatus

\* An entry that is appended is the one that is new.
LEMMA AppendFacts ==
  ASSUME StoreTypes, NEW r \in Runs, NEW e \in PlainEntry \cup UndoEntry, Appends(r, e)
  PROVE  /\ journal' \in [Runs -> Seq(PlainEntry \cup UndoEntry)]
         /\ \A q \in Runs : q # r => journal'[q] = journal[q]
         /\ Entries(r)' = Entries(r) \cup {e}
         /\ ~e.undo => Undoable(r)' = Undoable(r)
<1> DEFINE old == journal[r]
           new == journal'[r]
<1>1. old \in Seq(PlainEntry \cup UndoEntry) /\ new = Append(old, e)
  BY DEF StoreTypes, Appends
<1>2. /\ journal' \in [Runs -> Seq(PlainEntry \cup UndoEntry)]
      /\ \A q \in Runs : q # r => journal'[q] = journal[q]
  BY <1>1 DEF StoreTypes, Appends
<1>3. /\ Len(old) \in Nat /\ DOMAIN old = 1 .. Len(old)
      /\ DOMAIN new = 1 .. Len(old) + 1
      /\ \A i \in 1 .. Len(old) : new[i] = old[i]
      /\ new[Len(old) + 1] = e
  BY <1>1
<1>4. DOMAIN new = DOMAIN old \cup {Len(old) + 1}
  BY <1>3
<1>5. \A i \in DOMAIN old : new[i] = old[i]
  BY <1>3
<1> HIDE DEF old, new
<1>6. {new[i] : i \in DOMAIN new} = {old[i] : i \in DOMAIN old} \cup {e}
  BY <1>3, <1>4, <1>5
<1>7. ~e.undo => {k \in DOMAIN new : new[k].undo} = {k \in DOMAIN old : old[k].undo}
  BY <1>3, <1>4, <1>5
<1>8. ~e.undo => {[at |-> i, entry |-> new[i]] : i \in {k \in DOMAIN new : new[k].undo}}
                 = {[at |-> i, entry |-> old[i]] : i \in {k \in DOMAIN old : old[k].undo}}
  <2>1. SUFFICES ASSUME ~e.undo
                 PROVE  \A i \in {k \in DOMAIN old : old[k].undo} : new[i] = old[i]
    BY <1>7
  <2> QED
    BY <1>5
<1> QED
  BY <1>2, <1>6, <1>8 DEF Entries, Undoable, old, new

LEMMA EntryFacts ==
  ASSUME StoreTypes, NEW r \in Runs
  PROVE  /\ Entries(r) \subseteq PlainEntry \cup UndoEntry
         /\ journal[r] = <<>> <=> Entries(r) = {}
         /\ Undoable(r) \subseteq [at : Nat, entry : UndoEntry]
         /\ \A x \in Undoable(r) : x.entry \in Entries(r) /\ x.entry.undo
         /\ \A e \in Entries(r) : e.undo => \E x \in Undoable(r) : x.entry = e
<1> DEFINE j == journal[r]
<1>1. j \in Seq(PlainEntry \cup UndoEntry)
  BY DEF StoreTypes
<1>2. /\ DOMAIN j \subseteq Nat /\ \A i \in DOMAIN j : j[i] \in PlainEntry \cup UndoEntry
      /\ j = <<>> <=> DOMAIN j = {}
  <2>1. DOMAIN j = 1 .. Len(j) /\ Len(j) \in Nat /\ (j = <<>> <=> Len(j) = 0)
    BY <1>1
  <2>2. \A i \in DOMAIN j : j[i] \in PlainEntry \cup UndoEntry
    BY <1>1, <2>1
  <2>3. DOMAIN j \subseteq Nat
    BY <2>1
  <2>4. DOMAIN j = {} <=> Len(j) = 0
    <3>1. Len(j) # 0 => 1 \in 1 .. Len(j)
      BY <2>1
    <3>2. Len(j) = 0 => 1 .. Len(j) = {}
      OBVIOUS
    <3> QED
      BY <2>1, <3>1, <3>2
  <2> QED
    BY <2>1, <2>2, <2>3, <2>4
<1>3. \A e \in PlainEntry \cup UndoEntry : e.undo => e \in UndoEntry
  BY DEF PlainEntry, UndoEntry
<1> HIDE DEF j
<1>4. {j[i] : i \in DOMAIN j} \subseteq PlainEntry \cup UndoEntry
      /\ (j = <<>> <=> {j[i] : i \in DOMAIN j} = {})
  BY <1>2
<1>5. {[at |-> i, entry |-> j[i]] : i \in {k \in DOMAIN j : j[k].undo}}
         \subseteq [at : Nat, entry : UndoEntry]
  BY <1>2, <1>3
<1>6. \A x \in {[at |-> i, entry |-> j[i]] : i \in {k \in DOMAIN j : j[k].undo}} :
         x.entry \in {j[i] : i \in DOMAIN j} /\ x.entry.undo
  BY <1>2
<1>7. ASSUME NEW i \in DOMAIN j, j[i].undo
      PROVE  \E x \in {[at |-> k, entry |-> j[k]] : k \in {k \in DOMAIN j : j[k].undo}} : x.entry = j[i]
  <2>1. [at |-> i, entry |-> j[i]] \in {[at |-> k, entry |-> j[k]] : k \in {k \in DOMAIN j : j[k].undo}}
    BY <1>7
  <2>2. [at |-> i, entry |-> j[i]].entry = j[i]
    OBVIOUS
  <2> QED
    BY <2>1, <2>2
<1>8. \A e \in {j[i] : i \in DOMAIN j} :
         e.undo => \E x \in {[at |-> k, entry |-> j[k]] : k \in {k \in DOMAIN j : j[k].undo}} : x.entry = e
  BY <1>7
<1> QED
  BY <1>4, <1>5, <1>6, <1>8 DEF Entries, Undoable, j

\* What the runs that changed files have of one of them.
LEMMA FixEntryFacts ==
    \A f : \A e : e \in FixEntries(f) <=>
        \E r \in Runs : /\ e \in Entries(r) /\ e.status = "applied" /\ e.undo
                        /\ PathOf[e.item] = f
  BY DEF FixEntries, Having

LEMMA PathFacts == \A s \in Sources : PathOf[s] \in Files
  BY DEF Files

LEMMA DiagnosticFacts ==
  ASSUME ModeTypes
  PROVE  /\ Diagnostics \subseteq Diagnostic
         /\ IsFiniteSet(Diagnostics)
<1>1. \A f \in Files : SourceStatus(f) \in ContentStatus \cup {"missing", "permission_denied"}
  BY ContentAssumption DEF SourceStatus
<1>2. Diagnostics \subseteq Diagnostic
  BY <1>1, PathFacts DEF Diagnostics, Diagnostic, ModeTypes
<1>3. IsFiniteSet(candidates)
  BY SourcesAssumption, FS_Subset DEF ModeTypes
<1> DEFINE About(s) == [source |-> s, cause |-> RootCause(SourceStatus(PathOf[s]))]
           of == [s \in candidates |-> About(s)]
<1>4. Diagnostics = {About(s) : s \in candidates}
  BY DEF Diagnostics
<1> HIDE DEF About
<1>5. of \in Surjection(candidates, Diagnostics)
  BY <1>4 DEF Surjection
<1>6. IsFiniteSet(Diagnostics)
  BY <1>3, <1>5, FS_Surjection
<1> QED
  BY <1>2, <1>6

-----------------------------------------------------------------------------
(* What the steps of the permission repair and the undo do.                 *)

\* A plan to apply gives its caller the run.
LEMMA PlanFixFacts ==
  ASSUME Types, NEW c \in Callers, NEW r \in Runs, NEW flags \in FlagSets,
         PlanFix(c, r, flags)
  PROVE  /\ Moves(c) /\ pc[c] = "idle" /\ pc'[c] = "fix_guard"
         /\ mem'[c].run = r /\ mem'[c].flow = "fix"
         /\ CallerTypes'
<1>1. /\ Moves(c) /\ pc[c] = "idle" /\ pc'[c] = "fix_guard"
      /\ mem'[c] = FixRecord(r, Diagnostics, Selected(flags, Diagnostics))
  BY GoHold DEF PlanFix, Types, Call
<1>2. mem'[c] \in Fixing /\ mem'[c].run = r /\ mem'[c].flow = "fix"
  <2>1. Diagnostics \subseteq Diagnostic
    BY DiagnosticFacts DEF Types
  <2>2. Selected(flags, Diagnostics) \in Selections
    BY <2>1 DEF Selections
  <2> QED
    BY <1>1, <2>1, <2>2 DEF FixRecord, Fixing
<1>3. Fitting("fix_guard", mem'[c])
  BY <1>2 DEF Fitting, FixSteps, UndoSteps, Removing, Restoring, DeleteSteps, Pointed
<1> QED
  BY <1>1, <1>2, <1>3, CallerStep DEF Types, Steps, FixSteps

\* A step that keeps what the caller holds.
LEMMA GuardFixFacts ==
  ASSUME Types, NEW c \in Callers, GuardFix(c)
  PROVE  /\ Moves(c) /\ pc[c] = "fix_guard" /\ mem[c] \in Fixing
         /\ \/ pc'[c] = "fix_snapshot" /\ mem'[c] = mem[c] /\ UNCHANGED runs
            \/ pc'[c] = "idle" /\ Finish(mem[c].run, "failed")
         /\ CallerTypes'
<1>1. pc[c] = "fix_guard" /\ mem[c] \in Fixing
  BY DEF GuardFix, Types, CallerTypes, Fitting, FixSteps
<1>2. CASE Goes(c, "fix_snapshot") /\ UNCHANGED <<runs, mem>>
  <2>1. Moves(c) /\ pc'[c] = "fix_snapshot" /\ mem'[c] = mem[c]
    BY <1>2, GoOnly DEF Types
  <2>2. Fitting("fix_snapshot", mem[c])
    BY <1>1 DEF Fitting, FixSteps, UndoSteps, Removing, Restoring, DeleteSteps, Pointed
  <2> QED
    BY <1>1, <1>2, <2>1, <2>2, CallerStep DEF Types, Steps, FixSteps
<1>3. CASE Finish(mem[c].run, "failed") /\ Leaves(c)
  <2>1. Moves(c) /\ pc'[c] = "idle" /\ mem'[c] = None
    BY <1>3, GoAway DEF Types
  <2> QED
    BY <1>1, <1>3, <2>1, CallerStep, IdleFits DEF Types, Steps
<1> QED
  BY <1>2, <1>3 DEF GuardFix

LEMMA SnapshotFixFacts ==
  ASSUME Types, NEW c \in Callers, SnapshotFix(c)
  PROVE  /\ Moves(c) /\ pc[c] = "fix_snapshot" /\ mem[c] \in Fixing
         /\ \/ /\ pc'[c] = "fix_item" /\ mem'[c].run = mem[c].run /\ mem'[c].flow = "fix"
               /\ runs' = [runs EXCEPT ![mem[c].run].snapshot = TRUE]
            \/ pc'[c] = "idle" /\ Finish(mem[c].run, "failed")
         /\ CallerTypes'
<1>1. pc[c] = "fix_snapshot" /\ mem[c] \in Fixing
  BY DEF SnapshotFix, Types, CallerTypes, Fitting, FixSteps
<1>2. CASE /\ runs' = [runs EXCEPT ![mem[c].run].snapshot = TRUE]
           /\ Goes(c, "fix_item") /\ UNCHANGED mem
  <2>1. Moves(c) /\ pc'[c] = "fix_item" /\ mem'[c] = mem[c]
    BY <1>2, GoOnly DEF Types
  <2>2. Fitting("fix_item", mem[c]) /\ mem[c].flow = "fix"
    BY <1>1 DEF Fitting, FixSteps, UndoSteps, Removing, Restoring, DeleteSteps, Pointed, Fixing
  <2> QED
    BY <1>1, <1>2, <2>1, <2>2, CallerStep DEF Types, Steps, FixSteps
<1>3. CASE Finish(mem[c].run, "failed") /\ Leaves(c)
  <2>1. Moves(c) /\ pc'[c] = "idle" /\ mem'[c] = None
    BY <1>3, GoAway DEF Types
  <2> QED
    BY <1>1, <1>3, <2>1, CallerStep, IdleFits DEF Types, Steps
<1> QED
  BY <1>2, <1>3 DEF SnapshotFix

\* A diagnostic that is skipped is journaled without an undo.
LEMMA SkipItemFacts ==
  ASSUME Types, NEW c \in Callers, SkipItem(c)
  PROVE  /\ Moves(c) /\ pc[c] = "fix_item" /\ pc'[c] = "fix_item" /\ mem[c] \in Fixing
         /\ mem'[c].run = mem[c].run /\ mem'[c].flow = "fix"
         /\ \E e \in PlainEntry : e.status = "skipped" /\ ~e.undo /\ Appends(mem[c].run, e)
         /\ CallerTypes'
<1>1. pc[c] = "fix_item" /\ mem[c] \in Fixing
  BY DEF SkipItem, Types, CallerTypes, Fitting, FixSteps
<1>2. PICK d \in mem[c].todo :
         /\ Appends(mem[c].run, Entry(d.source, "skipped", FALSE, None, None))
         /\ Holds(c, [mem[c] EXCEPT !.todo = @ \ {d}])
  BY DEF SkipItem
<1>3. /\ Moves(c) /\ pc'[c] = "fix_item"
      /\ mem'[c] = [mem[c] EXCEPT !.todo = @ \ {d}]
  BY <1>1, <1>2, HoldOnly DEF SkipItem, Types
<1>4. mem'[c] \in Fixing /\ mem'[c].run = mem[c].run /\ mem'[c].flow = "fix"
  BY <1>1, <1>3 DEF Fixing
<1>5. Entry(d.source, "skipped", FALSE, None, None) \in PlainEntry
  BY <1>1, <1>2 DEF Entry, PlainEntry, Fixing, Diagnostic, EntryStatus
<1>6. Fitting("fix_item", mem'[c])
  BY <1>4 DEF Fitting, FixSteps, UndoSteps, Removing, Restoring, DeleteSteps, Pointed
<1>7. CallerTypes'
  BY <1>3, <1>6, CallerStep DEF Types, Steps, FixSteps
<1>8. /\ Entry(d.source, "skipped", FALSE, None, None).status = "skipped"
      /\ ~Entry(d.source, "skipped", FALSE, None, None).undo
  BY DEF Entry
<1> QED
  BY <1>1, <1>2, <1>3, <1>4, <1>5, <1>7, <1>8

\* The mode is read.
LEMMA StatItemFacts ==
  ASSUME Types, NEW c \in Callers, StatItem(c)
  PROVE  /\ Moves(c) /\ pc[c] = "fix_item" /\ pc'[c] = "fix_chmod" /\ mem[c] \in Fixing
         /\ mem'[c].run = mem[c].run /\ mem'[c].flow = "fix"
         /\ mem'[c].file \in Files /\ mem'[c].old = mode[mem'[c].file]
         /\ CallerTypes'
<1>1. pc[c] = "fix_item" /\ mem[c] \in Fixing
  BY DEF StatItem, Types, CallerTypes, Fitting, FixSteps
<1>2. PICK d \in mem[c].todo :
         Holds(c, [mem[c] EXCEPT !.todo = @ \ {d}, !.item = d.source, !.file = PathOf[d.source],
                                 !.old = mode[PathOf[d.source]]])
  BY DEF StatItem
<1>3. /\ Moves(c) /\ pc'[c] = "fix_chmod"
      /\ mem'[c] = [mem[c] EXCEPT !.todo = @ \ {d}, !.item = d.source, !.file = PathOf[d.source],
                                  !.old = mode[PathOf[d.source]]]
  BY <1>2, GoHold DEF StatItem, Types
<1>4. d.source \in Sources /\ PathOf[d.source] \in Files /\ mode[PathOf[d.source]] \in {None} \cup Modes
  BY <1>1, <1>2, PathFacts DEF Fixing, Diagnostic, Types, ModeTypes
<1>5. /\ mem'[c] \in Fixing /\ mem'[c].run = mem[c].run /\ mem'[c].flow = "fix"
      /\ mem'[c].item = d.source /\ mem'[c].file = PathOf[d.source]
      /\ mem'[c].old = mode[PathOf[d.source]]
  <2>1. PICK old \in {None} \cup Modes : old = mode[PathOf[d.source]]
    BY <1>4
  <2>2. PICK f \in Files : f = PathOf[d.source]
    BY <1>4
  <2> DEFINE some == [mem[c] EXCEPT !.todo = @ \ {d}]
  <2>3. some \in Fixing /\ some.run = mem[c].run
    BY <1>1 DEF Fixing
  <2>4. mem'[c] = [some EXCEPT !.item = d.source, !.file = f, !.old = old]
    BY <1>3, <2>1, <2>2
  <2> HIDE DEF some
  <2>5. /\ mem'[c] \in Fixing /\ mem'[c].run = mem[c].run /\ mem'[c].flow = "fix"
        /\ mem'[c].item = d.source /\ mem'[c].file = f /\ mem'[c].old = old
    BY <1>4, <2>3, <2>4 DEF Fixing
  <2> QED
    BY <2>1, <2>2, <2>5
<1>6. Fitting("fix_chmod", mem'[c])
  BY <1>4, <1>5 DEF Fitting, FixSteps, UndoSteps, Removing, Restoring, DeleteSteps, Pointed
<1> QED
  BY <1>1, <1>3, <1>4, <1>5, <1>6, CallerStep DEF Types, Steps, FixSteps

\* Read access is granted, or not.
LEMMA ChmodItemFacts ==
  ASSUME Types, NEW c \in Callers, ChmodItem(c)
  PROVE  /\ Moves(c) /\ pc[c] = "fix_chmod" /\ mem[c] \in Fixing
         /\ mem[c].item \in Sources /\ mem[c].file = PathOf[mem[c].item]
         /\ mem'[c].run = mem[c].run /\ mem'[c].flow = "fix"
         /\ mem'[c].file = mem[c].file /\ mem'[c].old = mem[c].old
         /\ \/ /\ pc'[c] = "fix_applied" /\ mem[c].old # None /\ mode[mem[c].file] # None
               /\ mem'[c].new = mode[mem[c].file] \cup {"r"}
               /\ mode' = [mode EXCEPT ![mem[c].file] = @ \cup {"r"}]
            \/ pc'[c] = "fix_failed" /\ UNCHANGED mode
         /\ CallerTypes'
<1> DEFINE f == mem[c].file
<1>1. /\ pc[c] = "fix_chmod" /\ mem[c] \in Fixing
      /\ mem[c].item \in Sources /\ f = PathOf[mem[c].item] /\ f \in Files
  BY PathFacts DEF ChmodItem, Types, CallerTypes, Fitting, FixSteps
<1>2. CASE /\ mem[c].old # None /\ mode[f] # None
           /\ mode' = [mode EXCEPT ![f] = @ \cup {"r"}]
           /\ Holds(c, [mem[c] EXCEPT !.new = mode'[f]])
           /\ Goes(c, "fix_applied")
  <2>1. /\ Moves(c) /\ pc'[c] = "fix_applied" /\ mem'[c] = [mem[c] EXCEPT !.new = mode'[f]]
    BY <1>2, GoHold DEF Types
  <2>2. mode'[f] = mode[f] \cup {"r"} /\ mode'[f] \in Modes
    BY <1>1, <1>2 DEF Types, ModeTypes, Modes
  <2>3. /\ mem'[c] \in Fixing /\ mem'[c].run = mem[c].run /\ mem'[c].flow = "fix"
        /\ mem'[c].item = mem[c].item /\ mem'[c].file = f /\ mem'[c].old = mem[c].old
        /\ mem'[c].new = mode'[f] /\ mem[c].old \in Modes
    BY <1>1, <1>2, <2>1, <2>2 DEF Fixing
  <2>4. Fitting("fix_applied", mem'[c])
    BY <1>1, <2>2, <2>3
    DEF Fitting, FixSteps, UndoSteps, Removing, Restoring, DeleteSteps, Pointed
  <2> QED
    BY <1>1, <1>2, <2>1, <2>2, <2>3, <2>4, CallerStep DEF Types, Steps, FixSteps
<1>3. CASE UNCHANGED <<mode, mem>> /\ Goes(c, "fix_failed")
  <2>1. Moves(c) /\ pc'[c] = "fix_failed" /\ mem'[c] = mem[c]
    BY <1>3, GoOnly DEF Types
  <2>2. Fitting("fix_failed", mem[c]) /\ mem[c].flow = "fix"
    BY <1>1 DEF Fitting, FixSteps, UndoSteps, Removing, Restoring, DeleteSteps, Pointed, Fixing
  <2> QED
    BY <1>1, <1>3, <2>1, <2>2, CallerStep DEF Types, Steps, FixSteps
<1> QED
  BY <1>2, <1>3 DEF ChmodItem

\* What was done is journaled, with the undo if the mode was changed.
LEMMA JournalItemFacts ==
  ASSUME Types, NEW c \in Callers, JournalItem(c)
  PROVE  /\ Moves(c) /\ pc[c] \in {"fix_applied", "fix_failed"} /\ pc'[c] = "fix_item"
         /\ mem[c] \in Fixing /\ mem[c].item \in Sources /\ mem[c].file = PathOf[mem[c].item]
         /\ mem'[c].run = mem[c].run /\ mem'[c].flow = "fix"
         /\ \/ /\ pc[c] = "fix_applied"
               /\ \E e \in UndoEntry :
                     /\ Appends(mem[c].run, e) /\ PathOf[e.item] = mem[c].file
                     /\ e.old = mem[c].old /\ e.new = mem[c].new
            \/ /\ pc[c] = "fix_failed"
               /\ \E e \in PlainEntry : ~e.undo /\ Appends(mem[c].run, e)
         /\ CallerTypes'
<1>1. /\ pc[c] \in {"fix_applied", "fix_failed"} /\ mem[c] \in Fixing
      /\ mem[c].item \in Sources /\ mem[c].file = PathOf[mem[c].item]
      /\ pc[c] = "fix_applied" => mem[c].old \in Modes /\ mem[c].new \in Modes
  BY DEF JournalItem, Types, CallerTypes, Fitting, FixSteps
<1>2. /\ Moves(c) /\ pc'[c] = "fix_item"
      /\ mem'[c] = [mem[c] EXCEPT !.item = None, !.file = None, !.old = None, !.new = None]
  BY GoHold DEF JournalItem, Types
<1>3. mem'[c] \in Fixing /\ mem'[c].run = mem[c].run /\ mem'[c].flow = "fix"
  BY <1>1, <1>2 DEF Fixing
<1>4. Fitting("fix_item", mem'[c])
  BY <1>3 DEF Fitting, FixSteps, UndoSteps, Removing, Restoring, DeleteSteps, Pointed
<1>5. CASE pc[c] = "fix_applied"
  <2> DEFINE e == Entry(mem[c].item, "applied", TRUE, mem[c].old, mem[c].new)
  <2>1. Appends(mem[c].run, e)
    BY <1>5 DEF JournalItem, RecordedUndo
  <2>2. /\ e \in UndoEntry /\ PathOf[e.item] = mem[c].file
        /\ e.old = mem[c].old /\ e.new = mem[c].new
    BY <1>1, <1>5 DEF Entry, UndoEntry
  <2> QED
    BY <1>1, <1>2, <1>3, <1>4, <1>5, <2>1, <2>2, CallerStep DEF Types, Steps, FixSteps
<1>6. CASE pc[c] = "fix_failed"
  <2> DEFINE e == Entry(mem[c].item, "failed", FALSE, None, None)
  <2>1. Appends(mem[c].run, e)
    BY <1>6 DEF JournalItem
  <2>2. e \in PlainEntry /\ ~e.undo
    BY <1>1 DEF Entry, PlainEntry, EntryStatus
  <2> QED
    BY <1>1, <1>2, <1>3, <1>4, <1>6, <2>1, <2>2, CallerStep DEF Types, Steps, FixSteps
<1> QED
  BY <1>1, <1>5, <1>6

LEMMA FinishFixFacts ==
  ASSUME Types, NEW c \in Callers, FinishFix(c)
  PROVE  /\ Moves(c) /\ pc[c] = "fix_item" /\ pc'[c] = "idle" /\ mem[c] \in Fixing
         /\ Finish(mem[c].run, FinalStatus({e.status : e \in Entries(mem[c].run)}))
         /\ CallerTypes'
<1>1. pc[c] = "fix_item" /\ mem[c] \in Fixing
  BY DEF FinishFix, Types, CallerTypes, Fitting, FixSteps
<1>2. Moves(c) /\ pc'[c] = "idle" /\ mem'[c] = None
  BY GoAway DEF FinishFix, Types
<1> QED
  BY <1>1, <1>2, CallerStep, IdleFits DEF FinishFix, Types, Steps

\* An undo takes all entries of the run that have one.
LEMMA StartUndoFacts ==
  ASSUME Types, NEW c \in Callers, NEW r \in Runs, NEW u \in Runs, StartUndo(c, r, u)
  PROVE  /\ Moves(c) /\ pc[c] = "idle" /\ pc'[c] = "undo_item"
         /\ mem'[c].run = u /\ mem'[c].flow = "undo" /\ mem'[c].todo = Undoable(r)
         /\ CallerTypes'
<1>1. /\ Moves(c) /\ pc[c] = "idle" /\ pc'[c] = "undo_item"
      /\ mem'[c] = [flow |-> "undo", run |-> u, todo |-> Undoable(r), item |-> None,
                    file |-> None, ok |-> TRUE]
  BY GoHold DEF StartUndo, Types, Call
<1>2. Undoable(r) \in SUBSET [at : Nat, entry : UndoEntry]
  BY EntryFacts DEF Types
<1>3. /\ mem'[c] \in Undoing /\ mem'[c].run = u /\ mem'[c].flow = "undo"
      /\ mem'[c].todo = Undoable(r)
  BY <1>1, <1>2 DEF Undoing
<1>4. Fitting("undo_item", mem'[c])
  BY <1>3 DEF Fitting, FixSteps, UndoSteps, Removing, Restoring, DeleteSteps, Pointed
<1> QED
  BY <1>1, <1>3, <1>4, CallerStep DEF Types, Steps, UndoSteps

\* An entry is taken, and the mode set, or not.
LEMMA ChmodUndoFacts ==
  ASSUME Types, NEW c \in Callers, ChmodUndo(c)
  PROVE  /\ Moves(c) /\ pc[c] = "undo_item" /\ pc'[c] = "undo_journal" /\ mem[c] \in Undoing
         /\ mem'[c].run = mem[c].run /\ mem'[c].flow = "undo"
         /\ \E x \in mem[c].todo :
               /\ mem'[c].todo = mem[c].todo \ {x}
               /\ x.entry \in UndoEntry /\ PathOf[x.entry.item] \in Files
               /\ \/ /\ mem'[c].ok /\ mode[PathOf[x.entry.item]] # None
                     /\ mode' = [mode EXCEPT ![PathOf[x.entry.item]] = x.entry.old]
                  \/ ~mem'[c].ok /\ UNCHANGED mode
         /\ CallerTypes'
<1>1. pc[c] = "undo_item" /\ mem[c] \in Undoing
  BY DEF ChmodUndo, Types, CallerTypes, Fitting, UndoSteps
<1>2. PICK x \in mem[c].todo, ok \in BOOLEAN :
         /\ ok => mode[PathOf[x.entry.item]] # None
         /\ mode' = IF ok THEN [mode EXCEPT ![PathOf[x.entry.item]] = x.entry.old] ELSE mode
         /\ Holds(c, [mem[c] EXCEPT !.file = PathOf[x.entry.item], !.item = x.entry.item,
                                    !.ok = ok, !.todo = @ \ {x}])
  BY DEF ChmodUndo
<1>3. /\ Moves(c) /\ pc'[c] = "undo_journal"
      /\ mem'[c] = [mem[c] EXCEPT !.file = PathOf[x.entry.item], !.item = x.entry.item,
                                  !.ok = ok, !.todo = @ \ {x}]
  BY <1>2, GoHold DEF ChmodUndo, Types
<1>4. x.entry \in UndoEntry /\ x.entry.item \in Sources /\ PathOf[x.entry.item] \in Files
  BY <1>1, <1>2, PathFacts DEF Undoing, UndoEntry
<1>5. /\ mem'[c] \in Undoing /\ mem'[c].run = mem[c].run /\ mem'[c].flow = "undo"
      /\ mem'[c].item \in Sources /\ mem'[c].ok = ok /\ mem'[c].todo = mem[c].todo \ {x}
  <2> DEFINE some == [mem[c] EXCEPT !.todo = @ \ {x}]
  <2>1. some \in Undoing /\ some.run = mem[c].run /\ some.todo = mem[c].todo \ {x}
    BY <1>1 DEF Undoing
  <2>2. PICK f \in Files : f = PathOf[x.entry.item]
    BY <1>4
  <2>3. PICK s \in Sources : s = x.entry.item
    BY <1>4
  <2>4. mem'[c] = [some EXCEPT !.file = f, !.item = s, !.ok = ok]
    BY <1>1, <1>3, <2>2, <2>3 DEF Undoing
  <2> HIDE DEF some
  <2> QED
    BY <2>1, <2>2, <2>3, <2>4 DEF Undoing
<1>6. Fitting("undo_journal", mem'[c])
  BY <1>5 DEF Fitting, FixSteps, UndoSteps, Removing, Restoring, DeleteSteps, Pointed
<1>7. CallerTypes'
  BY <1>3, <1>6, CallerStep DEF Types, Steps, UndoSteps
<1> QED
  BY <1>1, <1>2, <1>3, <1>4, <1>5, <1>7

LEMMA JournalUndoFacts ==
  ASSUME Types, NEW c \in Callers, JournalUndo(c)
  PROVE  /\ Moves(c) /\ pc[c] = "undo_journal" /\ pc'[c] = "undo_item" /\ mem[c] \in Undoing
         /\ mem'[c].run = mem[c].run /\ mem'[c].flow = "undo" /\ mem'[c].todo = mem[c].todo
         /\ \E e \in PlainEntry :
               /\ ~e.undo /\ Appends(mem[c].run, e)
               /\ e.status = IF mem[c].ok THEN "applied" ELSE "failed"
         /\ CallerTypes'
<1>1. pc[c] = "undo_journal" /\ mem[c] \in Undoing /\ mem[c].item \in Sources
  BY DEF JournalUndo, Types, CallerTypes, Fitting, UndoSteps
<1>2. /\ Moves(c) /\ pc'[c] = "undo_item"
      /\ mem'[c] = [mem[c] EXCEPT !.item = None, !.file = None]
  BY GoHold DEF JournalUndo, Types
<1>3. /\ mem'[c] \in Undoing /\ mem'[c].run = mem[c].run /\ mem'[c].flow = "undo"
      /\ mem'[c].todo = mem[c].todo
  BY <1>1, <1>2 DEF Undoing
<1>4. Fitting("undo_item", mem'[c])
  BY <1>3 DEF Fitting, FixSteps, UndoSteps, Removing, Restoring, DeleteSteps, Pointed
<1> DEFINE e == Entry(mem[c].item, IF mem[c].ok THEN "applied" ELSE "failed", FALSE, None, None)
<1>5. Appends(mem[c].run, e)
  BY DEF JournalUndo
<1>6. e \in PlainEntry /\ ~e.undo /\ e.status = IF mem[c].ok THEN "applied" ELSE "failed"
  BY <1>1 DEF Entry, PlainEntry, EntryStatus
<1> QED
  BY <1>1, <1>2, <1>3, <1>4, <1>5, <1>6, CallerStep DEF Types, Steps, UndoSteps

LEMMA FinishUndoFacts ==
  ASSUME Types, NEW c \in Callers, FinishUndo(c)
  PROVE  /\ Moves(c) /\ pc[c] = "undo_item" /\ pc'[c] = "idle" /\ mem[c] \in Undoing
         /\ mem[c].todo = {}
         /\ Finish(mem[c].run, FinalStatus({e.status : e \in Entries(mem[c].run)}))
         /\ CallerTypes'
<1>1. pc[c] = "undo_item" /\ mem[c] \in Undoing
  BY DEF FinishUndo, Types, CallerTypes, Fitting, UndoSteps
<1>2. Moves(c) /\ pc'[c] = "idle" /\ mem'[c] = None
  BY GoAway DEF FinishUndo, Types
<1> QED
  BY <1>1, <1>2, CallerStep, IdleFits DEF FinishUndo, Types, Steps

-----------------------------------------------------------------------------
(* What the steps of the missing-asset workflow do.                         *)

\* A caller at a step of apply or restore holds their record.
LEMMA WorkFacts ==
  ASSUME Types, NEW c \in Callers
  PROVE  /\ pc[c] \in Removing \ Restoring => mem[c] \in Applying
         /\ pc[c] \in Restoring \ Removing => mem[c] \in Bringing
         /\ pc[c] \in {"journal_applied", "journal_failed"} => mem[c] \in Applying \cup Bringing
         /\ pc[c] \in DeleteSteps => mem[c] \in Deleting /\ mem[c].todo # {}
         /\ pc[c] = "orphans" => mem[c] \in Collecting
         /\ pc[c] \in Pointed => mem[c].asset \in Assets /\ mem[c].point \in Points
         /\ pc[c] \in {"apply_item", "restore_item"} => mem[c].asset = None /\ mem[c].point = None
  BY DEF Types, CallerTypes, Fitting, Removing, Restoring

LEMMA FlowFacts ==
    /\ \A m \in Applying : m.flow = "apply" /\ m.run \in Runs /\ m.todo \subseteq Assets
    /\ \A m \in Bringing : m.flow = "restore" /\ m.run \in Runs /\ m.todo \subseteq Point
    /\ \A m \in Deleting : m.flow = "delete" /\ m.todo \subseteq Points
    /\ \A m \in Collecting : m.flow = "orphans" /\ m.todo \subseteq Link
    /\ \A m \in Fixing : m.flow = "fix" /\ m.run \in Runs
    /\ \A m \in Undoing : m.flow = "undo" /\ m.run \in Runs
  BY DEF Applying, Bringing, Deleting, Collecting, Working, Fixing, Undoing

LEMMA IdleFacts ==
  ASSUME NEW flow, NEW run, NEW todo, NEW m,
         m = [Idle EXCEPT !.flow = flow, !.run = run, !.todo = todo]
  PROVE  m = [flow |-> flow, run |-> run, todo |-> todo, asset |-> None, links |-> {},
              point |-> None, index |-> {}, done |-> {}]
  BY DEF Idle

\* An apply begins with the scope of its run.
LEMMA StartApplyFacts ==
  ASSUME Types, NEW c \in Callers, NEW r \in Runs, runs[r] \in RemoveRun, StartApply(c, r)
  PROVE  /\ Moves(c) /\ pc[c] = "idle"
         /\ \/ /\ runs[r].token = InScope(Findings, runs[r].scope)
               /\ Finish(r, "running") /\ pc'[c] = "apply_item"
               /\ mem'[c].run = r /\ mem'[c].flow = "apply" /\ mem'[c].todo = runs[r].scope
               /\ mem'[c].asset = None /\ mem'[c].point = None /\ mem'[c].done = {}
            \/ Finish(r, "failed") /\ pc'[c] = "idle" /\ mem'[c] = mem[c]
         /\ CallerTypes'
<1>1. pc[c] = "idle"
  BY DEF StartApply, Call
<1>2. CASE /\ GuardValid(runs[r].token, ApplyToken(runs[r].token, Findings, runs[r].scope))
           /\ Finish(r, "running")
           /\ Holds(c, [Idle EXCEPT !.flow = "apply", !.run = r, !.todo = runs[r].scope])
           /\ Goes(c, "apply_item")
  <2>1. runs[r].token = InScope(Findings, runs[r].scope)
    BY <1>2 DEF GuardValid, ApplyToken
  <2>2. /\ Moves(c) /\ pc'[c] = "apply_item"
        /\ mem'[c] = [flow |-> "apply", run |-> r, todo |-> runs[r].scope, asset |-> None,
                      links |-> {}, point |-> None, index |-> {}, done |-> {}]
    <3>1. /\ Moves(c) /\ pc'[c] = "apply_item"
          /\ mem'[c] = [Idle EXCEPT !.flow = "apply", !.run = r, !.todo = runs[r].scope]
      BY <1>2, GoHold DEF Types
    <3> QED
      BY <3>1, IdleFacts
  <2>3. runs[r].scope \subseteq Assets
    BY DEF RemoveRun, RunOf
  <2>4. mem'[c] \in Applying
    BY <2>2, <2>3 DEF Applying, Working
  <2>5. Fitting("apply_item", mem'[c])
    BY <2>2, <2>4 DEF Fitting, FixSteps, UndoSteps, Removing, Restoring, DeleteSteps, Pointed
  <2> QED
    BY <1>1, <1>2, <2>1, <2>2, <2>5, CallerStep DEF Types, Steps, Removing
<1>3. CASE Finish(r, "failed") /\ UNCHANGED <<pc, mem>>
  BY <1>1, <1>3, NoMove DEF Types, CallerTypes
<1> QED
  BY <1>2, <1>3 DEF StartApply

LEMMA StartRestoreFacts ==
  ASSUME Types, NEW c \in Callers, NEW r \in Runs, NEW ids, StartRestore(c, r, ids)
  PROVE  /\ Moves(c) /\ pc[c] = "idle" /\ pc'[c] = "restore_item"
         /\ mem'[c].run = r /\ mem'[c].flow = "restore"
         /\ mem'[c].todo = {p \in index : p.id \in ids}
         /\ mem'[c].asset = None /\ mem'[c].point = None /\ mem'[c].done = {}
         /\ CallerTypes'
<1> DEFINE todo == {p \in index : p.id \in ids}
<1>1. /\ Moves(c) /\ pc[c] = "idle" /\ pc'[c] = "restore_item"
      /\ mem'[c] = [flow |-> "restore", run |-> r, todo |-> todo, asset |-> None,
                    links |-> {}, point |-> None, index |-> {}, done |-> {}]
  <2>1. /\ Moves(c) /\ pc[c] = "idle" /\ pc'[c] = "restore_item"
        /\ mem'[c] = [Idle EXCEPT !.flow = "restore", !.run = r, !.todo = todo]
    BY GoHold DEF StartRestore, Types, Call
  <2> HIDE DEF todo
  <2>2. mem'[c] = [flow |-> "restore", run |-> r, todo |-> todo, asset |-> None,
                   links |-> {}, point |-> None, index |-> {}, done |-> {}]
    BY <2>1 DEF Idle
  <2> QED
    BY <2>1, <2>2
<1>2. todo \subseteq Point
  BY DEF Types, RowTypes
<1> HIDE DEF todo
<1>3. mem'[c] \in Bringing
  BY <1>1, <1>2 DEF Bringing, Working
<1>4. Fitting("restore_item", mem'[c])
  BY <1>1, <1>3 DEF Fitting, FixSteps, UndoSteps, Removing, Restoring, DeleteSteps, Pointed
<1> QED
  BY <1>1, <1>4, CallerStep DEF Types, Steps, Restoring, todo

\* Deletions, of points and of orphans.
LEMMA DeletePointsFacts ==
  ASSUME Types, NEW c \in Callers, NEW ids \in (SUBSET Points) \ {{}}, DeletePoints(c, ids)
  PROVE  Moves(c) /\ pc[c] = "idle" /\ pc'[c] = "delete_load" /\ CallerTypes'
<1>1. /\ Moves(c) /\ pc[c] = "idle" /\ pc'[c] = "delete_load"
      /\ mem'[c] = [Idle EXCEPT !.flow = "delete", !.todo = ids]
  BY GoHold DEF DeletePoints, Types, Call
<1>2. mem'[c] \in Deleting /\ mem'[c].todo # {}
  <2>1. mem'[c].todo = ids
    BY <1>1 DEF Idle
  <2>2. mem'[c] \in Deleting
    BY <1>1 DEF Deleting, Working, Idle
  <2> QED
    BY <2>1, <2>2
<1>3. Fitting("delete_load", mem'[c])
  BY <1>2 DEF Fitting, FixSteps, UndoSteps, Removing, Restoring, DeleteSteps, Pointed
<1> QED
  BY <1>1, <1>3, CallerStep DEF Types, Steps, DeleteSteps

LEMMA CollectOrphansFacts ==
  ASSUME Types, NEW c \in Callers, CollectOrphans(c)
  PROVE  Moves(c) /\ pc[c] = "idle" /\ pc'[c] = "orphans" /\ CallerTypes'
<1>1. /\ Moves(c) /\ pc[c] = "idle" /\ pc'[c] = "orphans"
      /\ mem'[c] = [Idle EXCEPT !.flow = "orphans", !.todo = Orphans]
  BY GoHold DEF CollectOrphans, Types, Call
<1>2. Orphans \subseteq Link
  BY DEF Orphans, Types, RowTypes
<1>3. mem'[c] \in Collecting
  BY <1>1, <1>2 DEF Collecting, Working, Idle
<1>4. Fitting("orphans", mem'[c])
  BY <1>3 DEF Fitting, FixSteps, UndoSteps, Removing, Restoring, DeleteSteps, Pointed
<1> QED
  BY <1>1, <1>4, CallerStep DEF Types, Steps

LEMMA DeleteOrphanFacts ==
  ASSUME Types, NEW c \in Callers, DeleteOrphan(c)
  PROVE  /\ Moves(c) /\ pc[c] = "orphans" /\ pc'[c] \in {"orphans", "idle"}
         /\ links' \subseteq links
         /\ CallerTypes'
<1>1. pc[c] = "orphans" /\ mem[c] \in Collecting
  BY WorkFacts DEF DeleteOrphan
<1>2. PICK l \in mem[c].todo :
         /\ links' = IF StillOrphan(l) THEN links \ {l} ELSE links
         /\ IF mem[c].todo = {l} THEN Leaves(c)
            ELSE Holds(c, [mem[c] EXCEPT !.todo = @ \ {l}]) /\ UNCHANGED pc
  BY DEF DeleteOrphan
<1>3. CASE mem[c].todo = {l}
  <2>1. Moves(c) /\ pc'[c] = "idle" /\ mem'[c] = None
    BY <1>2, <1>3, GoAway DEF Types
  <2> QED
    BY <1>1, <1>2, <2>1, CallerStep, IdleFits DEF Types, Steps
<1>4. CASE mem[c].todo # {l}
  <2>1. /\ Moves(c) /\ pc'[c] = "orphans" /\ mem'[c] = [mem[c] EXCEPT !.todo = @ \ {l}]
    BY <1>1, <1>2, <1>4, HoldOnly DEF Types
  <2>2. mem'[c] \in Collecting
    BY <1>1, <2>1 DEF Collecting, Working
  <2>3. Fitting("orphans", mem'[c])
    BY <2>2 DEF Fitting, FixSteps, UndoSteps, Removing, Restoring, DeleteSteps, Pointed
  <2> QED
    BY <1>1, <1>2, <2>1, <2>3, CallerStep DEF Types, Steps
<1> QED
  BY <1>3, <1>4

LEMMA AlreadyRemovedFacts ==
  ASSUME Types, NEW c \in Callers, AlreadyRemoved(c)
  PROVE  /\ Moves(c) /\ pc[c] = "apply_item" /\ pc'[c] = "apply_item" /\ mem[c] \in Applying
         /\ mem'[c].run = mem[c].run /\ mem'[c].flow = "apply"
         /\ mem'[c].todo \subseteq mem[c].todo
         /\ mem'[c].asset = None /\ mem'[c].point = None
         /\ mem'[c].done = mem[c].done \cup {"skipped"}
         /\ \E e \in PlainEntry : e.status = "skipped" /\ ~e.undo /\ Appends(mem[c].run, e)
         /\ CallerTypes'
<1>1. pc[c] = "apply_item" /\ mem[c] \in Applying /\ mem[c].asset = None /\ mem[c].point = None
  BY WorkFacts DEF AlreadyRemoved, Removing, Restoring
<1>2. PICK a \in mem[c].todo :
         /\ Appends(mem[c].run, Entry(a, "skipped", FALSE, None, None))
         /\ Holds(c, [mem[c] EXCEPT !.todo = @ \ {a}, !.done = @ \cup {"skipped"}])
  BY DEF AlreadyRemoved
<1>3. /\ Moves(c) /\ pc'[c] = "apply_item"
      /\ mem'[c] = [mem[c] EXCEPT !.todo = @ \ {a}, !.done = @ \cup {"skipped"}]
  BY <1>1, <1>2, HoldOnly DEF AlreadyRemoved, Types
<1>4. /\ mem'[c] \in Applying /\ mem'[c].run = mem[c].run /\ mem'[c].flow = "apply"
      /\ mem'[c].todo = mem[c].todo \ {a} /\ mem'[c].done = mem[c].done \cup {"skipped"}
      /\ mem'[c].asset = None /\ mem'[c].point = None
  <2> DEFINE some == [mem[c] EXCEPT !.todo = @ \ {a}]
  <2>1. /\ some \in Applying /\ some.run = mem[c].run /\ some.todo = mem[c].todo \ {a}
        /\ some.done = mem[c].done /\ some.asset = None /\ some.point = None
    BY <1>1 DEF Applying, Working
  <2>2. PICK done \in SUBSET EntryStatus : done = mem[c].done \cup {"skipped"}
    BY <1>1 DEF Applying, Working, EntryStatus
  <2>3. mem'[c] = [some EXCEPT !.done = done]
    BY <1>1, <1>3, <2>2 DEF Applying, Working
  <2> HIDE DEF some
  <2> QED
    BY <2>1, <2>2, <2>3 DEF Applying, Working
<1>5. Fitting("apply_item", mem'[c])
  BY <1>4 DEF Fitting, FixSteps, UndoSteps, Removing, Restoring, DeleteSteps, Pointed
<1> DEFINE e == Entry(a, "skipped", FALSE, None, None)
<1>6. e \in PlainEntry /\ e.status = "skipped" /\ ~e.undo
  BY <1>1, <1>2 DEF Entry, PlainEntry, EntryStatus, Applying, Working
<1>7. CallerTypes'
  BY <1>3, <1>5, CallerStep DEF Types, Steps, Removing
<1> QED
  BY <1>1, <1>2, <1>3, <1>4, <1>6, <1>7

LEMMA SkipRestoredFacts ==
  ASSUME Types, NEW c \in Callers, SkipRestored(c)
  PROVE  /\ Moves(c) /\ pc[c] = "restore_item" /\ pc'[c] = "restore_item" /\ mem[c] \in Bringing
         /\ mem'[c].run = mem[c].run /\ mem'[c].flow = "restore"
         /\ mem'[c].todo \subseteq mem[c].todo
         /\ mem'[c].asset = None /\ mem'[c].point = None
         /\ mem'[c].done = mem[c].done
         /\ \E e \in PlainEntry : e.status = "skipped" /\ ~e.undo /\ Appends(mem[c].run, e)
         /\ CallerTypes'
<1>1. pc[c] = "restore_item" /\ mem[c] \in Bringing /\ mem[c].asset = None /\ mem[c].point = None
  BY WorkFacts DEF SkipRestored, Removing, Restoring
<1>2. PICK p \in mem[c].todo :
         /\ Appends(mem[c].run, Entry(p.asset, "skipped", FALSE, None, None))
         /\ Holds(c, [mem[c] EXCEPT !.todo = @ \ {p}])
  BY DEF SkipRestored
<1>3. /\ Moves(c) /\ pc'[c] = "restore_item"
      /\ mem'[c] = [mem[c] EXCEPT !.todo = @ \ {p}]
  BY <1>1, <1>2, HoldOnly DEF SkipRestored, Types
<1>4. /\ mem'[c] \in Bringing /\ mem'[c].run = mem[c].run /\ mem'[c].flow = "restore"
      /\ mem'[c].todo = mem[c].todo \ {p} /\ mem'[c].done = mem[c].done
      /\ mem'[c].asset = None /\ mem'[c].point = None
  BY <1>1, <1>3 DEF Bringing, Working
<1>5. Fitting("restore_item", mem'[c])
  BY <1>4 DEF Fitting, FixSteps, UndoSteps, Removing, Restoring, DeleteSteps, Pointed
<1> DEFINE e == Entry(p.asset, "skipped", FALSE, None, None)
<1>6. p \in Point
  BY <1>1, <1>2, FlowFacts
<1>7. e \in PlainEntry /\ e.status = "skipped" /\ ~e.undo
  BY <1>6 DEF Entry, PlainEntry, EntryStatus, Point
<1>8. CallerTypes'
  BY <1>3, <1>5, CallerStep DEF Types, Steps, Restoring
<1> QED
  BY <1>1, <1>2, <1>3, <1>4, <1>7, <1>8

\* Rows that JSON can hold go with a new id to the restore point.
LEMMA CaptureFacts ==
  ASSUME Types, NEW c \in Callers, Capture(c)
  PROVE  /\ Moves(c) /\ pc[c] = "apply_item" /\ mem[c] \in Applying
         /\ \/ pc'[c] = "idle"
            \/ /\ pc'[c] = "point_load"
               /\ mem'[c].run = mem[c].run /\ mem'[c].flow = "apply" /\ mem'[c].done = mem[c].done
               /\ mem'[c].asset \in mem[c].todo /\ mem'[c].todo \subseteq mem[c].todo
               /\ mem'[c].links = LinksOf(mem'[c].asset) /\ mem'[c].point \in Points
               /\ \A q \in index : q.id # mem'[c].point
               /\ \A d \in Callers : ~Owns(d, mem'[c].point)
         /\ CallerTypes'
<1>1. pc[c] = "apply_item" /\ mem[c] \in Applying /\ mem[c].asset = None /\ mem[c].point = None
  BY WorkFacts DEF Capture, Removing, Restoring
<1>2. PICK a \in mem[c].todo :
         IF a \in PlainAssets
         THEN /\ \E p \in Points :
                    /\ \A q \in index : q.id # p
                    /\ p \notin dropped /\ \A d \in Callers : ~Owns(d, p)
                    /\ Holds(c, [mem[c] EXCEPT !.todo = @ \ {a}, !.asset = a,
                                               !.links = LinksOf(a), !.point = p])
              /\ Goes(c, AfterCapture)
         ELSE Leaves(c)
  BY DEF Capture
<1>3. CASE a \in PlainAssets
  <2>1. PICK p \in Points :
           /\ \A q \in index : q.id # p
           /\ \A d \in Callers : ~Owns(d, p)
           /\ Holds(c, [mem[c] EXCEPT !.todo = @ \ {a}, !.asset = a,
                                      !.links = LinksOf(a), !.point = p])
    BY <1>2, <1>3
  <2>2. /\ Moves(c) /\ pc'[c] = "point_load"
        /\ mem'[c] = [mem[c] EXCEPT !.todo = @ \ {a}, !.asset = a, !.links = LinksOf(a), !.point = p]
    BY <1>2, <1>3, <2>1, GoHold DEF Types, AfterCapture
  <2>3. a \in Assets /\ LinksOf(a) \in SUBSET Link
    BY <1>1, <1>2, FlowFacts DEF LinksOf, Types, RowTypes
  <2>4. /\ mem'[c] \in Applying /\ mem'[c].run = mem[c].run /\ mem'[c].flow = "apply"
        /\ mem'[c].done = mem[c].done /\ mem'[c].todo = mem[c].todo \ {a}
        /\ mem'[c].asset = a /\ mem'[c].links = LinksOf(a) /\ mem'[c].point = p
    <3> DEFINE some == [mem[c] EXCEPT !.todo = @ \ {a}]
    <3>1. /\ some \in Applying /\ some.run = mem[c].run /\ some.todo = mem[c].todo \ {a}
          /\ some.done = mem[c].done
      BY <1>1 DEF Applying, Working
    <3>2. PICK own \in SUBSET Link : own = LinksOf(a)
      BY <2>3
    <3>3. mem'[c] = [some EXCEPT !.asset = a, !.links = own, !.point = p]
      BY <1>1, <2>2, <3>2 DEF Applying, Working
    <3> HIDE DEF some
    <3> QED
      BY <2>3, <3>1, <3>2, <3>3 DEF Applying, Working
  <2>5. Fitting("point_load", mem'[c])
    BY <2>3, <2>4 DEF Fitting, FixSteps, UndoSteps, Removing, Restoring, DeleteSteps, Pointed
  <2>6. CallerTypes'
    BY <2>2, <2>5, CallerStep DEF Types, Steps, Removing
  <2> QED
    BY <1>1, <1>2, <2>1, <2>2, <2>4, <2>6
<1>4. CASE a \notin PlainAssets
  <2>1. Moves(c) /\ pc'[c] = "idle" /\ mem'[c] = None
    BY <1>2, <1>4, GoAway DEF Types
  <2> QED
    BY <1>1, <2>1, CallerStep, IdleFits DEF Types, Steps
<1> QED
  BY <1>3, <1>4

Loads == {"point_load", "unpoint_load", "restored_load", "delete_load"}

\* The index is loaded and nothing else changes.
LEMMA LoadIndexFacts ==
  ASSUME Types, NEW c \in Callers, LoadIndex(c)
  PROVE  /\ Moves(c)
         /\ \/ pc[c] = "point_load" /\ pc'[c] = "point_write"
            \/ pc[c] = "unpoint_load" /\ pc'[c] = "unpoint_write"
            \/ pc[c] = "restored_load" /\ pc'[c] = "restored_write"
            \/ pc[c] = "delete_load" /\ pc'[c] = "delete_write"
         /\ mem'[c].run = mem[c].run /\ mem'[c].flow = mem[c].flow /\ mem'[c].done = mem[c].done
         /\ mem'[c].todo = mem[c].todo /\ mem'[c].asset = mem[c].asset
         /\ mem'[c].links = mem[c].links /\ mem'[c].point = mem[c].point
         /\ mem'[c].index = index
         /\ CallerTypes'
<1> DEFINE next == CASE pc[c] = "point_load"    -> "point_write"
                     [] pc[c] = "unpoint_load"  -> "unpoint_write"
                     [] pc[c] = "restored_load" -> "restored_write"
                     [] OTHER                   -> "delete_write"
<1>1. pc[c] \in Loads /\ Fitting(pc[c], mem[c])
  BY DEF LoadIndex, Loads, Types, CallerTypes
<1>2. Moves(c) /\ pc'[c] = next /\ mem'[c] = [mem[c] EXCEPT !.index = index]
  BY GoHold DEF LoadIndex, Types
<1>3. \/ pc[c] = "point_load" /\ pc'[c] = "point_write"
      \/ pc[c] = "unpoint_load" /\ pc'[c] = "unpoint_write"
      \/ pc[c] = "restored_load" /\ pc'[c] = "restored_write"
      \/ pc[c] = "delete_load" /\ pc'[c] = "delete_write"
  BY <1>1, <1>2 DEF Loads
<1>4. index \in SUBSET Point
  BY DEF Types, RowTypes
<1>5. ASSUME NEW flow, NEW ids, NEW todos, mem[c] \in Working(flow, ids, todos)
      PROVE  /\ mem'[c] \in Working(flow, ids, todos)
             /\ mem'[c].run = mem[c].run /\ mem'[c].flow = mem[c].flow
             /\ mem'[c].done = mem[c].done
             /\ mem'[c].todo = mem[c].todo /\ mem'[c].asset = mem[c].asset
             /\ mem'[c].links = mem[c].links /\ mem'[c].point = mem[c].point
             /\ mem'[c].index = index
  BY <1>2, <1>4, <1>5 DEF Working
<1>6. CASE mem[c] \in Applying /\ pc[c] \in {"point_load", "unpoint_load"}
  <2>1. mem'[c] \in Applying
    BY <1>5, <1>6 DEF Applying
  <2>2. Fitting(pc'[c], mem'[c])
    BY <1>1, <1>3, <1>5, <1>6, <2>1
    DEF Fitting, FixSteps, UndoSteps, Removing, Restoring, DeleteSteps, Pointed, Applying
  <2>3. CallerTypes'
    BY <1>2, <1>3, <2>2, CallerStep DEF Types, Steps, Removing, Restoring, DeleteSteps
  <2> QED
    BY <1>2, <1>3, <1>5, <1>6, <2>3 DEF Applying
<1>7. CASE mem[c] \in Bringing /\ pc[c] = "restored_load"
  <2>1. mem'[c] \in Bringing
    BY <1>5, <1>7 DEF Bringing
  <2>2. Fitting(pc'[c], mem'[c])
    BY <1>1, <1>3, <1>5, <1>7, <2>1
    DEF Fitting, FixSteps, UndoSteps, Removing, Restoring, DeleteSteps, Pointed, Bringing
  <2>3. CallerTypes'
    BY <1>2, <1>3, <2>2, CallerStep DEF Types, Steps, Removing, Restoring, DeleteSteps
  <2> QED
    BY <1>2, <1>3, <1>5, <1>7, <2>3 DEF Bringing
<1>8. CASE mem[c] \in Deleting /\ pc[c] = "delete_load"
  <2>1. mem'[c] \in Deleting
    BY <1>5, <1>8 DEF Deleting
  <2>2. Fitting(pc'[c], mem'[c])
    BY <1>1, <1>3, <1>5, <1>8, <2>1
    DEF Fitting, FixSteps, UndoSteps, Removing, Restoring, DeleteSteps, Pointed, Deleting
  <2>3. CallerTypes'
    BY <1>2, <1>3, <2>2, CallerStep DEF Types, Steps, Removing, Restoring, DeleteSteps
  <2> QED
    BY <1>2, <1>3, <1>5, <1>8, <2>3 DEF Deleting
<1> QED
  BY <1>1, <1>6, <1>7, <1>8, WorkFacts DEF Loads, Removing, Restoring, DeleteSteps

\* The steps of apply and restore that go on with what the caller holds.
LEMMA CreatePointFacts ==
  ASSUME Types, NEW c \in Callers, CreatePoint(c)
  PROVE  /\ Moves(c) /\ pc[c] = "point_write" /\ pc'[c] = "remove_rows"
         /\ mem[c] \in Applying /\ mem'[c] = mem[c] /\ CallerTypes'
<1>1. /\ Moves(c) /\ pc[c] = "point_write" /\ pc'[c] = "remove_rows" /\ mem'[c] = mem[c]
  BY GoOnly DEF CreatePoint, Types
<1>2. mem[c] \in Applying /\ mem[c].asset \in Assets /\ mem[c].point \in Points
  BY <1>1, WorkFacts DEF Removing, Restoring, Pointed
<1>3. Fitting("remove_rows", mem[c])
  BY <1>2 DEF Fitting, FixSteps, UndoSteps, Removing, Restoring, DeleteSteps, Pointed
<1> QED
  BY <1>1, <1>2, <1>3, CallerStep DEF Types, Steps, Removing

LEMMA RemoveRowsFacts ==
  ASSUME Types, NEW c \in Callers, RemoveRows(c)
  PROVE  /\ Moves(c) /\ pc[c] = "remove_rows" /\ pc'[c] \in {"journal_applied", "unpoint_load"}
         /\ mem[c] \in Applying /\ mem'[c] = mem[c] /\ CallerTypes'
<1>1. /\ Moves(c) /\ pc[c] = "remove_rows" /\ pc'[c] \in {"journal_applied", "unpoint_load"}
      /\ mem'[c] = mem[c]
  BY GoOnly DEF RemoveRows, Types
<1>2. mem[c] \in Applying /\ mem[c].asset \in Assets /\ mem[c].point \in Points
  BY <1>1, WorkFacts DEF Removing, Restoring, Pointed
<1>3. Fitting("journal_applied", mem[c]) /\ Fitting("unpoint_load", mem[c])
  BY <1>2 DEF Fitting, FixSteps, UndoSteps, Removing, Restoring, DeleteSteps, Pointed
<1> QED
  BY <1>1, <1>2, <1>3, CallerStep DEF Types, Steps, Removing

LEMMA DropPointFacts ==
  ASSUME Types, NEW c \in Callers, DropPoint(c)
  PROVE  /\ Moves(c) /\ pc[c] = "unpoint_write" /\ pc'[c] = "journal_failed"
         /\ mem[c] \in Applying /\ mem'[c] = mem[c] /\ CallerTypes'
<1>1. /\ Moves(c) /\ pc[c] = "unpoint_write" /\ pc'[c] = "journal_failed" /\ mem'[c] = mem[c]
  BY GoOnly DEF DropPoint, Types
<1>2. mem[c] \in Applying /\ mem[c].asset \in Assets /\ mem[c].point \in Points
  BY <1>1, WorkFacts DEF Removing, Restoring, Pointed
<1>3. Fitting("journal_failed", mem[c])
  BY <1>2 DEF Fitting, FixSteps, UndoSteps, Removing, Restoring, DeleteSteps, Pointed
<1> QED
  BY <1>1, <1>2, <1>3, CallerStep DEF Types, Steps, Removing

LEMMA PointRestoredFacts ==
  ASSUME Types, NEW c \in Callers, PointRestored(c)
  PROVE  /\ Moves(c) /\ pc[c] = "restored_write" /\ pc'[c] = "journal_applied"
         /\ mem[c] \in Bringing /\ mem'[c] = mem[c] /\ CallerTypes'
<1>1. /\ Moves(c) /\ pc[c] = "restored_write" /\ pc'[c] = "journal_applied" /\ mem'[c] = mem[c]
  BY GoOnly DEF PointRestored, Types
<1>2. mem[c] \in Bringing /\ mem[c].asset \in Assets /\ mem[c].point \in Points
  BY <1>1, WorkFacts DEF Removing, Restoring, Pointed
<1>3. Fitting("journal_applied", mem[c])
  BY <1>2 DEF Fitting, FixSteps, UndoSteps, Removing, Restoring, DeleteSteps, Pointed
<1> QED
  BY <1>1, <1>2, <1>3, CallerStep DEF Types, Steps, Restoring

LEMMA DeleteWriteFacts ==
  ASSUME Types, NEW c \in Callers, DeleteWrite(c)
  PROVE  /\ Moves(c) /\ pc[c] = "delete_write" /\ pc'[c] = "idle"
         /\ mem[c] \in Deleting /\ mem[c].todo # {} /\ CallerTypes'
<1>1. Moves(c) /\ pc[c] = "delete_write" /\ pc'[c] = "idle" /\ mem'[c] = None
  BY GoAway DEF DeleteWrite, Types
<1>2. mem[c] \in Deleting /\ mem[c].todo # {}
  BY <1>1, WorkFacts DEF DeleteSteps
<1> QED
  BY <1>1, <1>2, CallerStep, IdleFits DEF Types, Steps

LEMMA JournalRemovalFacts ==
  ASSUME Types, NEW c \in Callers, JournalRemoval(c)
  PROVE  /\ Moves(c) /\ pc[c] \in {"journal_applied", "journal_failed"}
         /\ \/ pc'[c] = "apply_item" /\ mem[c] \in Applying
            \/ pc'[c] = "restore_item" /\ mem[c] \in Bringing
         /\ mem'[c].run = mem[c].run /\ mem'[c].flow = mem[c].flow /\ mem'[c].todo = mem[c].todo
         /\ mem'[c].asset = None /\ mem'[c].point = None
         /\ \E e \in PlainEntry :
               /\ ~e.undo /\ Appends(mem[c].run, e)
               /\ mem'[c].done = mem[c].done \cup {e.status}
         /\ CallerTypes'
<1> DEFINE status == IF pc[c] = "journal_applied" THEN "applied" ELSE "failed"
           next == IF mem[c].flow = "apply" THEN "apply_item" ELSE "restore_item"
           e == Entry(mem[c].asset, status, FALSE, None, None)
<1>1. pc[c] \in {"journal_applied", "journal_failed"} /\ mem[c] \in Applying \cup Bringing
      /\ mem[c].asset \in Assets
  BY WorkFacts DEF JournalRemoval, Pointed
<1>2. /\ Moves(c) /\ pc'[c] = next /\ Appends(mem[c].run, e)
      /\ mem'[c] = [mem[c] EXCEPT !.done = @ \cup {status}, !.asset = None, !.point = None]
  <2>1. /\ Goes(c, next) /\ Appends(mem[c].run, e)
        /\ Holds(c, [mem[c] EXCEPT !.done = @ \cup {status}, !.asset = None, !.point = None])
    BY DEF JournalRemoval
  <2> HIDE DEF next, status, e
  <2> QED
    BY <2>1, GoHold DEF Types
<1>3. e \in PlainEntry /\ ~e.undo /\ e.status = status /\ status \in EntryStatus
  BY <1>1 DEF Entry, PlainEntry, EntryStatus
<1> HIDE DEF e, status
<1>4. ASSUME NEW flow, NEW ids, NEW todos, mem[c] \in Working(flow, ids, todos)
      PROVE  /\ mem'[c] \in Working(flow, ids, todos)
             /\ mem'[c].run = mem[c].run /\ mem'[c].flow = mem[c].flow
             /\ mem'[c].done = mem[c].done \cup {status} /\ mem'[c].todo = mem[c].todo
             /\ mem'[c].asset = None /\ mem'[c].point = None
  <2>1. PICK done \in SUBSET EntryStatus : done = mem[c].done \cup {status}
    BY <1>3, <1>4 DEF Working
  <2>2. mem'[c] = [mem[c] EXCEPT !.done = done, !.asset = None, !.point = None]
    BY <1>2, <1>4, <2>1 DEF Working
  <2> QED
    BY <1>4, <2>1, <2>2 DEF Working
<1>5. CASE mem[c] \in Applying
  <2>1. mem'[c] \in Applying /\ pc'[c] = "apply_item"
    BY <1>2, <1>4, <1>5, FlowFacts DEF Applying
  <2>2. Fitting("apply_item", mem'[c])
    BY <1>4, <1>5, <2>1
    DEF Fitting, FixSteps, UndoSteps, Removing, Restoring, DeleteSteps, Pointed, Applying
  <2>3. CallerTypes'
    BY <1>2, <2>1, <2>2, CallerStep DEF Types, Steps, Removing
  <2> QED
    BY <1>1, <1>2, <1>3, <1>4, <1>5, <2>1, <2>3 DEF Applying
<1>6. CASE mem[c] \in Bringing
  <2>1. mem'[c] \in Bringing /\ pc'[c] = "restore_item"
    BY <1>2, <1>4, <1>6, FlowFacts DEF Bringing
  <2>2. Fitting("restore_item", mem'[c])
    BY <1>4, <1>6, <2>1
    DEF Fitting, FixSteps, UndoSteps, Removing, Restoring, DeleteSteps, Pointed, Bringing
  <2>3. CallerTypes'
    BY <1>2, <2>1, <2>2, CallerStep DEF Types, Steps, Restoring
  <2> QED
    BY <1>1, <1>2, <1>3, <1>4, <1>6, <2>1, <2>3 DEF Bringing
<1> QED
  BY <1>1, <1>5, <1>6

LEMMA FinishRunFacts ==
  ASSUME Types, NEW c \in Callers, FinishRun(c)
  PROVE  /\ Moves(c) /\ pc[c] \in {"apply_item", "restore_item"} /\ pc'[c] = "idle"
         /\ mem[c] \in Applying \cup Bringing
         /\ Finish(mem[c].run, FinalStatus(mem[c].done))
         /\ CallerTypes'
<1>1. Moves(c) /\ pc[c] \in {"apply_item", "restore_item"} /\ pc'[c] = "idle" /\ mem'[c] = None
  BY GoAway DEF FinishRun, Types
<1>2. mem[c] \in Applying \cup Bringing
  BY <1>1, WorkFacts DEF Removing, Restoring
<1> QED
  BY <1>1, <1>2, CallerStep, IdleFits DEF FinishRun, Types, Steps

\* A point is taken from the list, and its rows are inserted, or not.
LEMMA InsertRowsFacts ==
  ASSUME Types, NEW c \in Callers, InsertRows(c)
  PROVE  /\ Moves(c) /\ pc[c] = "restore_item" /\ mem[c] \in Bringing
         /\ mem'[c].run = mem[c].run /\ mem'[c].flow = "restore" /\ mem'[c].done = mem[c].done
         /\ \E p \in mem[c].todo :
               /\ p \in Point /\ p.status = "available"
               /\ mem'[c].todo = mem[c].todo \ {p}
               /\ mem'[c].asset = p.asset /\ mem'[c].links = p.links /\ mem'[c].point = p.id
               /\ \/ /\ pc'[c] = "restored_load"
                     /\ assetRows' = assetRows \cup {p.asset}
                     /\ links' = links \cup p.links
                     /\ removed' = [removed EXCEPT ![p.asset] = None]
                     /\ clashed' = IF p.asset \in UnderApply THEN clashed \cup {p.asset} ELSE clashed
                  \/ pc'[c] = "journal_failed" /\ UNCHANGED <<assetRows, links, removed, clashed>>
         /\ CallerTypes'
<1>1. pc[c] = "restore_item" /\ mem[c] \in Bringing
  BY WorkFacts DEF InsertRows, Removing, Restoring
<1>2. PICK p \in mem[c].todo :
         /\ p.status # "restored"
         /\ Holds(c, [mem[c] EXCEPT !.todo = @ \ {p}, !.asset = p.asset,
                                    !.links = p.links, !.point = p.id])
         /\ \/ /\ assetRows' = assetRows \cup {p.asset}
               /\ links' = links \cup p.links
               /\ removed' = [removed EXCEPT ![p.asset] = None]
               /\ clashed' = IF p.asset \in UnderApply THEN clashed \cup {p.asset} ELSE clashed
               /\ Goes(c, "restored_load")
            \/ /\ UNCHANGED <<assetRows, links, removed, clashed>>
               /\ Goes(c, "journal_failed")
  BY DEF InsertRows
<1>3. p \in Point /\ p.status = "available" /\ p.asset \in Assets /\ p.id \in Points
      /\ p.links \in SUBSET Link
  BY <1>1, <1>2, FlowFacts DEF Point
<1>4. /\ Moves(c) /\ pc'[c] \in {"restored_load", "journal_failed"}
      /\ mem'[c] = [mem[c] EXCEPT !.todo = @ \ {p}, !.asset = p.asset, !.links = p.links, !.point = p.id]
      /\ \/ /\ pc'[c] = "restored_load"
            /\ assetRows' = assetRows \cup {p.asset}
            /\ links' = links \cup p.links
            /\ removed' = [removed EXCEPT ![p.asset] = None]
            /\ clashed' = IF p.asset \in UnderApply THEN clashed \cup {p.asset} ELSE clashed
         \/ pc'[c] = "journal_failed" /\ UNCHANGED <<assetRows, links, removed, clashed>>
  BY <1>2, GoHold DEF Types
<1>5. /\ mem'[c] \in Bringing /\ mem'[c].run = mem[c].run /\ mem'[c].flow = "restore"
      /\ mem'[c].done = mem[c].done /\ mem'[c].todo = mem[c].todo \ {p}
      /\ mem'[c].asset = p.asset /\ mem'[c].links = p.links /\ mem'[c].point = p.id
  <2> DEFINE some == [mem[c] EXCEPT !.todo = @ \ {p}]
  <2>1. /\ some \in Bringing /\ some.run = mem[c].run /\ some.todo = mem[c].todo \ {p}
        /\ some.done = mem[c].done
    BY <1>1 DEF Bringing, Working
  <2>2. PICK own \in SUBSET Link, a \in Assets, i \in Points :
           own = p.links /\ a = p.asset /\ i = p.id
    BY <1>3
  <2>3. mem'[c] = [some EXCEPT !.asset = a, !.links = own, !.point = i]
    BY <1>1, <1>4, <2>2 DEF Bringing, Working
  <2> HIDE DEF some
  <2>4. /\ mem'[c] \in Bringing /\ mem'[c].run = mem[c].run /\ mem'[c].flow = "restore"
        /\ mem'[c].done = mem[c].done /\ mem'[c].todo = mem[c].todo \ {p}
        /\ mem'[c].asset = a /\ mem'[c].links = own /\ mem'[c].point = i
    BY <2>1, <2>2, <2>3 DEF Bringing, Working
  <2> QED
    BY <2>2, <2>4
<1>6. Fitting("restored_load", mem'[c]) /\ Fitting("journal_failed", mem'[c])
  BY <1>3, <1>5 DEF Fitting, FixSteps, UndoSteps, Removing, Restoring, DeleteSteps, Pointed
<1>7. CallerTypes'
  BY <1>4, <1>6, CallerStep DEF Types, Steps, Restoring
<1> QED
  BY <1>1, <1>3, <1>4, <1>5, <1>7

-----------------------------------------------------------------------------
(* Runs.                                                                    *)

\* A caller works on a run.
AtWork(c) == pc[c] \in FixSteps \cup UndoSteps \cup Removing \cup Restoring
RunsOf(flow) ==
    CASE flow = "fix"   -> FixRun
      [] flow = "undo"  -> UndoRun
      [] flow = "apply" -> RemoveRun
      [] OTHER          -> RestoreRun
Guarding == {"fix_guard", "fix_snapshot"}

\* The run of a caller is of its kind and running, and an apply or a restore has
\* in mind what is in the journal.
RunAt(c) ==
    AtWork(c) =>
        /\ runs[mem[c].run] \in RunsOf(mem[c].flow)
        /\ mem[c].run \notin reapplied => runs[mem[c].run].status = "running"
        /\ pc[c] \in Guarding => Entries(mem[c].run) = {}
        /\ pc[c] \in Removing \cup Restoring /\ mem[c].run \notin reapplied =>
              \A status \in {"applied", "failed"} :
                 status \in mem[c].done <=> Having(mem[c].run, status) # {}

\* No two callers work on one run, unless it is applied again.
Owners ==
    \A c, d \in Callers : AtWork(c) /\ AtWork(d) /\ c # d /\ mem[c].run = mem[d].run =>
        mem[c].run \in reapplied

RunFile(r) ==
    /\ runs[r] = None => journal[r] = <<>>
    /\ runs[r] # None /\ runs[r].status = "planned" /\ r \notin reapplied => journal[r] = <<>>
    /\ r \in reapplied => runs[r] \in RemoveRun
    /\ (\E e \in Entries(r) : e.undo) => runs[r] \in FixRun
    /\ runs[r] \in RemoveRun =>
          /\ runs[r].scope = {f.asset : f \in runs[r].token}
          /\ \A f \in runs[r].token : f.status = "missing_on_disk"

Truthful(r) ==
    r \notin reapplied /\ runs[r] # None =>
        /\ runs[r].status = "completed" => Having(r, "failed") = {}
        /\ runs[r].status = "failed" => Having(r, "applied") = {}
        /\ runs[r].status = "partial" => Having(r, "applied") # {} /\ Having(r, "failed") # {}

Journaled ==
    /\ \A c \in Callers : RunAt(c)
    /\ Owners
    /\ \A r \in Runs : RunFile(r) /\ Truthful(r)

LEMMA WorkerFacts ==
  ASSUME CallerTypes, NEW c \in Callers, AtWork(c)
  PROVE  /\ mem[c].run \in Runs
         /\ pc[c] \in FixSteps => mem[c].flow = "fix"
         /\ pc[c] \in UndoSteps => mem[c].flow = "undo"
         /\ pc[c] \in Removing \ Restoring => mem[c].flow = "apply"
         /\ pc[c] \in Restoring \ Removing => mem[c].flow = "restore"
         /\ pc[c] \in Removing \cup Restoring => mem[c].flow \in {"apply", "restore"}
<1>1. Fitting(pc[c], mem[c])
  BY DEF CallerTypes
<1>2. CASE pc[c] \in FixSteps
  BY <1>1, <1>2, FlowFacts DEF Fitting, FixSteps, UndoSteps, Removing, Restoring
<1>3. CASE pc[c] \in UndoSteps
  BY <1>1, <1>3, FlowFacts DEF Fitting, FixSteps, UndoSteps, Removing, Restoring
<1>4. CASE pc[c] \in Removing \cup Restoring
  BY <1>1, <1>4, FlowFacts DEF Fitting, FixSteps, UndoSteps, Removing, Restoring
<1> QED
  BY <1>2, <1>3, <1>4 DEF AtWork

LEMMA RunsOfFacts ==
    /\ RunsOf("fix") = FixRun /\ RunsOf("undo") = UndoRun
    /\ RunsOf("apply") = RemoveRun /\ RunsOf("restore") = RestoreRun
    /\ \A flow : RunsOf(flow) \subseteq RunFiles /\ None \notin RunsOf(flow)
<1>1. \A flow : RunsOf(flow) \in {FixRun, UndoRun, RemoveRun, RestoreRun}
  BY DEF RunsOf
<1> QED
  BY <1>1, KindFacts DEF RunsOf, RunFiles

\* The run a caller works on is a run file.
LEMMA OwnRun ==
  ASSUME Types, Journaled, NEW c \in Callers, AtWork(c)
  PROVE  mem[c].run \in Runs /\ runs[mem[c].run] \in RunFiles /\ runs[mem[c].run] # None
  BY WorkerFacts, RunsOfFacts DEF Types, Journaled, RunAt

\* A caller goes on with its run, or leaves it.
Resting(d) ==
    AtWork(d)' =>
        /\ AtWork(d) /\ mem'[d].run = mem[d].run /\ mem'[d].flow = mem[d].flow
        /\ pc'[d] \in Guarding => pc[d] \in Guarding
        /\ pc'[d] \in Removing \cup Restoring =>
              pc[d] \in Removing \cup Restoring /\ mem'[d].done = mem[d].done

LEMMA OthersRest ==
  ASSUME CallerTypes, NEW c \in Callers, Moves(c)
  PROVE  \A d \in Callers : d # c => Resting(d) /\ (AtWork(d)' <=> AtWork(d))
  BY Others DEF Resting, AtWork

\* Steps that no run sees.
LEMMA RunsQuiet ==
  ASSUME StoreTypes, Journaled, UNCHANGED <<runs, journal, reapplied>>,
         \A d \in Callers : Resting(d)
  PROVE  StoreTypes' /\ Journaled'
<1>1. StoreTypes'
  BY DEF StoreTypes
<1>2. \A r : Entries(r)' = Entries(r) /\ \A status : Having(r, status)' = Having(r, status)
  BY DEF Entries, Having
<1>3. ASSUME NEW c \in Callers PROVE RunAt(c)'
  BY <1>2 DEF Journaled, RunAt, Resting
<1>4. Owners'
  BY DEF Journaled, Owners, Resting
<1>5. \A r \in Runs : RunFile(r)' /\ Truthful(r)'
  BY <1>2 DEF Journaled, RunFile, Truthful
<1> QED
  BY <1>1, <1>3, <1>4, <1>5 DEF Journaled

\* A caller appends an entry to the journal of its run.
LEMMA RunAppended ==
  ASSUME Types, Journaled, NEW c \in Callers, Moves(c), AtWork(c), AtWork(c)',
         mem'[c].run = mem[c].run, mem'[c].flow = mem[c].flow,
         pc'[c] \notin Guarding, UNCHANGED <<runs, reapplied>>,
         NEW e \in PlainEntry \cup UndoEntry, Appends(mem[c].run, e),
         e.undo => mem[c].flow = "fix",
         pc'[c] \in Removing \cup Restoring =>
            /\ pc[c] \in Removing \cup Restoring
            /\ \A status \in {"applied", "failed"} :
                  status \in mem'[c].done <=> status \in mem[c].done \/ e.status = status
  PROVE  StoreTypes' /\ Journaled'
<1> DEFINE r == mem[c].run
<1>1. r \in Runs /\ runs[r] \in RunFiles /\ runs[r] # None
  BY OwnRun
<1>2. /\ journal' \in [Runs -> Seq(PlainEntry \cup UndoEntry)]
      /\ \A q \in Runs : q # r => journal'[q] = journal[q]
      /\ Entries(r)' = Entries(r) \cup {e}
  BY <1>1, AppendFacts DEF Types
<1>3. \A q \in Runs : q # r => /\ Entries(q)' = Entries(q)
                               /\ \A status : Having(q, status)' = Having(q, status)
  BY <1>2 DEF Entries, Having
<1>4. \A status : Having(r, status)' # {} <=> Having(r, status) # {} \/ e.status = status
  BY <1>2 DEF Having
<1>5. \A d \in Callers : d # c => pc'[d] = pc[d] /\ mem'[d] = mem[d]
  BY Others DEF Types
<1>6. StoreTypes'
  BY <1>2 DEF Types, StoreTypes
<1>7. RunAt(c)'
  BY <1>4 DEF Journaled, RunAt
<1>8. ASSUME NEW d \in Callers, d # c PROVE RunAt(d)'
  <2>1. SUFFICES ASSUME AtWork(d) PROVE RunAt(d)'
    BY <1>5, <1>8 DEF RunAt, AtWork
  <2>2. mem[d].run \in Runs
    BY <2>1, OwnRun
  <2>3. CASE mem[d].run # r
    BY <1>3, <1>5, <1>8, <2>2, <2>3 DEF Journaled, RunAt, AtWork
  <2>4. CASE mem[d].run = r
    <3>1. r \in reapplied
      BY <1>8, <2>1, <2>4 DEF Journaled, Owners
    <3>2. runs[r].kind = "remove"
      BY <1>1, <3>1, KindFacts DEF Journaled, RunFile
    <3>3. pc[d] \notin Guarding
      <4>1. SUFFICES ASSUME pc[d] \in Guarding PROVE FALSE
        OBVIOUS
      <4>2. mem[d].flow = "fix"
        BY <2>1, <4>1, WorkerFacts DEF Types, Guarding, FixSteps
      <4> QED
        BY <2>1, <2>4, <3>2, <4>2, RunsOfFacts, KindFacts DEF Journaled, RunAt
    <3> QED
      BY <1>5, <1>8, <2>1, <2>4, <3>1, <3>3 DEF Journaled, RunAt, AtWork
  <2> QED
    BY <2>3, <2>4
<1>9. Owners'
  BY <1>5 DEF Journaled, Owners, AtWork
<1>10. ASSUME NEW q \in Runs PROVE RunFile(q)' /\ Truthful(q)'
  <2>1. CASE q # r
    BY <1>2, <1>3, <2>1 DEF Journaled, RunFile, Truthful
  <2>2. CASE q = r
    <3>1. r \notin reapplied => runs[r].status = "running"
      BY DEF Journaled, RunAt
    <3>2. e.undo => runs[r] \in FixRun
      BY RunsOfFacts DEF Journaled, RunAt
    <3>3. (\E x \in Entries(r)' : x.undo) => runs[r] \in FixRun
      BY <1>1, <1>2, <3>2 DEF Journaled, RunFile
    <3> QED
      BY <1>1, <2>2, <3>1, <3>3 DEF Journaled, RunFile, Truthful
  <2> QED
    BY <2>1, <2>2
<1> QED
  BY <1>6, <1>7, <1>8, <1>9, <1>10 DEF Journaled

\* A new run, and the caller that may work on it.
LEMMA RunCreated ==
  ASSUME Types, Journaled, NEW c \in Callers, Moves(c), NEW r \in Runs, runs[r] = None,
         NEW new \in RunFiles, runs' = [runs EXCEPT ![r] = new], UNCHANGED <<journal, reapplied>>,
         new.status \in {"planned", "running"},
         new \in RemoveRun => /\ new.scope = {f.asset : f \in new.token}
                              /\ \A f \in new.token : f.status = "missing_on_disk",
         \/ ~AtWork(c)'
         \/ /\ mem'[c].run = r /\ new \in RunsOf(mem'[c].flow) /\ new.status = "running"
            /\ pc'[c] \in Removing \cup Restoring => mem'[c].done = {}
  PROVE  StoreTypes' /\ Journaled'
<1>1. journal[r] = <<>> /\ Entries(r) = {} /\ \A status : Having(r, status) = {}
  BY EntryFacts DEF Types, Journaled, RunFile, Having
<1>2. \A q : Entries(q)' = Entries(q) /\ \A status : Having(q, status)' = Having(q, status)
  BY DEF Entries, Having
<1>3. runs'[r] = new /\ \A q \in Runs : q # r => runs'[q] = runs[q]
  BY DEF Types, StoreTypes
<1>4. StoreTypes'
  BY DEF Types, StoreTypes
<1>5. r \notin reapplied
  BY KindFacts DEF Journaled, RunFile, RunFiles
<1>6. \A d \in Callers : d # c => pc'[d] = pc[d] /\ mem'[d] = mem[d]
  BY Others DEF Types
<1>7. \A d \in Callers : AtWork(d) => mem[d].run # r /\ mem[d].run \in Runs
  BY OwnRun
<1>8. RunAt(c)'
  BY <1>1, <1>2, <1>3 DEF RunAt
<1>9. ASSUME NEW d \in Callers, d # c PROVE RunAt(d)'
  BY <1>2, <1>3, <1>6, <1>7, <1>9 DEF Journaled, RunAt, AtWork
<1>10. Owners'
  BY <1>6, <1>7 DEF Journaled, Owners, AtWork
<1>11. ASSUME NEW q \in Runs PROVE RunFile(q)' /\ Truthful(q)'
  <2>1. CASE q # r
    BY <1>2, <1>3, <2>1 DEF Journaled, RunFile, Truthful
  <2>2. CASE q = r
    BY <1>1, <1>2, <1>3, <1>5, <2>2 DEF Journaled, RunFile, Truthful
  <2> QED
    BY <2>1, <2>2
<1> QED
  BY <1>4, <1>8, <1>9, <1>10, <1>11 DEF Journaled

\* A caller finishes its run, with a status that its journal bears out.
LEMMA RunFinished ==
  ASSUME Types, Journaled, NEW c \in Callers, Moves(c), AtWork(c), ~AtWork(c)',
         UNCHANGED <<journal, reapplied>>, NEW status \in {"completed", "partial", "failed"},
         Finish(mem[c].run, status),
         mem[c].run \notin reapplied =>
            /\ status = "completed" => Having(mem[c].run, "failed") = {}
            /\ status = "failed" => Having(mem[c].run, "applied") = {}
            /\ status = "partial" => /\ Having(mem[c].run, "applied") # {}
                                     /\ Having(mem[c].run, "failed") # {}
  PROVE  StoreTypes' /\ Journaled'
<1> DEFINE r == mem[c].run
           new == [runs[r] EXCEPT !.status = status]
<1>1. r \in Runs /\ runs[r] \in RunFiles /\ runs[r] # None
  BY OwnRun
<1>2. runs' = [runs EXCEPT ![r] = new]
  BY DEF Finish
<1>3. /\ new \in RunFiles /\ new.status = status /\ new.scope = runs[r].scope
      /\ new.token = runs[r].token /\ new # None
      /\ runs[r] \in FixRun <=> new \in FixRun
      /\ runs[r] \in UndoRun <=> new \in UndoRun
      /\ runs[r] \in RemoveRun <=> new \in RemoveRun
      /\ runs[r] \in RestoreRun <=> new \in RestoreRun
  BY <1>1, RewriteFacts, KindFacts DEF RunStatus
<1>4. runs'[r] = new /\ \A q \in Runs : q # r => runs'[q] = runs[q]
  BY <1>1, <1>2 DEF Types, StoreTypes
<1>5. StoreTypes'
  BY <1>1, <1>2, <1>3 DEF Types, StoreTypes
<1> HIDE DEF new
<1>6. \A q : Entries(q)' = Entries(q) /\ \A s : Having(q, s)' = Having(q, s)
  BY DEF Entries, Having
<1>7. \A d \in Callers : d # c => pc'[d] = pc[d] /\ mem'[d] = mem[d]
  BY Others DEF Types
<1>8. \A flow : runs[r] \in RunsOf(flow) => new \in RunsOf(flow)
  BY <1>3 DEF RunsOf
<1>9. ASSUME NEW d \in Callers, AtWork(d)' PROVE RunAt(d)'
  <2>1. d # c /\ AtWork(d) /\ mem[d].run \in Runs
    BY <1>7, <1>9, OwnRun DEF AtWork
  <2>2. CASE mem[d].run # r
    BY <1>4, <1>6, <1>7, <2>1, <2>2 DEF Journaled, RunAt, AtWork
  <2>3. CASE mem[d].run = r
    <3>1. r \in reapplied
      BY <2>1, <2>3 DEF Journaled, Owners
    <3> QED
      BY <1>4, <1>6, <1>7, <1>8, <2>1, <2>3, <3>1 DEF Journaled, RunAt, AtWork
  <2> QED
    BY <2>2, <2>3
<1>10. Owners'
  BY <1>7 DEF Journaled, Owners, AtWork
<1>11. ASSUME NEW q \in Runs PROVE RunFile(q)' /\ Truthful(q)'
  <2>1. CASE q # r
    BY <1>4, <1>6, <2>1 DEF Journaled, RunFile, Truthful
  <2>2. CASE q = r
    BY <1>1, <1>3, <1>4, <1>6, <2>2 DEF Journaled, RunFile, Truthful
  <2> QED
    BY <2>1, <2>2
<1> QED
  BY <1>5, <1>9, <1>10, <1>11 DEF Journaled, RunAt

\* A plan without apply is a completed run of choices.
LEMMA PlanOnlyRuns ==
  ASSUME Types, Journaled, NEW c \in Callers, NEW r \in Runs, NEW flags,
         PlanOnly(c, r, flags), UNCHANGED reapplied
  PROVE  /\ StoreTypes' /\ Journaled' /\ runs[r] = None
         /\ runs'[r] \in FixRun /\ Undoable(r)' = {}
         /\ \A q \in Runs : q # r => runs'[q] = runs[q] /\ journal'[q] = journal[q]
<1> DEFINE new == NewRun("fix", "completed", Diagnostics, Diagnostics)
<1>1. /\ runs[r] = None /\ runs' = [runs EXCEPT ![r] = new] /\ UNCHANGED <<pc, mem>>
  BY DEF PlanOnly
<1>2. Diagnostics \subseteq Diagnostic /\ Cardinality(Diagnostics) \in Nat
  BY DiagnosticFacts, FS_CardinalityType DEF Types
<1>3. new \in FixRun /\ new.status = "completed"
  BY <1>2 DEF NewRun, FixRun, RunOf, RunStatus
<1>4. PICK order \in [1 .. Cardinality(Diagnostics) -> Diagnostics] :
         journal' = [journal EXCEPT ![r] =
            [i \in DOMAIN order |->
                Entry(order[i].source,
                      IF ChosenAction(order[i], Selected(flags, Diagnostics)) = "none"
                      THEN "skipped" ELSE "planned", FALSE, None, None)]]
  BY DEF PlanOnly
<1> DEFINE j == [i \in DOMAIN order |->
                   Entry(order[i].source,
                         IF ChosenAction(order[i], Selected(flags, Diagnostics)) = "none"
                         THEN "skipped" ELSE "planned", FALSE, None, None)]
<1>5. ASSUME NEW i \in DOMAIN order
      PROVE  j[i] \in PlainEntry /\ ~j[i].undo /\ j[i].status \in {"skipped", "planned"}
  <2>1. order[i].source \in Sources
    BY <1>2, <1>4 DEF Diagnostic
  <2> QED
    BY <2>1 DEF Entry, PlainEntry, EntryStatus
<1>6. j \in [1 .. Cardinality(Diagnostics) -> PlainEntry]
  BY <1>4, <1>5
<1>8. DOMAIN j = DOMAIN order
  OBVIOUS
<1>7. j \in Seq(PlainEntry \cup UndoEntry)
  <2> HIDE DEF j
  <2>1. PICK n \in Nat : n = Cardinality(Diagnostics)
    BY <1>2
  <2>2. j \in [1 .. n -> PlainEntry]
    BY <1>6, <2>1
  <2>3. j \in [1 .. n -> PlainEntry \cup UndoEntry]
    BY <2>2
  <2> QED
    BY <2>3, SeqDef
<1> HIDE DEF j, new
<1>9. journal' = [journal EXCEPT ![r] = j]
  BY <1>4 DEF j
<1>10. /\ journal'[r] = j /\ runs'[r] = new
       /\ \A q \in Runs : q # r => runs'[q] = runs[q] /\ journal'[q] = journal[q]
  BY <1>1, <1>9 DEF Types, StoreTypes
<1>11. StoreTypes'
  BY <1>1, <1>3, <1>7, <1>9 DEF Types, StoreTypes, RunFiles
<1>12. \A e \in Entries(r)' : ~e.undo /\ e.status \notin {"applied", "failed"}
  BY <1>5, <1>8, <1>10 DEF Entries
<1>13. Undoable(r)' = {}
  BY <1>5, <1>8, <1>10 DEF Undoable
<1>14. \A q \in Runs : q # r => /\ Entries(q)' = Entries(q)
                                /\ \A status : Having(q, status)' = Having(q, status)
  BY <1>10 DEF Entries, Having
<1>15. \A d \in Callers : AtWork(d) => mem[d].run # r /\ mem[d].run \in Runs
  BY <1>1, OwnRun
<1>16. ASSUME NEW d \in Callers PROVE RunAt(d)'
  BY <1>1, <1>10, <1>14, <1>15 DEF Journaled, RunAt, AtWork
<1>17. Owners'
  BY <1>1 DEF Journaled, Owners, AtWork
<1>18. r \notin reapplied
  BY <1>1, KindFacts DEF Journaled, RunFile, RunFiles
<1>19. ASSUME NEW q \in Runs PROVE RunFile(q)' /\ Truthful(q)'
  <2>1. CASE q # r
    BY <1>10, <1>14, <2>1 DEF Journaled, RunFile, Truthful
  <2>2. CASE q = r
    <3>1. new # None /\ new.status = "completed" /\ new \notin RemoveRun
      BY <1>3, KindFacts DEF RunFiles
    <3>2. Having(r, "failed")' = {}
      BY <1>12 DEF Having
    <3> QED
      BY <1>3, <1>10, <1>12, <1>18, <2>2, <3>1, <3>2 DEF RunFile, Truthful
  <2> QED
    BY <2>1, <2>2
<1> QED
  BY <1>1, <1>3, <1>10, <1>11, <1>13, <1>16, <1>17, <1>19 DEF Journaled

\* The snapshot is noted in the run file.
LEMMA SnapshotRuns ==
  ASSUME Types, Journaled, NEW c \in Callers, Moves(c), pc[c] = "fix_snapshot",
         pc'[c] = "fix_item", mem'[c].run = mem[c].run, mem'[c].flow = "fix",
         runs' = [runs EXCEPT ![mem[c].run].snapshot = TRUE], UNCHANGED <<journal, reapplied>>
  PROVE  StoreTypes' /\ Journaled'
<1> DEFINE r == mem[c].run
           new == [runs[r] EXCEPT !.snapshot = TRUE]
<1>0. AtWork(c) /\ mem[c].flow = "fix"
  BY WorkerFacts DEF AtWork, FixSteps, Types
<1>1. r \in Runs /\ runs[r] \in FixRun
  BY <1>0, OwnRun, RunsOfFacts DEF Journaled, RunAt
<1>2. new \in FixRun /\ new.status = runs[r].status
  BY <1>1 DEF FixRun, RunOf
<1>3. runs' = [runs EXCEPT ![r] = new]
  OBVIOUS
<1> HIDE DEF new
<1>4. runs'[r] = new /\ \A q \in Runs : q # r => runs'[q] = runs[q]
  BY <1>1, <1>3 DEF Types, StoreTypes
<1>5. StoreTypes'
  BY <1>1, <1>2, <1>3 DEF Types, StoreTypes, RunFiles
<1>6. \A q : Entries(q)' = Entries(q) /\ \A s : Having(q, s)' = Having(q, s)
  BY DEF Entries, Having
<1>7. \A d \in Callers : d # c => pc'[d] = pc[d] /\ mem'[d] = mem[d]
  BY Others DEF Types
<1>8. new # None /\ new \notin RemoveRun /\ r \notin reapplied
  BY <1>1, <1>2, KindFacts DEF Journaled, RunFile, RunFiles
<1>9. RunAt(c)'
  <2>1. pc'[c] \notin Guarding /\ pc'[c] \notin Removing \cup Restoring
    BY DEF Guarding, Removing, Restoring
  <2>2. r \notin reapplied => runs[r].status = "running"
    BY <1>0 DEF Journaled, RunAt
  <2>3. mem'[c].run = r /\ runs'[r] \in RunsOf(mem'[c].flow)
    BY <1>2, <1>4, RunsOfFacts
  <2> QED
    BY <1>2, <1>4, <2>1, <2>2, <2>3 DEF RunAt
<1>10. ASSUME NEW d \in Callers, d # c PROVE RunAt(d)'
  <2>1. AtWork(d) => mem[d].run # r /\ mem[d].run \in Runs
    BY <1>0, <1>8, <1>10, OwnRun DEF Journaled, Owners
  <2> QED
    BY <1>4, <1>6, <1>7, <1>10, <2>1 DEF Journaled, RunAt, AtWork
<1>11. Owners'
  <2>1. AtWork(c)'
    BY DEF AtWork, FixSteps
  <2> QED
    BY <1>0, <1>7, <2>1 DEF Journaled, Owners, AtWork
<1>12. ASSUME NEW q \in Runs PROVE RunFile(q)' /\ Truthful(q)'
  <2>1. CASE q # r
    BY <1>4, <1>6, <2>1 DEF Journaled, RunFile, Truthful
  <2>2. CASE q = r
    <3>1. runs[r] # None
      BY <1>0, OwnRun
    <3> QED
      BY ZenonT(60), <1>2, <1>4, <1>6, <1>8, <2>2, <3>1 DEF Journaled, RunFile, Truthful
  <2> QED
    BY <2>1, <2>2
<1> QED
  BY <1>5, <1>9, <1>10, <1>11, <1>12 DEF Journaled

\* An apply takes up a run, for the first time or again.
LEMMA StartApplyRuns ==
  ASSUME Types, Journaled, NEW c \in Callers, NEW r \in Runs, StartApply(c, r)
  PROVE  StoreTypes' /\ Journaled' /\ runs[r] \in RemoveRun /\ CallerTypes'
<1>1. runs[r] # None /\ runs[r].kind = "remove" /\ UNCHANGED journal
  BY DEF StartApply
<1>2. runs[r] \in RemoveRun
  BY <1>1, KindFacts DEF Types, StoreTypes, RunFiles
<1>3. PICK status \in {"running", "failed"} :
         /\ Finish(r, status) /\ Moves(c) /\ pc[c] = "idle"
         /\ \/ /\ status = "running" /\ pc'[c] = "apply_item"
               /\ mem'[c].run = r /\ mem'[c].flow = "apply" /\ mem'[c].done = {}
            \/ status = "failed" /\ pc'[c] = "idle"
  BY <1>2, StartApplyFacts
<1> DEFINE new == [runs[r] EXCEPT !.status = status]
<1>4. runs[r] \in RunFiles /\ runs' = [runs EXCEPT ![r] = new]
  BY <1>2, <1>3 DEF Finish, RunFiles
<1>5. /\ new \in RemoveRun /\ new \in RunFiles /\ new.status = status /\ new # None
      /\ new.scope = runs[r].scope /\ new.token = runs[r].token
  BY <1>2, <1>4, RewriteFacts, KindFacts DEF RunStatus
<1> HIDE DEF new
<1>6. runs'[r] = new /\ \A q \in Runs : q # r => runs'[q] = runs[q]
  BY <1>4 DEF Types, StoreTypes
<1>7. StoreTypes'
  BY <1>1, <1>4, <1>5 DEF Types, StoreTypes
<1>8. /\ reapplied' = reapplied \cup (IF runs[r].status = "planned" THEN {} ELSE {r})
      /\ r \notin reapplied' => runs[r].status = "planned" /\ r \notin reapplied
  BY DEF StartApply
<1>9. \A q : Entries(q)' = Entries(q) /\ \A s : Having(q, s)' = Having(q, s)
  BY <1>1 DEF Entries, Having
<1>10. \A d \in Callers : d # c => pc'[d] = pc[d] /\ mem'[d] = mem[d]
  BY <1>3, Others DEF Types
<1>11. r \notin reapplied' => /\ journal[r] = <<>> /\ Entries(r) = {}
                              /\ \A s : Having(r, s) = {}
                              /\ \A d \in Callers : AtWork(d) => mem[d].run # r
  BY <1>1, <1>8, EntryFacts DEF Types, Journaled, RunFile, RunAt, Having
<1>12. RunAt(c)'
  <2>1. CASE status = "failed"
    BY <1>3, <2>1 DEF RunAt, AtWork, FixSteps, UndoSteps, Removing, Restoring
  <2>2. CASE status = "running"
    BY <1>3, <1>5, <1>6, <1>9, <1>11, <2>2, RunsOfFacts DEF RunAt, Guarding
  <2> QED
    BY <2>1, <2>2
<1>13. ASSUME NEW d \in Callers, d # c, AtWork(d)' PROVE RunAt(d)'
  <2>1. AtWork(d) /\ mem[d].run \in Runs
    BY <1>10, <1>13, OwnRun DEF AtWork
  <2>2. CASE mem[d].run # r
    BY <1>6, <1>8, <1>9, <1>10, <1>13, <2>1, <2>2 DEF Journaled, RunAt, AtWork
  <2>3. CASE mem[d].run = r
    <3>1. r \in reapplied'
      BY <1>11, <2>1, <2>3
    <3>2. runs[r] \in RunsOf(mem[d].flow) /\ mem[d].flow = "apply" /\ pc[d] \notin Guarding
      <4>1. runs[r] \in RunsOf(mem[d].flow)
        BY <2>1, <2>3 DEF Journaled, RunAt
      <4>2. mem[d].flow \in {"fix", "undo", "apply", "restore"}
        BY <2>1, WorkerFacts DEF AtWork, Types
      <4>3. mem[d].flow = "apply"
        BY <1>1, <4>1, <4>2, RunsOfFacts, KindFacts
      <4> QED
        BY <2>1, <4>1, <4>3, WorkerFacts DEF Types, Guarding, FixSteps
    <3> QED
      BY <1>5, <1>6, <1>10, <1>13, <2>3, <3>1, <3>2, RunsOfFacts DEF RunAt
  <2> QED
    BY <2>2, <2>3
<1>14. Owners'
  <2>1. ASSUME NEW d \in Callers, d # c, AtWork(d)', AtWork(c)', mem'[d].run = mem'[c].run
        PROVE  r \in reapplied' /\ mem'[c].run = r
    <3>1. status = "running" /\ mem'[c].run = r
      BY <1>3, <2>1 DEF AtWork, FixSteps, UndoSteps, Removing, Restoring
    <3> QED
      BY <1>10, <1>11, <2>1, <3>1 DEF AtWork
  <2>2. ASSUME NEW d \in Callers, NEW e \in Callers, d # e, d # c, e # c,
               AtWork(d)', AtWork(e)', mem'[d].run = mem'[e].run
        PROVE  mem'[d].run \in reapplied'
    BY <1>8, <1>10, <2>2 DEF Journaled, Owners, AtWork
  <2> QED
    BY <2>1, <2>2 DEF Owners
<1>15. ASSUME NEW q \in Runs PROVE RunFile(q)' /\ Truthful(q)'
  <2>1. CASE q # r
    BY <1>1, <1>6, <1>8, <1>9, <2>1 DEF Journaled, RunFile, Truthful
  <2>2. CASE q = r
    <3>1. ~ \E e \in Entries(r)' : e.undo
      BY <1>2, <1>9, KindFacts DEF Journaled, RunFile
    <3>2. RunFile(r)'
      BY <1>1, <1>2, <1>3, <1>5, <1>6, <3>1 DEF Journaled, RunFile
    <3>3. Truthful(r)'
      BY <1>3, <1>5, <1>6, <1>9, <1>11 DEF Truthful
    <3> QED
      BY <2>2, <3>2, <3>3
  <2> QED
    BY <2>1, <2>2
<1> QED
  BY <1>2, <1>7, <1>12, <1>13, <1>14, <1>15, StartApplyFacts DEF Journaled, RunAt

-----------------------------------------------------------------------------
(* Every step keeps what is said of runs.                                   *)

\* A caller that goes on with its run, at a step where nothing is journaled.
LEMMA QuietCaller ==
  ASSUME Types, Journaled, NEW c \in Callers, Moves(c), UNCHANGED <<runs, journal, reapplied>>,
         \/ ~AtWork(c)'
         \/ /\ AtWork(c) /\ mem'[c].run = mem[c].run /\ mem'[c].flow = mem[c].flow
            /\ pc'[c] \in Guarding => pc[c] \in Guarding
            /\ pc'[c] \in Removing \cup Restoring =>
                  pc[c] \in Removing \cup Restoring /\ mem'[c].done = mem[c].done
  PROVE  StoreTypes' /\ Journaled'
<1>1. Resting(c)
  BY DEF Resting
<1>2. \A d \in Callers : Resting(d)
  BY <1>1, OthersRest DEF Types
<1> QED
  BY <1>2, RunsQuiet DEF Types

LEMMA RunsPermStep ==
  ASSUME Types, Journaled, NEW c \in Callers, PermStep(c), UNCHANGED missVars
  PROVE  CallerTypes' /\ StoreTypes' /\ Journaled'
<1>1. UNCHANGED reapplied
  BY DEF missVars
<1>2. CASE GuardFix(c)
  <2>1. AtWork(c) /\ mem[c].flow = "fix" /\ UNCHANGED journal /\ mem[c] \in Fixing
    BY <1>2, GuardFixFacts, FlowFacts DEF AtWork, FixSteps, GuardFix
  <2>2. CASE pc'[c] = "fix_snapshot" /\ mem'[c] = mem[c] /\ UNCHANGED runs
    BY <1>1, <1>2, <2>1, <2>2, GuardFixFacts, QuietCaller
    DEF Guarding, Removing, Restoring
  <2>3. CASE pc'[c] = "idle" /\ Finish(mem[c].run, "failed")
    <3>1. ~AtWork(c)'
      BY <2>3 DEF AtWork, FixSteps, UndoSteps, Removing, Restoring
    <3>2. Having(mem[c].run, "applied") = {}
      BY <1>2, <2>1, GuardFixFacts DEF Journaled, RunAt, Guarding, Having
    <3> QED
      BY <1>1, <1>2, <2>1, <2>3, <3>1, <3>2, GuardFixFacts, RunFinished
  <2> QED
    BY <1>2, <2>2, <2>3, GuardFixFacts
<1>3. CASE SnapshotFix(c)
  <2>1. AtWork(c) /\ mem[c].flow = "fix" /\ UNCHANGED journal /\ mem[c] \in Fixing
    BY <1>3, SnapshotFixFacts, FlowFacts DEF AtWork, FixSteps, SnapshotFix
  <2>2. CASE /\ pc'[c] = "fix_item" /\ mem'[c].run = mem[c].run /\ mem'[c].flow = "fix"
             /\ runs' = [runs EXCEPT ![mem[c].run].snapshot = TRUE]
    BY <1>1, <1>3, <2>1, <2>2, SnapshotFixFacts, SnapshotRuns
  <2>3. CASE pc'[c] = "idle" /\ Finish(mem[c].run, "failed")
    <3>1. ~AtWork(c)'
      BY <2>3 DEF AtWork, FixSteps, UndoSteps, Removing, Restoring
    <3>2. Having(mem[c].run, "applied") = {}
      BY <1>3, <2>1, SnapshotFixFacts DEF Journaled, RunAt, Guarding, Having
    <3> QED
      BY <1>1, <1>3, <2>1, <2>3, <3>1, <3>2, SnapshotFixFacts, RunFinished
  <2> QED
    BY <1>3, <2>2, <2>3, SnapshotFixFacts
<1>4. CASE SkipItem(c)
  <2>1. PICK e \in PlainEntry : ~e.undo /\ Appends(mem[c].run, e)
    BY <1>4, SkipItemFacts
  <2>2. /\ AtWork(c) /\ AtWork(c)' /\ mem[c].flow = "fix" /\ UNCHANGED runs
        /\ pc'[c] \notin Guarding /\ pc'[c] \notin Removing \cup Restoring
    BY <1>4, SkipItemFacts, FlowFacts
    DEF AtWork, FixSteps, SkipItem, Guarding, Removing, Restoring
  <2> QED
    BY <1>1, <1>4, <2>1, <2>2, SkipItemFacts, RunAppended
<1>5. CASE StatItem(c)
  <2>1. /\ AtWork(c) /\ mem[c].flow = "fix" /\ UNCHANGED <<runs, journal>>
        /\ pc'[c] \notin Guarding /\ pc'[c] \notin Removing \cup Restoring
    BY <1>5, StatItemFacts, FlowFacts
    DEF AtWork, FixSteps, StatItem, Guarding, Removing, Restoring, store
  <2> QED
    BY <1>1, <1>5, <2>1, StatItemFacts, QuietCaller
<1>6. CASE ChmodItem(c)
  <2>1. /\ AtWork(c) /\ mem[c].flow = "fix" /\ UNCHANGED <<runs, journal>>
        /\ pc'[c] \notin Guarding /\ pc'[c] \notin Removing \cup Restoring
    BY <1>6, ChmodItemFacts, FlowFacts
    DEF AtWork, FixSteps, ChmodItem, Guarding, Removing, Restoring, store
  <2> QED
    BY <1>1, <1>6, <2>1, ChmodItemFacts, QuietCaller
<1>7. CASE JournalItem(c)
  <2>1. PICK e \in PlainEntry \cup UndoEntry : Appends(mem[c].run, e)
    BY <1>7, JournalItemFacts
  <2>2. /\ AtWork(c) /\ AtWork(c)' /\ mem[c].flow = "fix" /\ UNCHANGED runs
        /\ pc'[c] \notin Guarding /\ pc'[c] \notin Removing \cup Restoring
    BY <1>7, JournalItemFacts, FlowFacts
    DEF AtWork, FixSteps, JournalItem, Guarding, Removing, Restoring
  <2> QED
    BY <1>1, <1>7, <2>1, <2>2, JournalItemFacts, RunAppended
<1>8. CASE FinishFix(c)
  <2> DEFINE done == {e.status : e \in Entries(mem[c].run)}
  <2>1. /\ AtWork(c) /\ ~AtWork(c)' /\ UNCHANGED journal
    BY <1>8, FinishFixFacts DEF AtWork, FixSteps, UndoSteps, Removing, Restoring, FinishFix
  <2>2. \A status : status \in done <=> Having(mem[c].run, status) # {}
    BY DEF Having
  <2> HIDE DEF done
  <2>3. Finish(mem[c].run, FinalStatus(done))
    BY <1>8, FinishFixFacts DEF done
  <2> QED
    BY <1>1, <1>8, <2>1, <2>2, <2>3, FinishFixFacts, FinalFacts, RunFinished
<1>9. CASE ChmodUndo(c)
  <2>1. /\ AtWork(c) /\ mem[c].flow = "undo" /\ UNCHANGED <<runs, journal>>
        /\ pc'[c] \notin Guarding /\ pc'[c] \notin Removing \cup Restoring
    BY <1>9, ChmodUndoFacts, FlowFacts
    DEF AtWork, UndoSteps, ChmodUndo, Guarding, Removing, Restoring, store
  <2> QED
    BY <1>1, <1>9, <2>1, ChmodUndoFacts, QuietCaller
<1>10. CASE JournalUndo(c)
  <2>1. PICK e \in PlainEntry : ~e.undo /\ Appends(mem[c].run, e)
    BY <1>10, JournalUndoFacts
  <2>2. /\ AtWork(c) /\ AtWork(c)' /\ mem[c].flow = "undo" /\ UNCHANGED runs
        /\ pc'[c] \notin Guarding /\ pc'[c] \notin Removing \cup Restoring
    BY <1>10, JournalUndoFacts, FlowFacts
    DEF AtWork, UndoSteps, JournalUndo, Guarding, Removing, Restoring
  <2> QED
    BY <1>1, <1>10, <2>1, <2>2, JournalUndoFacts, RunAppended
<1>11. CASE FinishUndo(c)
  <2> DEFINE done == {e.status : e \in Entries(mem[c].run)}
  <2>1. /\ AtWork(c) /\ ~AtWork(c)' /\ UNCHANGED journal
    BY <1>11, FinishUndoFacts DEF AtWork, FixSteps, UndoSteps, Removing, Restoring, FinishUndo
  <2>2. \A status : status \in done <=> Having(mem[c].run, status) # {}
    BY DEF Having
  <2> HIDE DEF done
  <2>3. Finish(mem[c].run, FinalStatus(done))
    BY <1>11, FinishUndoFacts DEF done
  <2> QED
    BY <1>1, <1>11, <2>1, <2>2, <2>3, FinishUndoFacts, FinalFacts, RunFinished
<1> QED
  BY <1>2, <1>3, <1>4, <1>5, <1>6, <1>7, <1>8, <1>9, <1>10, <1>11 DEF PermStep

LEMMA RunsPermCall ==
  ASSUME Types, Journaled, NEW c \in Callers, PermCall(c), UNCHANGED missVars
  PROVE  CallerTypes' /\ StoreTypes' /\ Journaled'
<1>1. UNCHANGED reapplied
  BY DEF missVars
<1>2. PICK r \in Runs : \/ \E flags \in FlagSets : PlanOnly(c, r, flags) \/ PlanFix(c, r, flags)
                        \/ \E u \in Runs : StartUndo(c, r, u)
  BY DEF PermCall
<1>3. ASSUME NEW flags \in FlagSets, PlanOnly(c, r, flags)
      PROVE  CallerTypes' /\ StoreTypes' /\ Journaled'
  <2>1. CallerTypes'
    BY <1>3 DEF PlanOnly, Types, CallerTypes
  <2> QED
    BY <1>1, <1>3, <2>1, PlanOnlyRuns
<1>4. ASSUME NEW flags \in FlagSets, PlanFix(c, r, flags)
      PROVE  CallerTypes' /\ StoreTypes' /\ Journaled'
  <2> DEFINE new == NewRun("fix", "running", Diagnostics, Diagnostics)
  <2>1. new \in FixRun /\ new.status = "running"
    BY DiagnosticFacts DEF Types, NewRun, FixRun, RunOf, RunStatus
  <2>2. /\ runs[r] = None /\ runs' = [runs EXCEPT ![r] = new] /\ UNCHANGED journal
    BY <1>4 DEF PlanFix, CreateRun
  <2> HIDE DEF new
  <2>3. /\ new \in RunFiles /\ new \notin RemoveRun /\ new \in RunsOf("fix")
    BY <2>1, KindFacts, RunsOfFacts DEF RunFiles
  <2>4. pc'[c] \notin Removing \cup Restoring
    BY <1>4, PlanFixFacts DEF Removing, Restoring
  <2> QED
    BY <1>1, <1>4, <2>1, <2>2, <2>3, <2>4, PlanFixFacts, RunCreated
<1>5. ASSUME NEW u \in Runs, StartUndo(c, r, u)
      PROVE  CallerTypes' /\ StoreTypes' /\ Journaled'
  <2> DEFINE new == NewRun("undo", "running", r, {e \in Entries(r) : e.undo})
  <2>1. new \in UndoRun /\ new.status = "running"
    <3>1. {e \in Entries(r) : e.undo} \subseteq UndoEntry
      BY EntryFacts DEF Types, PlainEntry
    <3> QED
      BY <3>1 DEF NewRun, UndoRun, RunOf, RunStatus
  <2>2. /\ runs[u] = None /\ runs' = [runs EXCEPT ![u] = new] /\ UNCHANGED journal
    BY <1>5 DEF StartUndo, CreateRun
  <2> HIDE DEF new
  <2>3. /\ new \in RunFiles /\ new \notin RemoveRun /\ new \in RunsOf("undo")
    BY <2>1, KindFacts, RunsOfFacts DEF RunFiles
  <2>4. pc'[c] \notin Removing \cup Restoring
    BY <1>5, StartUndoFacts DEF Removing, Restoring
  <2>5. /\ Moves(c) /\ mem'[c].run = u /\ new \in RunsOf(mem'[c].flow) /\ CallerTypes'
    BY <1>5, <2>3, StartUndoFacts
  <2>6. StoreTypes' /\ Journaled'
    BY <1>1, <2>1, <2>2, <2>3, <2>4, <2>5, RunCreated
  <2> QED
    BY <2>5, <2>6
<1> QED
  BY <1>2, <1>3, <1>4, <1>5

LEMMA RunsMissStep ==
  ASSUME Types, Journaled, NEW c \in Callers, MissStep(c)
  PROVE  CallerTypes' /\ StoreTypes' /\ Journaled'
<1>1. CASE AlreadyRemoved(c)
  <2>1. PICK e \in PlainEntry :
           /\ ~e.undo /\ Appends(mem[c].run, e)
           /\ \A status \in {"applied", "failed"} :
                 status \in mem'[c].done <=> status \in mem[c].done \/ e.status = status
    BY <1>1, AlreadyRemovedFacts
  <2>2. /\ AtWork(c) /\ AtWork(c)' /\ UNCHANGED <<runs, reapplied>>
        /\ pc'[c] \notin Guarding /\ pc[c] \in Removing \cup Restoring
    BY <1>1, AlreadyRemovedFacts
    DEF AtWork, AlreadyRemoved, missVars, Guarding, Removing, Restoring
  <2>3. mem'[c].run = mem[c].run /\ mem'[c].flow = mem[c].flow
    BY <1>1, AlreadyRemovedFacts, FlowFacts
  <2> QED
    BY <1>1, <2>1, <2>2, <2>3, AlreadyRemovedFacts, RunAppended
<1>2. CASE SkipRestored(c)
  <2>1. PICK e \in PlainEntry :
           /\ ~e.undo /\ Appends(mem[c].run, e)
           /\ \A status \in {"applied", "failed"} :
                 status \in mem'[c].done <=> status \in mem[c].done \/ e.status = status
    BY <1>2, SkipRestoredFacts
  <2>2. /\ AtWork(c) /\ AtWork(c)' /\ UNCHANGED <<runs, reapplied>>
        /\ pc'[c] \notin Guarding /\ pc[c] \in Removing \cup Restoring
    BY <1>2, SkipRestoredFacts
    DEF AtWork, SkipRestored, missVars, Guarding, Removing, Restoring
  <2>3. mem'[c].run = mem[c].run /\ mem'[c].flow = mem[c].flow
    BY <1>2, SkipRestoredFacts, FlowFacts
  <2> QED
    BY <1>2, <2>1, <2>2, <2>3, SkipRestoredFacts, RunAppended
<1>3. CASE JournalRemoval(c)
  <2>1. PICK e \in PlainEntry :
           /\ ~e.undo /\ Appends(mem[c].run, e)
           /\ \A status \in {"applied", "failed"} :
                 status \in mem'[c].done <=> status \in mem[c].done \/ e.status = status
    BY <1>3, JournalRemovalFacts
  <2>2. /\ AtWork(c) /\ AtWork(c)' /\ UNCHANGED <<runs, reapplied>>
        /\ pc'[c] \notin Guarding /\ pc[c] \in Removing \cup Restoring
    BY <1>3, JournalRemovalFacts
    DEF AtWork, JournalRemoval, missVars, Guarding, Removing, Restoring
  <2>3. mem'[c].run = mem[c].run /\ mem'[c].flow = mem[c].flow
    BY <1>3, JournalRemovalFacts, FlowFacts
  <2> QED
    BY <1>3, <2>1, <2>2, <2>3, JournalRemovalFacts, RunAppended
<1>4. CASE LoadIndex(c)
  <2>1. UNCHANGED <<runs, journal, reapplied>>
    BY <1>4 DEF LoadIndex, store, missVars
  <2>2. \/ ~AtWork(c)'
        \/ /\ AtWork(c) /\ mem'[c].run = mem[c].run /\ mem'[c].flow = mem[c].flow
           /\ pc'[c] \notin Guarding
           /\ pc[c] \in Removing \cup Restoring /\ mem'[c].done = mem[c].done
    BY <1>4, LoadIndexFacts, FlowFacts
    DEF AtWork, FixSteps, UndoSteps, DeleteSteps, Guarding, Removing, Restoring
  <2> QED
    BY <1>4, <2>1, <2>2, LoadIndexFacts, QuietCaller
<1>5. CASE CreatePoint(c)
  <2>1. UNCHANGED <<runs, journal, reapplied>>
    BY <1>5 DEF CreatePoint, store, missVars
  <2>2. \/ ~AtWork(c)'
        \/ /\ AtWork(c) /\ mem'[c].run = mem[c].run /\ mem'[c].flow = mem[c].flow
           /\ pc'[c] \notin Guarding
           /\ pc[c] \in Removing \cup Restoring /\ mem'[c].done = mem[c].done
    BY <1>5, CreatePointFacts, FlowFacts
    DEF AtWork, FixSteps, UndoSteps, DeleteSteps, Guarding, Removing, Restoring
  <2> QED
    BY <1>5, <2>1, <2>2, CreatePointFacts, QuietCaller
<1>6. CASE RemoveRows(c)
  <2>1. UNCHANGED <<runs, journal, reapplied>>
    BY <1>6 DEF RemoveRows, store, missVars
  <2>2. \/ ~AtWork(c)'
        \/ /\ AtWork(c) /\ mem'[c].run = mem[c].run /\ mem'[c].flow = mem[c].flow
           /\ pc'[c] \notin Guarding
           /\ pc[c] \in Removing \cup Restoring /\ mem'[c].done = mem[c].done
    BY <1>6, RemoveRowsFacts, FlowFacts
    DEF AtWork, FixSteps, UndoSteps, DeleteSteps, Guarding, Removing, Restoring
  <2> QED
    BY <1>6, <2>1, <2>2, RemoveRowsFacts, QuietCaller
<1>7. CASE DropPoint(c)
  <2>1. UNCHANGED <<runs, journal, reapplied>>
    BY <1>7 DEF DropPoint, store, missVars
  <2>2. \/ ~AtWork(c)'
        \/ /\ AtWork(c) /\ mem'[c].run = mem[c].run /\ mem'[c].flow = mem[c].flow
           /\ pc'[c] \notin Guarding
           /\ pc[c] \in Removing \cup Restoring /\ mem'[c].done = mem[c].done
    BY <1>7, DropPointFacts, FlowFacts
    DEF AtWork, FixSteps, UndoSteps, DeleteSteps, Guarding, Removing, Restoring
  <2> QED
    BY <1>7, <2>1, <2>2, DropPointFacts, QuietCaller
<1>8. CASE PointRestored(c)
  <2>1. UNCHANGED <<runs, journal, reapplied>>
    BY <1>8 DEF PointRestored, store, missVars
  <2>2. \/ ~AtWork(c)'
        \/ /\ AtWork(c) /\ mem'[c].run = mem[c].run /\ mem'[c].flow = mem[c].flow
           /\ pc'[c] \notin Guarding
           /\ pc[c] \in Removing \cup Restoring /\ mem'[c].done = mem[c].done
    BY <1>8, PointRestoredFacts, FlowFacts
    DEF AtWork, FixSteps, UndoSteps, DeleteSteps, Guarding, Removing, Restoring
  <2> QED
    BY <1>8, <2>1, <2>2, PointRestoredFacts, QuietCaller
<1>9. CASE InsertRows(c)
  <2>1. UNCHANGED <<runs, journal, reapplied>>
    BY <1>9 DEF InsertRows, store, missVars
  <2>2. \/ ~AtWork(c)'
        \/ /\ AtWork(c) /\ mem'[c].run = mem[c].run /\ mem'[c].flow = mem[c].flow
           /\ pc'[c] \notin Guarding
           /\ pc[c] \in Removing \cup Restoring /\ mem'[c].done = mem[c].done
    BY <1>9, InsertRowsFacts, FlowFacts
    DEF AtWork, FixSteps, UndoSteps, DeleteSteps, Guarding, Removing, Restoring
  <2> QED
    BY <1>9, <2>1, <2>2, InsertRowsFacts, QuietCaller
<1>10. CASE DeleteWrite(c)
  <2>1. UNCHANGED <<runs, journal, reapplied>> /\ ~AtWork(c)'
    BY <1>10, DeleteWriteFacts DEF DeleteWrite, store, AtWork, FixSteps, UndoSteps, Removing, Restoring
  <2> QED
    BY <1>10, <2>1, DeleteWriteFacts, QuietCaller
<1>11. CASE DeleteOrphan(c)
  <2>1. UNCHANGED <<runs, journal, reapplied>> /\ ~AtWork(c)'
    BY <1>11, DeleteOrphanFacts DEF DeleteOrphan, store, AtWork, FixSteps, UndoSteps, Removing, Restoring
  <2> QED
    BY <1>11, <2>1, DeleteOrphanFacts, QuietCaller
<1>12. CASE Capture(c)
  <2>1. UNCHANGED <<runs, journal, reapplied>>
    BY <1>12 DEF Capture, store, missVars
  <2>2. \/ ~AtWork(c)'
        \/ /\ AtWork(c) /\ mem'[c].run = mem[c].run /\ mem'[c].flow = mem[c].flow
           /\ pc'[c] \notin Guarding
           /\ pc[c] \in Removing \cup Restoring /\ mem'[c].done = mem[c].done
    BY <1>12, CaptureFacts, FlowFacts
    DEF AtWork, FixSteps, UndoSteps, DeleteSteps, Guarding, Removing, Restoring
  <2> QED
    BY <1>12, <2>1, <2>2, CaptureFacts, QuietCaller
<1>13. CASE FinishRun(c)
  <2>1. AtWork(c) /\ ~AtWork(c)' /\ UNCHANGED <<journal, reapplied>> /\ pc[c] \in Removing \cup Restoring
    BY <1>13, FinishRunFacts
    DEF AtWork, FixSteps, UndoSteps, Removing, Restoring, FinishRun, missVars
  <2>2. mem[c].run \notin reapplied =>
          \A status \in {"applied", "failed"} :
             status \in mem[c].done <=> Having(mem[c].run, status) # {}
    BY <2>1 DEF Journaled, RunAt
  <2>3. Finish(mem[c].run, FinalStatus(mem[c].done))
    BY <1>13, FinishRunFacts
  <2> QED
    BY <1>13, <2>1, <2>2, <2>3, FinishRunFacts, FinalFacts, RunFinished
<1> QED
  BY <1>1, <1>2, <1>3, <1>4, <1>5, <1>6, <1>7, <1>8, <1>9, <1>10, <1>11, <1>12, <1>13 DEF MissStep

\* What a preview plans is what it found missing.
LEMMA PreviewToken ==
  ASSUME NEW asked, NEW selected, selected = {f.asset : f \in {g \in InScope(Findings, asked) : Ready(g)}}
  PROVE  /\ selected = {f.asset : f \in InScope(Findings, selected)}
         /\ \A f \in InScope(Findings, selected) : f.status = "missing_on_disk"
<1>0. \A f : f \in InScope(Findings, asked) <=>
             /\ f.asset \in asked
             /\ \E a \in assetRows : f = [asset |-> a, status |-> AssetStatus(a)]
  BY DEF InScope, Findings
<1>1. \A a : a \in selected <=> a \in assetRows /\ a \in asked /\ a \notin present
  <2>1. ASSUME NEW a \in selected PROVE a \in assetRows /\ a \in asked /\ a \notin present
    <3>1. PICK f \in InScope(Findings, asked) : Ready(f) /\ f.asset = a
      OBVIOUS
    <3>2. PICK b \in assetRows : f = [asset |-> b, status |-> AssetStatus(b)]
      BY <1>0
    <3> QED
      BY <1>0, <3>1, <3>2 DEF Ready, AssetStatus
  <2>2. ASSUME NEW a \in assetRows, a \in asked, a \notin present PROVE a \in selected
    <3>1. [asset |-> a, status |-> AssetStatus(a)] \in InScope(Findings, asked)
      BY <1>0, <2>2
    <3> QED
      BY <2>2, <3>1 DEF Ready, AssetStatus
  <2> QED
    BY <2>1, <2>2
<1>2. \A f : f \in InScope(Findings, selected) <=>
             /\ f.asset \in selected
             /\ \E a \in assetRows : f = [asset |-> a, status |-> AssetStatus(a)]
  BY DEF InScope, Findings
<1>3. \A f \in InScope(Findings, selected) : f.status = "missing_on_disk" /\ f.asset \in selected
  BY <1>1, <1>2 DEF AssetStatus
<1>4. ASSUME NEW a \in selected PROVE \E f \in InScope(Findings, selected) : f.asset = a
  <2>1. [asset |-> a, status |-> AssetStatus(a)] \in InScope(Findings, selected)
    BY <1>1, <1>2
  <2> QED
    BY <2>1
<1> QED
  BY <1>3, <1>4

LEMMA RunsMissCall ==
  ASSUME Types, Journaled, NEW c \in Callers, MissCall(c)
  PROVE  CallerTypes' /\ StoreTypes' /\ Journaled'
<1>1. ASSUME NEW r \in Runs, NEW asked \in (SUBSET Assets) \ {{}}, Preview(c, r, asked)
      PROVE  CallerTypes' /\ StoreTypes' /\ Journaled'
  <2> DEFINE selected == {f.asset : f \in {g \in InScope(Findings, asked) : Ready(g)}}
             new == NewRun("remove", "planned", selected, InScope(Findings, selected))
  <2>1. /\ runs[r] = None /\ runs' = [runs EXCEPT ![r] = new] /\ pc[c] = "idle"
        /\ UNCHANGED <<pc, mem, journal, reapplied>>
    BY <1>1 DEF Preview, CreateRun, Call, missVars
  <2>2. selected \subseteq Assets /\ Findings \subseteq Finding
    BY DEF InScope, Findings, Finding, AssetStatus, Types, RowTypes
  <2>3. /\ selected = {f.asset : f \in InScope(Findings, selected)}
        /\ \A f \in InScope(Findings, selected) : f.status = "missing_on_disk"
    BY PreviewToken
  <2> HIDE DEF selected
  <2>4. InScope(Findings, selected) \subseteq Finding
    BY <2>2 DEF InScope
  <2>5. /\ new \in RemoveRun /\ new.status = "planned"
        /\ new.scope = selected /\ new.token = InScope(Findings, selected)
    BY <2>2, <2>4 DEF NewRun, RemoveRun, RunOf, RunStatus
  <2> HIDE DEF new
  <2>6. new \in RunFiles
    BY <2>5 DEF RunFiles
  <2>7. Moves(c) /\ ~AtWork(c)' /\ CallerTypes'
    BY <2>1, NoMove DEF Types, CallerTypes, AtWork, FixSteps, UndoSteps, Removing, Restoring
  <2> QED
    BY <2>1, <2>3, <2>5, <2>6, <2>7, RunCreated
<1>2. ASSUME NEW r \in Runs, StartApply(c, r)
      PROVE  CallerTypes' /\ StoreTypes' /\ Journaled'
  BY <1>2, StartApplyRuns
<1>3. ASSUME NEW r \in Runs, NEW ids \in (SUBSET Points) \ {{}}, StartRestore(c, r, ids)
      PROVE  CallerTypes' /\ StoreTypes' /\ Journaled'
  <2> DEFINE new == NewRun("restore", "running", ids, ids)
  <2>1. /\ runs[r] = None /\ runs' = [runs EXCEPT ![r] = new] /\ UNCHANGED <<journal, reapplied>>
    BY <1>3 DEF StartRestore, CreateRun, missVars
  <2>2. new \in RestoreRun /\ new.status = "running"
    BY DEF NewRun, RestoreRun, RunOf, RunStatus
  <2> HIDE DEF new
  <2>3. new \in RunFiles /\ new \notin RemoveRun /\ new \in RunsOf("restore")
    BY <2>2, KindFacts, RunsOfFacts DEF RunFiles
  <2>4. /\ Moves(c) /\ mem'[c].run = r /\ new \in RunsOf(mem'[c].flow)
        /\ mem'[c].done = {} /\ CallerTypes'
    BY <1>3, <2>3, StartRestoreFacts
  <2>5. StoreTypes' /\ Journaled'
    BY <2>1, <2>2, <2>3, <2>4, RunCreated
  <2> QED
    BY <2>4, <2>5
<1>4. ASSUME NEW ids \in (SUBSET Points) \ {{}}, DeletePoints(c, ids)
      PROVE  CallerTypes' /\ StoreTypes' /\ Journaled'
  <2>1. UNCHANGED <<runs, journal, reapplied>> /\ ~AtWork(c)'
    BY <1>4, DeletePointsFacts
    DEF DeletePoints, store, missVars, AtWork, FixSteps, UndoSteps, Removing, Restoring
  <2> QED
    BY <1>4, <2>1, DeletePointsFacts, QuietCaller
<1>5. CASE CollectOrphans(c)
  <2>1. UNCHANGED <<runs, journal, reapplied>> /\ ~AtWork(c)'
    BY <1>5, CollectOrphansFacts
    DEF CollectOrphans, store, missVars, AtWork, FixSteps, UndoSteps, Removing, Restoring
  <2> QED
    BY <1>5, <2>1, CollectOrphansFacts, QuietCaller
<1> QED
  BY <1>1, <1>2, <1>3, <1>4, <1>5 DEF MissCall

LEMMA RunsStep ==
  ASSUME Types, Journaled, [Next]_vars
  PROVE  CallerTypes' /\ StoreTypes' /\ Journaled'
<1>1. CASE UNCHANGED <<runs, journal, pc, mem, reapplied>>
  <2>1. \A d \in Callers : Resting(d)
    BY <1>1 DEF Resting, AtWork
  <2> QED
    BY <1>1, <2>1, RunsQuiet DEF Types, CallerTypes
<1>2. CASE Crash
  <2>1. /\ UNCHANGED <<runs, journal, reapplied>>
        /\ pc' = [d \in Callers |-> "idle"] /\ mem' = [d \in Callers |-> None]
    BY <1>2 DEF Crash, JournalCrash, MissCrash
  <2>2. \A d \in Callers : Resting(d)
    BY <2>1 DEF Resting, AtWork, FixSteps, UndoSteps, Removing, Restoring
  <2>3. CallerTypes'
    BY <2>1, IdleFits DEF CallerTypes, Steps, Memory
  <2> QED
    BY <2>1, <2>2, <2>3, RunsQuiet DEF Types
<1>3. CASE PermNext /\ UNCHANGED missVars
  <2>1. ASSUME NEW f, NEW m, ModeDrift(f, m) PROVE UNCHANGED <<runs, journal, pc, mem, reapplied>>
    BY <1>3, <2>1 DEF ModeDrift, store, missVars
  <2>2. ASSUME NEW s, Extracted(s) PROVE UNCHANGED <<runs, journal, pc, mem, reapplied>>
    BY <1>3, <2>2 DEF Extracted, store, missVars
  <2> QED
    BY <1>1, <1>3, <2>1, <2>2, RunsPermStep, RunsPermCall DEF PermNext
<1>4. CASE MissNext
  <2>1. ASSUME NEW a, FileChanges(a) PROVE UNCHANGED <<runs, journal, pc, mem, reapplied>>
    BY <2>1 DEF FileChanges, store
  <2>2. ASSUME NEW l, LinkAdded(l) PROVE UNCHANGED <<runs, journal, pc, mem, reapplied>>
    BY <2>2 DEF LinkAdded, store
  <2>3. ASSUME NEW b, AlbumGone(b) PROVE UNCHANGED <<runs, journal, pc, mem, reapplied>>
    BY <2>3 DEF AlbumGone, store
  <2> QED
    BY <1>1, <1>4, <2>1, <2>2, <2>3, RunsMissStep, RunsMissCall DEF MissNext
<1>5. CASE UNCHANGED vars
  BY <1>1, <1>5 DEF vars, journalVars, missVars
<1> QED
  BY <1>2, <1>3, <1>4, <1>5 DEF Next

-----------------------------------------------------------------------------
(* Types of modes and rows.                                                 *)

LEMMA ModeTypesStep ==
  ASSUME Types, [Next]_vars
  PROVE  ModeTypes'
<1> USE DEF Types, ModeTypes
<1>1. CASE UNCHANGED permVars
  BY <1>1 DEF permVars
<1>2. ASSUME NEW c \in Callers, ChmodItem(c) PROVE ModeTypes'
  <2>1. mem[c].file \in Files /\ UNCHANGED <<candidates, given, blurred>>
    BY <1>2, ChmodItemFacts, PathFacts DEF ChmodItem
  <2>2. CASE /\ mode[mem[c].file] # None
             /\ mode' = [mode EXCEPT ![mem[c].file] = @ \cup {"r"}]
    <3>1. mode[mem[c].file] \cup {"r"} \in Modes
      BY <2>1, <2>2 DEF Modes
    <3> QED
      BY <2>1, <2>2, <3>1
  <2> QED
    BY <1>2, <2>1, <2>2, ChmodItemFacts
<1>3. ASSUME NEW c \in Callers, ChmodUndo(c) PROVE ModeTypes'
  <2>1. UNCHANGED <<candidates, given, blurred>>
    BY <1>3 DEF ChmodUndo
  <2>2. PICK x \in mem[c].todo :
           /\ x.entry \in UndoEntry /\ PathOf[x.entry.item] \in Files
           /\ \/ mode' = [mode EXCEPT ![PathOf[x.entry.item]] = x.entry.old]
              \/ UNCHANGED mode
    BY <1>3, ChmodUndoFacts
  <2>3. x.entry.old \in Modes
    BY <2>2 DEF UndoEntry
  <2> QED
    BY <2>1, <2>2, <2>3
<1>4. ASSUME NEW f \in Files, NEW m \in Modes \cup {None}, ModeDrift(f, m) PROVE ModeTypes'
  BY <1>4 DEF ModeDrift
<1>5. ASSUME NEW s, Extracted(s) PROVE ModeTypes'
  BY <1>5 DEF Extracted
<1>6. CASE Crash
  BY <1>6 DEF Crash, PermCrash, InUse
<1>7. ASSUME NEW c \in Callers, PermStep(c) PROVE ModeTypes'
  <2>1. GuardFix(c) \/ SnapshotFix(c) \/ SkipItem(c) \/ StatItem(c) \/ JournalItem(c)
        \/ FinishFix(c) \/ JournalUndo(c) \/ FinishUndo(c) => UNCHANGED permVars
    BY DEF GuardFix, SnapshotFix, SkipItem, StatItem, JournalItem, FinishFix, JournalUndo,
           FinishUndo
  <2> QED
    BY <1>1, <1>2, <1>3, <1>7, <2>1 DEF PermStep
<1>8. ASSUME NEW c \in Callers, PermCall(c) PROVE ModeTypes'
  BY <1>1, <1>8 DEF PermCall, PlanOnly, PlanFix, StartUndo
<1> QED
  BY <1>1, <1>4, <1>5, <1>6, <1>7, <1>8 DEF Next, PermNext, vars

\* The point of a caller that works on one.
LEMMA PointFacts ==
  ASSUME Types, NEW c \in Callers, mem[c] \in Applying \cup Bringing, pc[c] \in Pointed,
         NEW status \in {"available", "restored"}, NEW p,
         p = [id |-> mem[c].point, asset |-> mem[c].asset, links |-> mem[c].links,
              status |-> status]
  PROVE  /\ p \in Point /\ With(mem[c].index, p) \subseteq Point
         /\ Without(mem[c].index, {mem[c].point}) \subseteq Point
<1>1. mem[c].asset \in Assets /\ mem[c].point \in Points
  BY WorkFacts
<1>2. mem[c].links \in SUBSET Link /\ mem[c].index \in SUBSET Point
  BY DEF Applying, Bringing, Working
<1>3. p \in Point
  BY <1>1, <1>2 DEF Point
<1> QED
  BY <1>2, <1>3 DEF With, Without

LEMMA RowTypesStep ==
  ASSUME Types, Journaled, [Next]_vars
  PROVE  RowTypes'
<1> USE DEF Types, RowTypes
<1>1. CASE UNCHANGED missVars
  BY <1>1 DEF missVars, database
<1>2. ASSUME NEW c \in Callers, MissStep(c) PROVE RowTypes'
  <2>1. AlreadyRemoved(c) \/ Capture(c) \/ JournalRemoval(c) \/ FinishRun(c) \/ SkipRestored(c)
           => UNCHANGED missVars
    BY DEF AlreadyRemoved, Capture, JournalRemoval, FinishRun, SkipRestored
  <2>2. CASE LoadIndex(c)
    BY <2>2 DEF LoadIndex, database
  <2>3. CASE CreatePoint(c)
    <3>1. mem[c] \in Applying /\ pc[c] \in Pointed
      BY <2>3, CreatePointFacts DEF Pointed
    <3>2. index' \subseteq Point
      BY <2>3, <3>1, PointFacts DEF CreatePoint, WriteIndex
    <3> QED
      BY <2>3, <3>2 DEF CreatePoint, database
  <2>4. CASE RemoveRows(c)
    <3>1. mem[c].asset \in Assets
      BY <2>4, WorkFacts, RemoveRowsFacts DEF Pointed
    <3>2. /\ assetRows' \subseteq assetRows /\ links' \subseteq links
          /\ clashed' \subseteq clashed \cup {mem[c].asset}
          /\ \/ removed' = removed
             \/ removed' = [removed EXCEPT ![mem[c].asset] = LinksOf(mem[c].asset)]
      BY <2>4 DEF RemoveRows
    <3>3. LinksOf(mem[c].asset) \in SUBSET Link
      BY DEF LinksOf
    <3> QED
      BY <2>4, <3>1, <3>2, <3>3 DEF RemoveRows
  <2>5. CASE DropPoint(c)
    <3>1. mem[c] \in Applying /\ pc[c] \in Pointed
      BY <2>5, DropPointFacts DEF Pointed
    <3>2. index' \subseteq Point
      BY <2>5, <3>1, PointFacts DEF DropPoint, WriteIndex
    <3> QED
      BY <2>5, <3>2 DEF DropPoint, database
  <2>6. CASE InsertRows(c)
    <3>1. PICK p \in mem[c].todo :
             /\ p \in Point
             /\ \/ /\ assetRows' = assetRows \cup {p.asset} /\ links' = links \cup p.links
                   /\ removed' = [removed EXCEPT ![p.asset] = None]
                   /\ clashed' = IF p.asset \in UnderApply THEN clashed \cup {p.asset} ELSE clashed
                \/ UNCHANGED <<assetRows, links, removed, clashed>>
      BY <2>6, InsertRowsFacts
    <3>2. p.asset \in Assets /\ p.links \subseteq Link
      BY <3>1 DEF Point
    <3>3. UNCHANGED <<albumRows, present, index, dropped, reapplied>>
      BY <2>6 DEF InsertRows
    <3> QED
      BY <3>1, <3>2, <3>3
  <2>7. CASE PointRestored(c)
    <3>1. mem[c] \in Bringing /\ pc[c] \in Pointed
      BY <2>7, PointRestoredFacts DEF Pointed
    <3>2. index' \subseteq Point
      BY <2>7, <3>1, PointFacts DEF PointRestored, WriteIndex
    <3> QED
      BY <2>7, <3>2 DEF PointRestored, database
  <2>8. CASE DeleteWrite(c)
    <3>1. mem[c].index \subseteq Point /\ mem[c].todo \subseteq Points
      BY <2>8, DeleteWriteFacts DEF Deleting, Working
    <3> QED
      BY <2>8, <3>1 DEF DeleteWrite, WriteIndex, Without, database
  <2>9. CASE DeleteOrphan(c)
    BY <2>9 DEF DeleteOrphan
  <2> QED
    BY <1>1, <1>2, <2>1, <2>2, <2>3, <2>4, <2>5, <2>6, <2>7, <2>8, <2>9 DEF MissStep
<1>3. ASSUME NEW c \in Callers, MissCall(c) PROVE RowTypes'
  <2>1. ASSUME NEW r \in Runs, StartApply(c, r) PROVE RowTypes'
    BY <2>1 DEF StartApply, database
  <2>2. ASSUME NEW r, NEW asked, Preview(c, r, asked) PROVE UNCHANGED missVars
    BY <2>2 DEF Preview
  <2>3. ASSUME NEW r, NEW ids, StartRestore(c, r, ids) PROVE UNCHANGED missVars
    BY <2>3 DEF StartRestore
  <2>4. ASSUME NEW ids, DeletePoints(c, ids) PROVE UNCHANGED missVars
    BY <2>4 DEF DeletePoints
  <2>5. CollectOrphans(c) => UNCHANGED missVars
    BY DEF CollectOrphans
  <2> QED
    BY <1>1, <1>3, <2>1, <2>2, <2>3, <2>4, <2>5 DEF MissCall
<1>4. ASSUME NEW a \in Assets, FileChanges(a) PROVE RowTypes'
  BY <1>4 DEF FileChanges, database
<1>5. ASSUME NEW l \in Link, LinkAdded(l) PROVE RowTypes'
  BY <1>5 DEF LinkAdded, Link
<1>6. ASSUME NEW b, AlbumGone(b) PROVE RowTypes'
  BY <1>6 DEF AlbumGone
<1>7. CASE Crash
  BY <1>7 DEF Crash, MissCrash, database
<1> QED
  BY <1>1, <1>2, <1>3, <1>4, <1>5, <1>6, <1>7 DEF Next, MissNext, vars

-----------------------------------------------------------------------------
(* What a finished run tells.                                               *)

LEMMA RunsInit == Init => Types /\ Journaled
<1> SUFFICES ASSUME Init PROVE Types /\ Journaled
  OBVIOUS
<1> USE DEF Init, JournalInit, PermInit, MissInit
<1>1. CallerTypes
  BY IdleFits DEF CallerTypes, Steps, Memory
<1>2. StoreTypes
  BY DEF StoreTypes
<1>3. ModeTypes
  BY DEF ModeTypes
<1>4. RowTypes
  BY DEF RowTypes, Link
<1>5. \A c \in Callers : ~AtWork(c)
  BY DEF AtWork, FixSteps, UndoSteps, Removing, Restoring
<1>6. \A r \in Runs : RunFile(r) /\ Truthful(r)
  <2>1. \A r \in Runs : journal[r] = <<>> /\ runs[r] = None /\ Entries(r) = {}
    BY DEF Entries
  <2> QED
    BY <2>1, KindFacts DEF RunFile, Truthful, RunFiles
<1> QED
  BY <1>1, <1>2, <1>3, <1>4, <1>5, <1>6 DEF Types, Journaled, RunAt, Owners

LEMMA SpecRuns == Spec => [](Types /\ Journaled)
<1>1. (Types /\ Journaled) /\ [Next]_vars => (Types /\ Journaled)'
  BY RunsStep, ModeTypesStep, RowTypesStep DEF Types
<1> QED
  BY <1>1, RunsInit, PTL DEF Spec

\* A finished run tells what its journal tells, whoever applied, undid or
\* restored meanwhile: the status FinalStatus computes from what a caller has
\* in mind is borne out by the journal, because no other caller writes there.
THEOREM FinishedRunsTruthful == Spec => []RunTruthful
<1>1. Types /\ Journaled => RunTruthful
  BY DEF Journaled, Truthful, RunTruthful
<1> QED
  BY <1>1, SpecRuns, PTL

-----------------------------------------------------------------------------
(* How runs evolve.                                                         *)

\* Entries of a run that granted access to a file.
Repaired(q, f) == {e \in Entries(q) : e.undo /\ PathOf[e.item] = f}

\* Journals grow; a completed repair stays as it is, an undo keeps its scope.
Kept(r) ==
    /\ Entries(r) \subseteq Entries(r)'
    /\ runs[r] \in UndoRun => runs'[r].scope = runs[r].scope
    /\ runs[r] \in FixRun /\ runs[r].status = "completed" =>
          runs'[r] = runs[r] /\ journal'[r] = journal[r]
Steady == \A r \in Runs : Kept(r)
\* No mode change is journaled.
NoGrant == \A r \in Runs : \A f : Repaired(r, f)' = Repaired(r, f)

\* Nobody works on a completed repair.
LEMMA CompletedAlone ==
  ASSUME Types, Journaled, NEW r \in Runs, runs[r] \in FixRun, runs[r].status = "completed",
         NEW c \in Callers, AtWork(c)
  PROVE  mem[c].run # r
<1>1. r \notin reapplied
  BY KindFacts DEF Journaled, RunFile
<1> QED
  BY <1>1 DEF Journaled, RunAt

LEMMA KeptRewritten ==
  ASSUME Types, NEW r \in Runs, NEW new, runs' = [runs EXCEPT ![r] = new], UNCHANGED journal,
         ~(runs[r] \in FixRun /\ runs[r].status = "completed"),
         runs[r] \in UndoRun => new.scope = runs[r].scope
  PROVE  Steady /\ NoGrant
<1>1. \A q : Entries(q)' = Entries(q)
  BY DEF Entries
<1>2. runs'[r] = new /\ \A q \in Runs : q # r => runs'[q] = runs[q]
  BY DEF Types, StoreTypes
<1> QED
  BY <1>1, <1>2 DEF Steady, Kept, NoGrant, Repaired

LEMMA KeptQuiet ==
  ASSUME UNCHANGED <<runs, journal>> PROVE Steady /\ NoGrant
  BY DEF Steady, Kept, NoGrant, Repaired, Entries

LEMMA KeptCreated ==
  ASSUME Types, NEW r \in Runs, runs[r] = None, NEW new, CreateRun(r, new), UNCHANGED journal
  PROVE  Steady /\ NoGrant
  BY KeptRewritten, KindFacts DEF CreateRun, RunFiles

LEMMA KeptFinished ==
  ASSUME Types, Journaled, NEW c \in Callers, AtWork(c), NEW status \in RunStatus,
         Finish(mem[c].run, status), UNCHANGED journal
  PROVE  Steady /\ NoGrant
<1> DEFINE r == mem[c].run
           new == [runs[r] EXCEPT !.status = status]
<1>1. r \in Runs /\ runs[r] \in RunFiles
  BY OwnRun
<1>2. new.scope = runs[r].scope
  BY <1>1, RewriteFacts
<1>3. runs' = [runs EXCEPT ![r] = new]
  BY DEF Finish
<1>4. ~(runs[r] \in FixRun /\ runs[r].status = "completed")
  BY <1>1, CompletedAlone
<1> HIDE DEF r, new
<1> QED
  BY <1>1, <1>2, <1>3, <1>4, KeptRewritten

LEMMA KeptAppended ==
  ASSUME Types, Journaled, NEW c \in Callers, AtWork(c), UNCHANGED runs,
         NEW e \in PlainEntry \cup UndoEntry, Appends(mem[c].run, e)
  PROVE  /\ Steady
         /\ \A q \in Runs : /\ q # mem[c].run => Entries(q)' = Entries(q)
                            /\ q = mem[c].run => Entries(q)' = Entries(q) \cup {e}
         /\ ~e.undo => NoGrant
<1>1. PICK r \in Runs : r = mem[c].run
  BY OwnRun
<1>2. /\ \A q \in Runs : q # r => journal'[q] = journal[q]
      /\ Entries(r)' = Entries(r) \cup {e}
  BY <1>1, AppendFacts DEF Types
<1>3. \A q \in Runs : q # r => Entries(q)' = Entries(q)
  BY <1>2 DEF Entries
<1>4. \A q \in Runs : runs[q] \in FixRun /\ runs[q].status = "completed" => q # r
  BY <1>1, CompletedAlone
<1>5. Steady
  BY <1>2, <1>3, <1>4 DEF Steady, Kept
<1>6. ASSUME ~e.undo, NEW q \in Runs, NEW f PROVE Repaired(q, f)' = Repaired(q, f)
  BY <1>2, <1>3, <1>6 DEF Repaired
<1> QED
  BY <1>1, <1>2, <1>3, <1>5, <1>6 DEF NoGrant

\* Only a repair that journals a mode adds such an entry.
LEMMA EvolvePerm ==
  ASSUME Types, Journaled, NEW c \in Callers, PermStep(c) \/ PermCall(c), UNCHANGED missVars
  PROVE  Steady /\ (NoGrant \/ (JournalItem(c) /\ pc[c] = "fix_applied"))
<1>1. CASE SkipItem(c)
  <2>1. PICK e \in PlainEntry : ~e.undo /\ Appends(mem[c].run, e)
    BY <1>1, SkipItemFacts
  <2>2. AtWork(c) /\ UNCHANGED runs
    BY <1>1, SkipItemFacts DEF SkipItem, AtWork, FixSteps, UndoSteps
  <2> QED
    BY <2>1, <2>2, KeptAppended
<1>2. CASE JournalUndo(c)
  <2>1. PICK e \in PlainEntry : ~e.undo /\ Appends(mem[c].run, e)
    BY <1>2, JournalUndoFacts
  <2>2. AtWork(c) /\ UNCHANGED runs
    BY <1>2, JournalUndoFacts DEF JournalUndo, AtWork, FixSteps, UndoSteps
  <2> QED
    BY <2>1, <2>2, KeptAppended
<1>3. CASE JournalItem(c)
  <2>1. AtWork(c) /\ UNCHANGED runs
    BY <1>3, JournalItemFacts DEF JournalItem, AtWork, FixSteps
  <2>2. CASE pc[c] = "fix_failed"
    <3>1. PICK e \in PlainEntry : ~e.undo /\ Appends(mem[c].run, e)
      BY <1>3, <2>2, JournalItemFacts
    <3> QED
      BY <2>1, <3>1, KeptAppended
  <2>3. CASE pc[c] = "fix_applied"
    <3>1. PICK e \in UndoEntry : Appends(mem[c].run, e)
      BY <1>3, <2>3, JournalItemFacts
    <3> QED
      BY <1>3, <2>1, <2>3, <3>1, KeptAppended
  <2> QED
    BY <1>3, <2>2, <2>3, JournalItemFacts
<1>4. CASE FinishFix(c)
  <2>1. PICK status \in RunStatus : Finish(mem[c].run, status)
    BY <1>4, FinishFixFacts, FinalFacts DEF RunStatus
  <2>2. AtWork(c) /\ UNCHANGED journal
    BY <1>4, FinishFixFacts DEF FinishFix, AtWork, FixSteps, UndoSteps
  <2> QED
    BY <2>1, <2>2, KeptFinished
<1>5. CASE FinishUndo(c)
  <2>1. PICK status \in RunStatus : Finish(mem[c].run, status)
    BY <1>5, FinishUndoFacts, FinalFacts DEF RunStatus
  <2>2. AtWork(c) /\ UNCHANGED journal
    BY <1>5, FinishUndoFacts DEF FinishUndo, AtWork, FixSteps, UndoSteps
  <2> QED
    BY <2>1, <2>2, KeptFinished
<1>6. CASE GuardFix(c)
  <2>1. AtWork(c) /\ UNCHANGED journal /\ "failed" \in RunStatus
    BY <1>6, GuardFixFacts DEF GuardFix, AtWork, FixSteps, RunStatus
  <2>2. UNCHANGED runs \/ Finish(mem[c].run, "failed")
    BY <1>6, GuardFixFacts
  <2> QED
    BY <2>1, <2>2, KeptFinished, KeptQuiet
<1>7. CASE SnapshotFix(c)
  <2>1. AtWork(c) /\ UNCHANGED journal /\ "failed" \in RunStatus /\ mem[c].flow = "fix"
    BY <1>7, SnapshotFixFacts, FlowFacts DEF SnapshotFix, AtWork, FixSteps, RunStatus
  <2>2. CASE Finish(mem[c].run, "failed")
    BY <2>1, <2>2, KeptFinished
  <2>3. CASE runs' = [runs EXCEPT ![mem[c].run].snapshot = TRUE]
    <3>1. mem[c].run \in Runs /\ runs[mem[c].run] \in FixRun
      BY <2>1, OwnRun, RunsOfFacts DEF Journaled, RunAt
    <3>2. runs[mem[c].run] \notin UndoRun
      BY <3>1, KindFacts
    <3>3. ~(runs[mem[c].run] \in FixRun /\ runs[mem[c].run].status = "completed")
      BY <2>1, <3>1, CompletedAlone
    <3>4. \E new : runs' = [runs EXCEPT ![mem[c].run] = new]
      BY <2>3
    <3> QED
      BY <2>1, <3>1, <3>2, <3>3, <3>4, KeptRewritten
  <2> QED
    BY <1>7, <2>2, <2>3, SnapshotFixFacts
<1>8. CASE StatItem(c) \/ ChmodItem(c) \/ ChmodUndo(c)
  BY <1>8, KeptQuiet DEF StatItem, ChmodItem, ChmodUndo, store
<1>9. CASE PermCall(c)
  <2>1. ASSUME NEW r \in Runs, NEW flags \in FlagSets, PlanOnly(c, r, flags) PROVE Steady /\ NoGrant
    <3>1. /\ runs[r] = None /\ \A q \in Runs : q # r => runs'[q] = runs[q] /\ journal'[q] = journal[q]
          /\ StoreTypes' /\ runs'[r] \in FixRun /\ Undoable(r)' = {}
      BY <2>1, PlanOnlyRuns DEF missVars
    <3>2. Entries(r) = {}
      BY <3>1, EntryFacts DEF Journaled, RunFile, Types
    <3>3. \A e \in Entries(r)' : ~e.undo
      BY <3>1 DEF Undoable, Entries
    <3>4. \A q \in Runs : q # r => Entries(q)' = Entries(q)
      BY <3>1 DEF Entries
    <3>5. runs[r] \notin UndoRun /\ runs[r] \notin FixRun
      BY <3>1, KindFacts DEF RunFiles
    <3> QED
      BY <3>1, <3>2, <3>3, <3>4, <3>5 DEF Steady, Kept, NoGrant, Repaired
  <2>2. ASSUME NEW r \in Runs, NEW flags \in FlagSets, PlanFix(c, r, flags) PROVE Steady /\ NoGrant
    BY <2>2, KeptCreated DEF PlanFix
  <2>3. ASSUME NEW r \in Runs, NEW u \in Runs, StartUndo(c, r, u) PROVE Steady /\ NoGrant
    BY <2>3, KeptCreated DEF StartUndo
  <2> QED
    BY <1>9, <2>1, <2>2, <2>3 DEF PermCall
<1> QED
  BY <1>1, <1>2, <1>3, <1>4, <1>5, <1>6, <1>7, <1>8, <1>9 DEF PermStep

LEMMA EvolveMiss ==
  ASSUME Types, Journaled, NEW c \in Callers, MissStep(c) \/ MissCall(c)
  PROVE  Steady /\ NoGrant
<1>1. CASE AlreadyRemoved(c)
  <2>1. PICK e \in PlainEntry : ~e.undo /\ Appends(mem[c].run, e)
    BY <1>1, AlreadyRemovedFacts
  <2>2. AtWork(c) /\ UNCHANGED runs
    BY <1>1, AlreadyRemovedFacts DEF AlreadyRemoved, AtWork, Removing, Restoring
  <2> QED
    BY <2>1, <2>2, KeptAppended
<1>2. CASE SkipRestored(c)
  <2>1. PICK e \in PlainEntry : ~e.undo /\ Appends(mem[c].run, e)
    BY <1>2, SkipRestoredFacts
  <2>2. AtWork(c) /\ UNCHANGED runs
    BY <1>2, SkipRestoredFacts DEF SkipRestored, AtWork, Removing, Restoring
  <2> QED
    BY <2>1, <2>2, KeptAppended
<1>3. CASE JournalRemoval(c)
  <2>1. PICK e \in PlainEntry : ~e.undo /\ Appends(mem[c].run, e)
    BY <1>3, JournalRemovalFacts
  <2>2. AtWork(c) /\ UNCHANGED runs
    BY <1>3, JournalRemovalFacts DEF JournalRemoval, AtWork, Removing, Restoring
  <2> QED
    BY <2>1, <2>2, KeptAppended
<1>4. CASE FinishRun(c)
  <2>1. PICK status \in RunStatus : Finish(mem[c].run, status)
    BY <1>4, FinishRunFacts, FinalFacts DEF RunStatus
  <2>2. AtWork(c) /\ UNCHANGED journal
    BY <1>4, FinishRunFacts DEF FinishRun, AtWork, Removing, Restoring
  <2> QED
    BY <2>1, <2>2, KeptFinished
<1>5. CASE \/ Capture(c) \/ LoadIndex(c) \/ CreatePoint(c) \/ RemoveRows(c) \/ DropPoint(c)
           \/ InsertRows(c) \/ PointRestored(c) \/ DeleteWrite(c) \/ DeleteOrphan(c)
  BY <1>5, KeptQuiet
  DEF Capture, LoadIndex, CreatePoint, RemoveRows, DropPoint, InsertRows, PointRestored,
      DeleteWrite, DeleteOrphan, store
<1>6. CASE MissCall(c)
  <2>1. ASSUME NEW r \in Runs, NEW asked, Preview(c, r, asked) PROVE Steady /\ NoGrant
    BY <2>1, KeptCreated DEF Preview
  <2>2. ASSUME NEW r \in Runs, NEW ids, StartRestore(c, r, ids) PROVE Steady /\ NoGrant
    BY <2>2, KeptCreated DEF StartRestore
  <2>3. ASSUME NEW r \in Runs, StartApply(c, r) PROVE Steady /\ NoGrant
    <3>1. runs[r] \in RemoveRun /\ UNCHANGED journal
      BY <2>3, StartApplyRuns DEF StartApply
    <3>2. runs[r] \notin FixRun /\ runs[r] \notin UndoRun
      BY <3>1, KindFacts
    <3>3. \E new : runs' = [runs EXCEPT ![r] = new]
      BY <2>3 DEF StartApply, Finish
    <3> QED
      BY <3>1, <3>2, <3>3, KeptRewritten
  <2>4. ASSUME NEW ids, DeletePoints(c, ids) PROVE Steady /\ NoGrant
    BY <2>4, KeptQuiet DEF DeletePoints, store
  <2>5. CASE CollectOrphans(c)
    BY <2>5, KeptQuiet DEF CollectOrphans, store
  <2> QED
    BY <1>6, <2>1, <2>2, <2>3, <2>4, <2>5 DEF MissCall
<1> QED
  BY <1>1, <1>2, <1>3, <1>4, <1>5, <1>6 DEF MissStep

-----------------------------------------------------------------------------
(* Modes.                                                                   *)

\* add_read_permissions
More(m) == m \cup {"r"}
\* A repair has set the mode of a file and has not journaled it yet.
Granted(c, f) == pc[c] = "fix_applied" /\ mem[c].file = f

\* That others gave a file the mode it had before a repair is known.
KnownFrom(f) ==
    \/ \E q \in Runs : \E e \in Repaired(q, f) : e.old = given[f] /\ e.new = More(given[f])
    \/ \E c \in Callers : /\ Granted(c, f)
                          /\ mem[c].old = given[f] /\ mem[c].new = More(given[f])
\* A mode is the given one, or what a repair made of it.
Fits(m, f) == m = given[f] \/ (m = More(given[f]) /\ KnownFrom(f))

ModeKnown(f) ==
    /\ mode[f] = None <=> given[f] = None
    /\ mode[f] # None => Fits(mode[f], f)
    /\ \A q \in Runs : \A e \in Repaired(q, f) :
          e.new = More(e.old) /\ (e.new = given[f] => e.old = given[f])

\* What a caller has seen of a file, or is to do with it.
CallerMode(c, f) ==
    /\ pc[c] = "fix_chmod" /\ mem[c].file = f /\ mem[c].old # None =>
          given[f] # None /\ Fits(mem[c].old, f)
    /\ Granted(c, f) =>
          given[f] # None /\ Fits(mem[c].old, f) /\ mem[c].new = More(given[f])
    /\ pc[c] \in UndoSteps => \A x \in mem[c].todo :
          PathOf[x.entry.item] = f =>
             given[f] # None /\ Fits(x.entry.old, f) /\ x.entry.new = More(given[f])

ModeOf(f) == ModeKnown(f) /\ \A c \in Callers : CallerMode(c, f)

\* The file has the mode others gave it, or another run has granted access.
Settled(r, f) ==
    \/ f \in blurred
    \/ mode[f] = given[f]
    \/ \E c \in Callers : Granted(c, f) /\ mem[c].new = mode[f]
    \/ \E q \in Runs \ {r} : \E e \in Repaired(q, f) : e.new = mode[f]

Completed(r) == runs[r] \in FixRun /\ runs[r].status = "completed"
OneEach(r) == \A f \in Files : \A e, d \in Repaired(r, f) : e = d

\* An undo works on a completed repair; what it has undone is settled, or it
\* journals a failure.
UndoOf(c, u, r) ==
    /\ Completed(r) /\ mem[c].todo \subseteq Undoable(r)
    /\ OneEach(r) =>
          \A x \in Undoable(r) \ mem[c].todo :
             \/ Settled(r, PathOf[x.entry.item])
             \/ Having(u, "failed") # {}
             \/ pc[c] = "undo_journal" /\ ~mem[c].ok
UndoAt(c) ==
    pc[c] \in UndoSteps =>
        \E u, r \in Runs : u = mem[c].run /\ r = runs[u].scope /\ UndoOf(c, u, r)

Modal == (\A f \in Files \ blurred : ModeOf(f)) /\ \A c \in Callers : UndoAt(c)

LEMMA MoreFacts ==
    \A m, g \in Modes :
        /\ More(m) \in Modes /\ More(More(m)) = More(m)
        /\ More(m) = More(g) => m = g \/ m = More(g) \/ More(m) = g
<1> SUFFICES ASSUME NEW m \in Modes, NEW g \in Modes
             PROVE  /\ More(m) \in Modes /\ More(More(m)) = More(m)
                    /\ More(m) = More(g) => m = g \/ m = More(g) \/ More(m) = g
  OBVIOUS
<1>1. More(m) \in Modes /\ More(More(m)) = More(m)
  BY DEF More, Modes
<1>2. ASSUME More(m) = More(g), "r" \in m PROVE m = More(g)
  <2>1. m = More(m)
    BY <1>2 DEF More
  <2> QED
    BY <1>2, <2>1
<1>3. ASSUME More(m) = More(g), "r" \in g PROVE More(m) = g
  <2>1. g = More(g)
    BY <1>3 DEF More
  <2> QED
    BY <1>3, <2>1
<1>4. ASSUME More(m) = More(g), "r" \notin m, "r" \notin g PROVE m = g
  BY <1>4 DEF More
<1> QED
  BY <1>1, <1>2, <1>3, <1>4

\* A mode that was granted is journaled as it was, in a run that is not complete.
HandsOver(c, f) ==
    Granted(c, f) =>
        \/ pc'[c] = "fix_applied" /\ mem'[c] = mem[c]
        \/ \E q \in Runs : ~Completed(q) /\ \E e \in Repaired(q, f)' :
              e.old = mem[c].old /\ e.new = mem[c].new
\* A caller has nothing new in hand.
GoesOn(c, f) ==
    /\ pc'[c] \in {"fix_chmod", "fix_applied"} /\ mem'[c].file = f =>
          pc'[c] = pc[c] /\ mem'[c] = mem[c]
    /\ pc'[c] \in UndoSteps => pc[c] \in UndoSteps /\ mem'[c].todo \subseteq mem[c].todo

LEMMA RepairedGrow ==
  ASSUME Steady, NEW q \in Runs, NEW f PROVE Repaired(q, f) \subseteq Repaired(q, f)'
  BY DEF Steady, Kept, Repaired

LEMMA KnownKept ==
  ASSUME NEW f, given'[f] = given[f], Steady, \A d \in Callers : HandsOver(d, f), KnownFrom(f)
  PROVE  KnownFrom(f)'
<1>1. CASE \E q \in Runs : \E e \in Repaired(q, f) : e.old = given[f] /\ e.new = More(given[f])
  BY <1>1, RepairedGrow DEF KnownFrom, More
<1>2. CASE \E c \in Callers : /\ Granted(c, f)
                              /\ mem[c].old = given[f] /\ mem[c].new = More(given[f])
  <2>1. PICK c \in Callers : /\ Granted(c, f)
                             /\ mem[c].old = given[f] /\ mem[c].new = More(given[f])
    BY <1>2
  <2>2. CASE pc'[c] = "fix_applied" /\ mem'[c] = mem[c]
    BY <2>1, <2>2 DEF KnownFrom, Granted, More
  <2>3. CASE \E q \in Runs : \E e \in Repaired(q, f)' : e.old = mem[c].old /\ e.new = mem[c].new
    BY <2>1, <2>3 DEF KnownFrom, More
  <2> QED
    BY <2>1, <2>2, <2>3 DEF HandsOver
<1> QED
  BY <1>1, <1>2 DEF KnownFrom

LEMMA CallerKept ==
  ASSUME NEW f, NEW d \in Callers, given'[f] = given[f], KnownFrom(f) => KnownFrom(f)',
         CallerMode(d, f), GoesOn(d, f)
  PROVE  CallerMode(d, f)'
<1>2. ASSUME pc'[d] = "fix_chmod", mem'[d].file = f, mem'[d].old # None
      PROVE  given'[f] # None /\ Fits(mem[d].old, f)'
  <2>1. given[f] # None /\ Fits(mem[d].old, f) /\ mem'[d] = mem[d]
    BY <1>2 DEF CallerMode, GoesOn
  <2> QED
    BY <2>1 DEF Fits, More
<1>3. ASSUME Granted(d, f)'
      PROVE  given'[f] # None /\ Fits(mem[d].old, f)' /\ mem'[d].new = More(given'[f])
  <2>1. /\ given[f] # None /\ Fits(mem[d].old, f) /\ mem'[d] = mem[d]
        /\ mem[d].new = More(given[f])
    BY <1>3 DEF CallerMode, GoesOn, Granted
  <2> QED
    BY <2>1 DEF Fits, More
<1>4. ASSUME pc'[d] \in UndoSteps, NEW x \in mem'[d].todo, PathOf[x.entry.item] = f
      PROVE  given'[f] # None /\ Fits(x.entry.old, f)' /\ x.entry.new = More(given'[f])
  BY <1>4 DEF CallerMode, GoesOn, Fits, More
<1> QED
  BY <1>2, <1>3, <1>4 DEF CallerMode, Fits, More

\* A step that does not touch a file.
LEMMA ModeQuiet ==
  ASSUME NEW f, ModeOf(f), mode'[f] = mode[f], given'[f] = given[f], Steady,
         \A q \in Runs : Repaired(q, f)' = Repaired(q, f),
         \A d \in Callers : HandsOver(d, f) /\ GoesOn(d, f)
  PROVE  ModeOf(f)'
<1>1. KnownFrom(f) => KnownFrom(f)'
  BY KnownKept
<1>2. \A d \in Callers : CallerMode(d, f)'
  BY <1>1, CallerKept DEF ModeOf
<1>3. ModeKnown(f)'
  BY <1>1 DEF ModeOf, ModeKnown, Fits, More
<1> QED
  BY <1>2, <1>3 DEF ModeOf

LEMMA SettledKept ==
  ASSUME NEW f, NEW r \in Runs, Completed(r), Steady, blurred \subseteq blurred',
         mode'[f] = mode[f], given'[f] = given[f], \A d \in Callers : HandsOver(d, f),
         Settled(r, f)
  PROVE  Settled(r, f)'
<1>1. CASE f \in blurred \/ mode[f] = given[f]
  BY <1>1 DEF Settled
<1>2. CASE \E q \in Runs \ {r} : \E e \in Repaired(q, f) : e.new = mode[f]
  BY <1>2, RepairedGrow DEF Settled
<1>3. CASE \E c \in Callers : Granted(c, f) /\ mem[c].new = mode[f]
  <2>1. PICK c \in Callers : Granted(c, f) /\ mem[c].new = mode[f]
    BY <1>3
  <2>2. CASE pc'[c] = "fix_applied" /\ mem'[c] = mem[c]
    BY <2>1, <2>2 DEF Settled, Granted
  <2>3. CASE \E q \in Runs : ~Completed(q) /\ \E e \in Repaired(q, f)' : e.new = mem[c].new
    BY <2>1, <2>3 DEF Settled
  <2> QED
    BY <2>1, <2>2, <2>3 DEF HandsOver
<1> QED
  BY <1>1, <1>2, <1>3 DEF Settled

\* What is settled stays so.
SettledStep ==
    \A r \in Runs : \A f \in Files :
        Completed(r) /\ OneEach(r) /\ Settled(r, f) => Settled(r, f)'

LEMMA UndoFacts ==
  ASSUME Types, Journaled, NEW c \in Callers, pc[c] \in UndoSteps
  PROVE  AtWork(c) /\ mem[c].run \in Runs /\ runs[mem[c].run] \in UndoRun
<1>1. AtWork(c)
  BY DEF AtWork
<1>2. mem[c].flow = "undo"
  BY <1>1, WorkerFacts DEF Types
<1> QED
  BY <1>1, <1>2, OwnRun, RunsOfFacts DEF Journaled, RunAt

\* A completed repair with what it has to undo.
LEMMA CompletedKept ==
  ASSUME Steady, NEW r \in Runs, Completed(r)
  PROVE  /\ Completed(r)' /\ Undoable(r)' = Undoable(r) /\ Entries(r)' = Entries(r)
         /\ OneEach(r)' => OneEach(r)
<1>1. runs'[r] = runs[r] /\ journal'[r] = journal[r]
  BY DEF Steady, Kept, Completed
<1>2. Undoable(r)' = Undoable(r) /\ Entries(r)' = Entries(r)
  BY <1>1 DEF Undoable, Entries
<1>3. OneEach(r)' => OneEach(r)
  BY <1>2 DEF OneEach, Repaired
<1> QED
  BY <1>1, <1>2, <1>3 DEF Completed

\* An undo that goes on, with fewer entries to undo or not.
LEMMA UndoGoesOn ==
  ASSUME Types, Journaled, Steady, SettledStep, NEW d \in Callers, UndoAt(d),
         pc[d] \in UndoSteps, pc'[d] \in UndoSteps,
         mem'[d].run = mem[d].run, mem'[d].todo \subseteq mem[d].todo,
         \A u, r \in Runs :
            u = mem[d].run /\ r = runs[u].scope /\ UndoOf(d, u, r) /\ OneEach(r) =>
               /\ \A x \in mem[d].todo \ mem'[d].todo :
                     Settled(r, PathOf[x.entry.item])' \/ (pc'[d] = "undo_journal" /\ ~mem'[d].ok)
               /\ pc[d] = "undo_journal" /\ ~mem[d].ok =>
                     \/ pc'[d] = "undo_journal" /\ ~mem'[d].ok
                     \/ Having(u, "failed")' # {}
  PROVE  UndoAt(d)'
<1>1. PICK u, r \in Runs : u = mem[d].run /\ r = runs[u].scope /\ UndoOf(d, u, r)
  BY DEF UndoAt
<1>2. runs[u] \in UndoRun /\ Completed(r)
  BY <1>1, UndoFacts DEF UndoOf
<1>3. u = mem'[d].run /\ r = runs'[u].scope
  BY <1>1, <1>2 DEF Steady, Kept
<1>4. Completed(r)' /\ Undoable(r)' = Undoable(r) /\ (OneEach(r)' => OneEach(r))
  BY <1>2, CompletedKept
<1>5. Having(u, "failed") # {} => Having(u, "failed")' # {}
  BY DEF Steady, Kept, Having
<1>6. ASSUME OneEach(r), NEW x \in Undoable(r) \ mem'[d].todo
      PROVE  \/ Settled(r, PathOf[x.entry.item])'
             \/ Having(u, "failed")' # {}
             \/ pc'[d] = "undo_journal" /\ ~mem'[d].ok
  <2>1. CASE x \in mem[d].todo
    BY <1>1, <1>6, <2>1
  <2>2. CASE x \notin mem[d].todo
    <3>1. PathOf[x.entry.item] \in Files
      BY EntryFacts, PathFacts DEF Types, UndoEntry
    <3>2. PICK f \in Files : f = PathOf[x.entry.item]
      BY <3>1
    <3>3. \/ Settled(r, f)
          \/ Having(u, "failed") # {}
          \/ pc[d] = "undo_journal" /\ ~mem[d].ok
      BY <1>1, <1>6, <2>2, <3>2 DEF UndoOf
    <3>4. Settled(r, f) => Settled(r, f)'
      BY <1>2, <1>6 DEF SettledStep
    <3> QED
      BY <1>1, <1>5, <1>6, <3>2, <3>3, <3>4
  <2> QED
    BY <2>1, <2>2
<1>7. UndoOf(d, u, r)'
  BY <1>1, <1>4, <1>6 DEF UndoOf
<1> QED
  BY <1>3, <1>7 DEF UndoAt

LEMMA UndoKept ==
  ASSUME Types, Journaled, Steady, SettledStep, NEW d \in Callers, UndoAt(d),
         pc'[d] = pc[d], mem'[d] = mem[d]
  PROVE  UndoAt(d)'
<1>1. CASE pc[d] \notin UndoSteps
  BY <1>1 DEF UndoAt
<1>2. CASE pc[d] \in UndoSteps
  BY <1>2, UndoGoesOn
<1> QED
  BY <1>1, <1>2

LEMMA SettledCalm ==
  ASSUME Steady, UNCHANGED <<mode, given, blurred>>,
         \A d \in Callers : \A f \in Files : HandsOver(d, f)
  PROVE  SettledStep
  BY SettledKept DEF SettledStep

\* Steps that do not touch modes.
LEMMA ModalStill ==
  ASSUME Types, Journaled, Modal, Steady, NoGrant, UNCHANGED <<mode, given, blurred>>,
         \A d \in Callers : \/ pc'[d] = pc[d] /\ mem'[d] = mem[d]
                            \/ /\ pc[d] # "fix_applied"
                               /\ pc'[d] \notin {"fix_chmod", "fix_applied"} \cup UndoSteps
  PROVE  Modal'
<1>1. \A d \in Callers : \A f \in Files : HandsOver(d, f) /\ GoesOn(d, f)
  BY DEF HandsOver, GoesOn, Granted
<1>2. ASSUME NEW f \in Files \ blurred' PROVE ModeOf(f)'
  BY <1>1, ModeQuiet DEF Modal, NoGrant
<1>3. SettledStep
  BY <1>1, SettledCalm
<1>4. ASSUME NEW d \in Callers PROVE UndoAt(d)'
  <2>1. CASE pc'[d] = pc[d] /\ mem'[d] = mem[d]
    BY <1>3, <2>1, UndoKept DEF Modal
  <2>2. CASE pc'[d] \notin UndoSteps
    BY <2>2 DEF UndoAt
  <2> QED
    BY <2>1, <2>2
<1> QED
  BY <1>2, <1>4 DEF Modal

\* A caller that is not at the undo leaves the undos to the others.
LEMMA UndosKept ==
  ASSUME Types, Journaled, Modal, Steady, SettledStep, NEW c \in Callers, Moves(c),
         pc'[c] \notin UndoSteps
  PROVE  \A d \in Callers : UndoAt(d)'
<1>1. UndoAt(c)'
  BY DEF UndoAt
<1>2. \A d \in Callers : d # c => pc'[d] = pc[d] /\ mem'[d] = mem[d]
  BY Others DEF Types
<1>3. \A d \in Callers : d # c => UndoAt(d)'
  BY <1>2, UndoKept DEF Modal
<1> QED
  BY <1>1, <1>3

LEMMA OthersMode ==
  ASSUME Types, NEW c \in Callers, Moves(c)
  PROVE  \A d \in Callers : \A f : d # c => HandsOver(d, f) /\ GoesOn(d, f)
  BY Others DEF HandsOver, GoesOn, Granted, Types

\* The mode of a file is read.
LEMMA ModalStat ==
  ASSUME Types, Journaled, Modal, Steady, NoGrant, NEW c \in Callers, StatItem(c)
  PROVE  Modal'
<1>1. /\ Moves(c) /\ pc[c] = "fix_item" /\ pc'[c] = "fix_chmod"
      /\ mem'[c].old = mode[mem'[c].file] /\ UNCHANGED <<mode, given, blurred>>
  BY StatItemFacts DEF StatItem, permVars
<1>2. \A d \in Callers : \A f : HandsOver(d, f) /\ (d # c => GoesOn(d, f))
  <2>1. \A f : HandsOver(c, f)
    BY <1>1 DEF HandsOver, Granted
  <2> QED
    BY <1>1, <2>1, OthersMode
<1>3. ASSUME NEW f \in Files \ blurred' PROVE ModeOf(f)'
  <2>1. ModeOf(f)
    BY <1>1 DEF Modal
  <2>2. KnownFrom(f) => KnownFrom(f)'
    BY <1>1, <1>2, KnownKept
  <2>3. ModeKnown(f)'
    BY <1>1, <2>1, <2>2 DEF ModeOf, ModeKnown, Fits, More, NoGrant
  <2>4. CallerMode(c, f)'
    <3>1. mem'[c].file = f /\ mem'[c].old # None => given'[f] # None /\ Fits(mem[c].old, f)'
      BY <1>1, <2>1, <2>2 DEF ModeOf, ModeKnown, Fits, More
    <3> QED
      BY <1>1, <3>1 DEF CallerMode, Granted, UndoSteps
  <2>5. \A d \in Callers : d # c => CallerMode(d, f)'
    BY <1>1, <1>2, <2>1, <2>2, CallerKept DEF ModeOf
  <2> QED
    BY <2>3, <2>4, <2>5 DEF ModeOf
<1>4. SettledStep
  BY <1>1, <1>2, SettledCalm
<1>5. pc'[c] \notin UndoSteps
  BY <1>1 DEF UndoSteps
<1> QED
  BY <1>1, <1>3, <1>4, <1>5, UndosKept DEF Modal

\* Read access is granted: what comes out is what the given mode makes of it,
\* and the caller or a journal knows the mode before.
LEMMA ModalChmod ==
  ASSUME Types, Journaled, Modal, Steady, NoGrant, NEW c \in Callers, ChmodItem(c),
         pc'[c] = "fix_applied"
  PROVE  Modal'
<1>1. PICK g \in Files : g = mem[c].file
  BY ChmodItemFacts, PathFacts
<1>2. /\ Moves(c) /\ pc[c] = "fix_chmod" /\ UNCHANGED <<given, blurred>>
      /\ mem'[c].file = g /\ mem'[c].old = mem[c].old
      /\ mem[c].old # None /\ mode[g] # None
      /\ mem'[c].new = More(mode[g]) /\ mode' = [mode EXCEPT ![g] = More(mode[g])]
  BY <1>1, ChmodItemFacts DEF ChmodItem, More
<1>3. mode'[g] = More(mode[g]) /\ \A f \in Files : f # g => mode'[f] = mode[f]
  BY <1>2 DEF Types, ModeTypes
<1>4. \A d \in Callers : \A f : HandsOver(d, f) /\ (d # c => GoesOn(d, f))
  <2>1. \A f : HandsOver(c, f)
    BY <1>2 DEF HandsOver, Granted
  <2> QED
    BY <1>2, <2>1, OthersMode
<1>5. ASSUME NEW f \in Files \ blurred', f # g PROVE ModeOf(f)'
  <2>1. GoesOn(c, f)
    BY <1>2, <1>5 DEF GoesOn, UndoSteps
  <2> QED
    BY <1>2, <1>3, <1>4, <1>5, <2>1, ModeQuiet DEF Modal, NoGrant
<1>6. ASSUME g \notin blurred' PROVE ModeOf(g)'
  <2>1. ModeOf(g)
    BY <1>2, <1>6 DEF Modal
  <2>2. given[g] # None /\ Fits(mode[g], g) /\ Fits(mem[c].old, g)
    BY <1>1, <1>2, <2>1 DEF ModeOf, ModeKnown, CallerMode
  <2>3. given[g] \in Modes
    BY <2>2 DEF Types, ModeTypes
  <2>4. More(mode[g]) = More(given[g])
    BY <2>2, <2>3, MoreFacts DEF Fits
  <2>5. KnownFrom(g) => KnownFrom(g)'
    BY <1>2, <1>4, KnownKept
  <2>6. KnownFrom(g)'
    <3>1. CASE mem[c].old = given[g]
      <4>1. Granted(c, g)' /\ mem'[c].old = given'[g] /\ mem'[c].new = More(given'[g])
        BY <1>2, <2>4, <3>1 DEF Granted
      <4> QED
        BY <4>1 DEF KnownFrom, More
    <3>2. CASE KnownFrom(g)
      BY <2>5, <3>2
    <3> QED
      BY <2>2, <3>1, <3>2 DEF Fits
  <2>7. ModeKnown(g)'
    <3>1. mode'[g] # None
      BY <1>3, <2>3, <2>4, MoreFacts, ModesAssumption
    <3>2. mode'[g] = More(given'[g]) /\ given'[g] # None
      BY <1>2, <1>3, <2>2, <2>4
    <3>3. \A q \in Runs : \A e \in Repaired(q, g)' :
             e.new = More(e.old) /\ (e.new = given'[g] => e.old = given'[g])
      BY <1>2, <2>1 DEF ModeOf, ModeKnown, NoGrant
    <3> QED
      BY <2>6, <3>1, <3>2, <3>3 DEF ModeKnown, Fits, More
  <2>8. CallerMode(c, g)'
    <3>1. Fits(mem[c].old, g)'
      BY <1>2, <2>2, <2>6 DEF Fits, More
    <3>2. mem'[c].new = More(given'[g]) /\ given'[g] # None
      BY <1>2, <2>2, <2>4
    <3> QED
      BY <1>2, <3>1, <3>2 DEF CallerMode, UndoSteps, More
  <2>9. \A d \in Callers : d # c => CallerMode(d, g)'
    BY <1>2, <1>4, <2>1, <2>5, CallerKept DEF ModeOf
  <2> QED
    BY <2>7, <2>8, <2>9 DEF ModeOf
<1>7. SettledStep
  <2>1. ASSUME NEW r \in Runs PROVE Settled(r, g)'
    <3>1. Granted(c, g)' /\ mem'[c].new = mode'[g]
      BY <1>2, <1>3 DEF Granted
    <3> QED
      BY <3>1 DEF Settled
  <2>2. ASSUME NEW r \in Runs, NEW f \in Files, f # g, Completed(r), Settled(r, f)
        PROVE  Settled(r, f)'
    BY <1>2, <1>3, <1>4, <2>2, SettledKept
  <2> QED
    BY <2>1, <2>2 DEF SettledStep
<1>8. pc'[c] \notin UndoSteps
  BY DEF UndoSteps
<1> QED
  BY <1>2, <1>5, <1>6, <1>7, <1>8, UndosKept DEF Modal

\* What a caller holds of a change becomes an entry of its run, which is running
\* and so not the one an undo works on.
LEMMA ModalJournal ==
  ASSUME Types, Journaled, Modal, NEW c \in Callers, JournalItem(c), pc[c] = "fix_applied"
  PROVE  Modal'
<1>1. PICK g \in Files : g = mem[c].file
  BY JournalItemFacts, PathFacts
<1>2. /\ Moves(c) /\ pc'[c] = "fix_item" /\ UNCHANGED <<mode, given, blurred, runs>>
  BY JournalItemFacts DEF JournalItem, permVars
<1>3. PICK e \in UndoEntry : /\ Appends(mem[c].run, e) /\ PathOf[e.item] = g
                             /\ e.old = mem[c].old /\ e.new = mem[c].new
  BY <1>1, JournalItemFacts
<1>4. AtWork(c)
  BY DEF AtWork, FixSteps
<1>5. PICK q \in Runs : q = mem[c].run
  BY <1>4, OwnRun
<1>6. /\ Steady /\ Entries(q)' = Entries(q) \cup {e}
      /\ \A p \in Runs : p # q => Entries(p)' = Entries(p)
  BY <1>2, <1>3, <1>4, <1>5, KeptAppended
<1>7. e.undo
  BY DEF UndoEntry
<1>8. /\ Repaired(q, g)' = Repaired(q, g) \cup {e}
      /\ \A p \in Runs : p # q => Repaired(p, g)' = Repaired(p, g)
      /\ \A f : f # g => \A p \in Runs : Repaired(p, f)' = Repaired(p, f)
  BY <1>3, <1>6, <1>7 DEF Repaired
<1>9. ~Completed(q)
  BY <1>4, <1>5, CompletedAlone DEF Completed
<1>10. \A d \in Callers : \A f : HandsOver(d, f) /\ GoesOn(d, f)
  <2>1. \A f : HandsOver(c, f)
    BY <1>1, <1>3, <1>8, <1>9 DEF HandsOver, Granted
  <2>2. \A f : GoesOn(c, f)
    BY <1>2 DEF GoesOn, UndoSteps
  <2> QED
    BY <1>2, <2>1, <2>2, OthersMode
<1>11. ASSUME NEW f \in Files \ blurred', f # g PROVE ModeOf(f)'
  BY <1>2, <1>6, <1>8, <1>10, <1>11, ModeQuiet DEF Modal
<1>12. ASSUME g \notin blurred' PROVE ModeOf(g)'
  <2>1. ModeOf(g)
    BY <1>2, <1>12 DEF Modal
  <2>2. KnownFrom(g) => KnownFrom(g)'
    BY <1>2, <1>6, <1>10, KnownKept
  <2>3. given[g] # None /\ Fits(e.old, g) /\ e.new = More(given[g])
    BY <1>1, <1>3, <2>1 DEF ModeOf, CallerMode, Granted
  <2>4. given[g] \in Modes
    BY <2>3 DEF Types, ModeTypes
  <2>5. e.new = More(e.old) /\ (e.new = given[g] => e.old = given[g])
    BY <2>3, <2>4, MoreFacts DEF Fits
  <2>6. \A p \in Runs : \A d \in Repaired(p, g)' :
           d.new = More(d.old) /\ (d.new = given'[g] => d.old = given'[g])
    BY <1>2, <1>8, <2>1, <2>5 DEF ModeOf, ModeKnown
  <2>7. ModeKnown(g)'
    BY <1>2, <2>1, <2>2, <2>6 DEF ModeOf, ModeKnown, Fits, More
  <2>8. \A d \in Callers : CallerMode(d, g)'
    BY <1>2, <1>10, <2>1, <2>2, CallerKept DEF ModeOf
  <2> QED
    BY <2>7, <2>8 DEF ModeOf
<1>13. SettledStep
  BY <1>2, <1>6, <1>10, SettledCalm
<1>14. pc'[c] \notin UndoSteps
  BY <1>2 DEF UndoSteps
<1> QED
  BY <1>2, <1>6, <1>11, <1>12, <1>13, <1>14, UndosKept DEF Modal

\* An undo begins: every entry it takes has the mode it left, so what it has to
\* go back to is the given mode, or another repair knows that one.
LEMMA ModalStartUndo ==
  ASSUME Types, Journaled, Modal, Steady, NoGrant, NEW c \in Callers,
         NEW r \in Runs, NEW u \in Runs, StartUndo(c, r, u)
  PROVE  Modal'
<1>1. /\ Moves(c) /\ pc[c] = "idle" /\ pc'[c] = "undo_item"
      /\ mem'[c].run = u /\ mem'[c].todo = Undoable(r)
      /\ UNCHANGED <<mode, given, blurred, journal>>
  BY StartUndoFacts DEF StartUndo, permVars
<1>2. /\ ReversibleNow(r) /\ u # r /\ runs[r] # None
      /\ runs' = [runs EXCEPT ![u] = NewRun("undo", "running", r, {e \in Entries(r) : e.undo})]
  BY DEF StartUndo, CreateRun
<1>3. \A d \in Callers : \A f : HandsOver(d, f) /\ (d # c => GoesOn(d, f))
  <2>1. \A f : HandsOver(c, f)
    BY <1>1 DEF HandsOver, Granted
  <2> QED
    BY <1>1, <2>1, OthersMode
<1>4. ASSUME NEW f \in Files \ blurred' PROVE ModeOf(f)'
  <2>1. ModeOf(f)
    BY <1>1, <1>4 DEF Modal
  <2>2. KnownFrom(f) => KnownFrom(f)'
    BY <1>1, <1>3, KnownKept
  <2>3. ModeKnown(f)'
    BY <1>1, <2>1, <2>2 DEF ModeOf, ModeKnown, Fits, More, NoGrant
  <2>4. ASSUME NEW x \in Undoable(r), PathOf[x.entry.item] = f
        PROVE  given[f] # None /\ Fits(x.entry.old, f) /\ x.entry.new = More(given[f])
    <3>1. mode[f] # None /\ mode[f] = x.entry.new
      BY <1>2, <2>4 DEF ReversibleNow, Reversible
    <3>2. x.entry \in Repaired(r, f) /\ x.entry.old \in Modes
      BY <2>4, EntryFacts DEF Repaired, Types, UndoEntry
    <3>3. /\ given[f] # None /\ Fits(x.entry.new, f) /\ x.entry.new = More(x.entry.old)
          /\ x.entry.new = given[f] => x.entry.old = given[f]
      BY <2>1, <3>1, <3>2 DEF ModeOf, ModeKnown
    <3>4. given[f] \in Modes
      BY <3>3 DEF Types, ModeTypes
    <3> QED
      BY <3>2, <3>3, <3>4, MoreFacts DEF Fits
  <2>5. CallerMode(c, f)'
    BY <1>1, <2>2, <2>4 DEF CallerMode, Granted, Fits, More
  <2>6. \A d \in Callers : d # c => CallerMode(d, f)'
    BY <1>1, <1>3, <2>1, <2>2, CallerKept DEF ModeOf
  <2> QED
    BY <2>3, <2>5, <2>6 DEF ModeOf
<1>5. SettledStep
  BY <1>1, <1>3, SettledCalm
<1>6. UndoAt(c)'
  <2>1. Completed(r)
    <3>1. \E e \in Entries(r) : e.undo
      BY <1>2, EntryFacts DEF ReversibleNow, Types
    <3> QED
      BY <1>2, <3>1 DEF Journaled, RunFile, Completed, ReversibleNow
  <2>2. Completed(r)' /\ Undoable(r)' = Undoable(r)
    BY <2>1, CompletedKept
  <2>3. runs'[u].scope = r
    BY <1>2 DEF Types, StoreTypes, NewRun
  <2>4. UndoOf(c, u, r)'
    BY <1>1, <2>2 DEF UndoOf
  <2> QED
    BY <1>1, <2>3, <2>4 DEF UndoAt
<1>7. \A d \in Callers : d # c => pc'[d] = pc[d] /\ mem'[d] = mem[d]
  BY <1>1, Others DEF Types
<1>8. \A d \in Callers : d # c => UndoAt(d)'
  BY <1>5, <1>7, UndoKept DEF Modal
<1> QED
  BY <1>4, <1>6, <1>8 DEF Modal

\* An undo sets a mode.  Where that is not the given one, an entry of another
\* run or a caller knows it; when the run repaired the file once, that is not
\* the entry undone.
LEMMA ModalChmodUndo ==
  ASSUME Types, Journaled, Modal, Steady, NoGrant, NEW c \in Callers, ChmodUndo(c)
  PROVE  Modal'
<1>1. PICK x \in mem[c].todo :
         /\ mem'[c].todo = mem[c].todo \ {x}
         /\ x.entry \in UndoEntry /\ PathOf[x.entry.item] \in Files
         /\ \/ /\ mem'[c].ok /\ mode[PathOf[x.entry.item]] # None
               /\ mode' = [mode EXCEPT ![PathOf[x.entry.item]] = x.entry.old]
            \/ ~mem'[c].ok /\ UNCHANGED mode
  BY ChmodUndoFacts
<1>2. PICK g \in Files : g = PathOf[x.entry.item]
  BY <1>1
<1>3. /\ Moves(c) /\ pc[c] = "undo_item" /\ pc'[c] = "undo_journal" /\ UNCHANGED <<given, blurred>>
      /\ mem'[c].run = mem[c].run
  BY ChmodUndoFacts DEF ChmodUndo
<1>4. PICK u, r \in Runs : u = mem[c].run /\ r = runs[u].scope /\ UndoOf(c, u, r)
  BY <1>3 DEF Modal, UndoAt, UndoSteps
<1>5. Completed(r) /\ x \in Undoable(r) /\ x.entry \in Repaired(r, g)
  <2>1. Completed(r) /\ x \in Undoable(r)
    BY <1>4 DEF UndoOf
  <2> QED
    BY <1>2, <2>1, EntryFacts DEF Repaired, Types
<1>6. \A d \in Callers : \A f : HandsOver(d, f) /\ GoesOn(d, f)
  <2>1. \A f : HandsOver(c, f) /\ GoesOn(c, f)
    BY <1>1, <1>3 DEF HandsOver, GoesOn, Granted, UndoSteps
  <2> QED
    BY <1>3, <2>1, OthersMode
<1>7. \A f \in Files : f # g => mode'[f] = mode[f]
  BY <1>1, <1>2 DEF Types, ModeTypes
<1>8. ASSUME NEW f \in Files \ blurred', mode'[f] = mode[f] PROVE ModeOf(f)'
  BY <1>3, <1>6, <1>8, ModeQuiet DEF Modal, NoGrant
<1>9. ASSUME g \notin blurred
      PROVE  given[g] # None /\ Fits(x.entry.old, g) /\ x.entry.new = More(given[g]) /\ ModeOf(g)
  BY <1>2, <1>3, <1>9 DEF Modal, ModeOf, CallerMode, UndoSteps
<1>10. x.entry.old \in Modes
  BY <1>1 DEF UndoEntry
<1>11. mem'[c].ok => mode'[g] = x.entry.old
  BY <1>1, <1>2 DEF Types, ModeTypes
<1>12. ASSUME g \notin blurred', mem'[c].ok PROVE ModeOf(g)'
  <2>1. /\ given[g] # None /\ Fits(x.entry.old, g) /\ x.entry.new = More(given[g]) /\ ModeOf(g)
    BY <1>3, <1>9, <1>12
  <2>2. KnownFrom(g) => KnownFrom(g)'
    BY <1>3, <1>6, KnownKept
  <2>3. mode'[g] = x.entry.old /\ mode'[g] # None
    BY <1>10, <1>11, <1>12, ModesAssumption
  <2>4. ModeKnown(g)'
    BY <1>3, <2>1, <2>2, <2>3 DEF ModeOf, ModeKnown, Fits, More, NoGrant
  <2>5. \A d \in Callers : CallerMode(d, g)'
    BY <1>3, <1>6, <2>1, <2>2, CallerKept DEF ModeOf
  <2> QED
    BY <2>4, <2>5 DEF ModeOf
<1>13. ASSUME NEW p \in Runs, OneEach(p), mem'[c].ok PROVE Settled(p, g)'
  <2>1. CASE g \in blurred \/ x.entry.old = given[g]
    BY <1>3, <1>11, <1>13, <2>1 DEF Settled
  <2>2. CASE g \notin blurred /\ x.entry.old # given[g]
    <3>1. KnownFrom(g) /\ x.entry.old = More(given[g]) /\ x.entry.new = More(given[g])
      BY <1>9, <2>2 DEF Fits
    <3>2. mode'[g] = More(given[g])
      BY <1>11, <1>13, <3>1
    <3>3. CASE p # r
      <4>1. x.entry \in Repaired(r, g)'
        BY <1>5, RepairedGrow
      <4> QED
        BY <3>1, <3>2, <3>3, <4>1 DEF Settled
    <3>4. CASE p = r
      <4>1. CASE \E d \in Callers : Granted(d, g) /\ mem[d].new = More(given[g])
        <5>1. PICK d \in Callers : Granted(d, g) /\ mem[d].new = More(given[g])
          BY <4>1
        <5>2. d # c
          BY <1>3, <5>1 DEF Granted
        <5>3. pc'[d] = pc[d] /\ mem'[d] = mem[d]
          BY <1>3, <5>2, Others DEF Types
        <5> QED
          BY <3>2, <5>1, <5>3 DEF Settled, Granted
      <4>2. CASE \E q \in Runs : \E e \in Repaired(q, g) : e.old = given[g] /\ e.new = More(given[g])
        <5>0. PICK q \in Runs :
                 \E e \in Repaired(q, g) : e.old = given[g] /\ e.new = More(given[g])
          BY <4>2
        <5>1. PICK e \in Repaired(q, g) : e.old = given[g] /\ e.new = More(given[g])
          BY <5>0
        <5>2. q # r
          BY <1>5, <1>13, <2>2, <3>4, <5>1 DEF OneEach
        <5>3. e \in Repaired(q, g)'
          BY <5>1, RepairedGrow
        <5> QED
          BY <3>2, <3>4, <5>1, <5>2, <5>3 DEF Settled
      <4> QED
        BY <3>1, <4>1, <4>2 DEF KnownFrom
    <3> QED
      BY <3>3, <3>4
  <2> QED
    BY <2>1, <2>2
<1>14. SettledStep
  <2>1. ASSUME NEW p \in Runs, NEW f \in Files, Completed(p), OneEach(p), Settled(p, f)
        PROVE  Settled(p, f)'
    <3>1. CASE mode'[f] = mode[f]
      BY <1>3, <1>6, <2>1, <3>1, SettledKept
    <3>2. CASE mode'[f] # mode[f]
      <4>1. f = g /\ mem'[c].ok
        BY <1>1, <1>7, <3>2
      <4> QED
        BY <1>13, <2>1, <4>1
    <3> QED
      BY <3>1, <3>2
  <2> QED
    BY <2>1 DEF SettledStep
<1>15. UndoAt(c)'
  <2>1. OneEach(r) => Settled(r, PathOf[x.entry.item])' \/ ~mem'[c].ok
    BY <1>2, <1>13
  <2>2. pc[c] \in UndoSteps /\ pc'[c] \in UndoSteps /\ pc[c] # "undo_journal"
    BY <1>3 DEF UndoSteps
  <2>3. \A y \in mem[c].todo \ mem'[c].todo : y = x
    BY <1>1
  <2> QED
    BY <1>1, <1>3, <1>4, <1>14, <2>1, <2>2, <2>3, UndoGoesOn DEF Modal
<1>16. \A d \in Callers : d # c => pc'[d] = pc[d] /\ mem'[d] = mem[d]
  BY <1>3, Others DEF Types
<1>17. \A d \in Callers : d # c => UndoAt(d)'
  BY <1>14, <1>16, UndoKept DEF Modal
<1>18. ASSUME NEW f \in Files \ blurred' PROVE ModeOf(f)'
  BY <1>1, <1>7, <1>8, <1>12, <1>18
<1> QED
  BY <1>15, <1>17, <1>18 DEF Modal

\* An undo journals what it did; a failure is there to see.
LEMMA ModalJournalUndo ==
  ASSUME Types, Journaled, Modal, Steady, NoGrant, NEW c \in Callers, JournalUndo(c)
  PROVE  Modal'
<1>1. /\ Moves(c) /\ pc[c] = "undo_journal" /\ pc'[c] = "undo_item"
      /\ mem'[c].run = mem[c].run /\ mem'[c].todo = mem[c].todo
      /\ UNCHANGED <<mode, given, blurred, runs>>
  BY JournalUndoFacts DEF JournalUndo, permVars
<1>2. PICK e \in PlainEntry : /\ Appends(mem[c].run, e)
                              /\ e.status = IF mem[c].ok THEN "applied" ELSE "failed"
  BY JournalUndoFacts
<1>3. AtWork(c) /\ pc[c] \in UndoSteps /\ pc'[c] \in UndoSteps
  BY <1>1 DEF AtWork, UndoSteps
<1>4. \A d \in Callers : \A f : HandsOver(d, f) /\ GoesOn(d, f)
  <2>1. \A f : HandsOver(c, f) /\ GoesOn(c, f)
    BY <1>1, <1>3 DEF HandsOver, GoesOn, Granted
  <2> QED
    BY <1>1, <2>1, OthersMode
<1>5. ASSUME NEW f \in Files \ blurred' PROVE ModeOf(f)'
  BY <1>1, <1>4, <1>5, ModeQuiet DEF Modal, NoGrant
<1>6. SettledStep
  BY <1>1, <1>4, SettledCalm
<1>7. ASSUME NEW u \in Runs, u = mem[c].run, ~mem[c].ok PROVE Having(u, "failed")' # {}
  <2>1. e \in Entries(u)' /\ e.status = "failed"
    BY <1>1, <1>2, <1>3, <1>7, KeptAppended
  <2> QED
    BY <2>1 DEF Having
<1>8. UndoAt(c)'
  BY <1>1, <1>3, <1>6, <1>7, UndoGoesOn DEF Modal
<1>9. \A d \in Callers : d # c => pc'[d] = pc[d] /\ mem'[d] = mem[d]
  BY <1>1, Others DEF Types
<1>10. \A d \in Callers : d # c => UndoAt(d)'
  BY <1>6, <1>9, UndoKept DEF Modal
<1> QED
  BY <1>5, <1>8, <1>10 DEF Modal

\* Somebody else changes a mode: the mode is the given one, and nobody who
\* looked before is there, or the file is blurred.
LEMMA ModalDrift ==
  ASSUME Types, Journaled, Modal, NEW g \in Files, NEW m \in Modes \cup {None}, ModeDrift(g, m)
  PROVE  Modal'
<1>1. /\ mode' = [mode EXCEPT ![g] = m] /\ given' = [given EXCEPT ![g] = m]
      /\ UNCHANGED <<runs, journal, pc, mem>> /\ blurred \subseteq blurred'
      /\ g \notin blurred' =>
            g \notin blurred /\ g \notin InUse /\ \A e \in FixEntries(g) : e.new # m
  BY DEF ModeDrift, store
<1>2. /\ mode'[g] = m /\ given'[g] = m
      /\ \A f \in Files : f # g => mode'[f] = mode[f] /\ given'[f] = given[f]
  BY <1>1 DEF Types, ModeTypes
<1>3. Steady /\ NoGrant
  BY <1>1, KeptQuiet
<1>4. \A d \in Callers : \A f : HandsOver(d, f) /\ GoesOn(d, f)
  BY <1>1 DEF HandsOver, GoesOn, Granted
<1>5. ASSUME NEW f \in Files \ blurred', f # g PROVE ModeOf(f)'
  BY <1>1, <1>2, <1>3, <1>4, <1>5, ModeQuiet DEF Modal, NoGrant
<1>6. ASSUME g \notin blurred' PROVE ModeOf(g)'
  <2>1. ModeOf(g)
    BY <1>1, <1>6 DEF Modal
  <2>2. ASSUME NEW q \in Runs, NEW e \in Repaired(q, g)' PROVE e.new = More(e.old) /\ e.new # m
    <3>1. e \in Repaired(q, g) /\ e \in Entries(q)
      BY <1>3, <2>2 DEF NoGrant, Repaired
    <3>2. e \in FixEntries(g)
      <4>1. e \in UndoEntry
        BY <3>1, EntryFacts DEF Types, Repaired, PlainEntry
      <4> QED
        BY <3>1, <4>1, FixEntryFacts DEF Repaired, UndoEntry
    <3> QED
      BY <1>1, <1>6, <2>1, <3>1, <3>2 DEF ModeOf, ModeKnown
  <2>3. ModeKnown(g)'
    BY <1>2, <2>2 DEF ModeKnown, Fits
  <2>4. ASSUME NEW d \in Callers PROVE CallerMode(d, g)'
    <3>1. /\ ~Held(d, g)
          /\ pc[d] \in UndoSteps => \A x \in mem[d].todo : PathOf[x.entry.item] # g
      BY <1>1, <1>6 DEF InUse, UndoSteps
    <3> QED
      BY <1>1, <3>1 DEF CallerMode, Held, Granted
  <2> QED
    BY <2>3, <2>4 DEF ModeOf
<1>7. SettledStep
  <2>1. ASSUME NEW r \in Runs, NEW f \in Files, Completed(r), Settled(r, f) PROVE Settled(r, f)'
    <3>1. CASE f = g
      BY <1>2, <3>1 DEF Settled
    <3>2. CASE f # g
      BY <1>1, <1>2, <1>3, <1>4, <2>1, <3>2, SettledKept
    <3> QED
      BY <3>1, <3>2
  <2> QED
    BY <2>1 DEF SettledStep
<1>8. \A d \in Callers : UndoAt(d)'
  BY <1>1, <1>3, <1>7, UndoKept DEF Modal
<1> QED
  BY <1>5, <1>6, <1>8 DEF Modal

\* The process dies: files somebody was working on are blurred.
LEMMA ModalCrash ==
  ASSUME Types, Journaled, Modal, Crash
  PROVE  Modal'
<1>1. /\ \A d \in Callers : pc'[d] = "idle"
      /\ UNCHANGED <<runs, journal, mode, given>> /\ blurred' = blurred \cup InUse
  BY DEF Crash, JournalCrash, PermCrash
<1>2. Steady /\ NoGrant
  BY <1>1, KeptQuiet
<1>3. ASSUME NEW f \in Files \ blurred' PROVE ModeOf(f)'
  <2>1. f \notin blurred /\ \A d \in Callers : ~Granted(d, f)
    BY <1>1, <1>3 DEF InUse, Held, Granted
  <2>2. \A d \in Callers : HandsOver(d, f) /\ GoesOn(d, f)
    BY <1>1, <2>1 DEF HandsOver, GoesOn, UndoSteps
  <2> QED
    BY <1>1, <1>2, <1>3, <2>1, <2>2, ModeQuiet DEF Modal, NoGrant
<1>4. \A d \in Callers : UndoAt(d)'
  BY <1>1 DEF UndoAt, UndoSteps
<1> QED
  BY <1>3, <1>4 DEF Modal

\* A caller that is at no step of modes, before and after.
LEMMA ModalPasses ==
  ASSUME Types, Journaled, Modal, Steady, NoGrant, UNCHANGED <<mode, given, blurred>>,
         NEW c \in Callers, Moves(c), pc[c] # "fix_applied",
         pc'[c] \notin {"fix_chmod", "fix_applied"} \cup UndoSteps
  PROVE  Modal'
<1>1. \A d \in Callers : d # c => pc'[d] = pc[d] /\ mem'[d] = mem[d]
  BY Others DEF Types
<1> QED
  BY <1>1, ModalStill

LEMMA ModalPermStep ==
  ASSUME Types, Journaled, Modal, NEW c \in Callers, PermStep(c), UNCHANGED missVars
  PROVE  Modal'
<1>1. Steady /\ (NoGrant \/ (JournalItem(c) /\ pc[c] = "fix_applied"))
  BY EvolvePerm
<1>2. CASE JournalItem(c) /\ pc[c] = "fix_applied"
  BY <1>2, ModalJournal
<1>3. CASE NoGrant
  <2>1. CASE GuardFix(c)
    BY <1>1, <1>3, <2>1, GuardFixFacts, ModalPasses DEF GuardFix, permVars, UndoSteps
  <2>2. CASE SnapshotFix(c)
    BY <1>1, <1>3, <2>2, SnapshotFixFacts, ModalPasses DEF SnapshotFix, permVars, UndoSteps
  <2>3. CASE SkipItem(c)
    BY <1>1, <1>3, <2>3, SkipItemFacts, ModalPasses DEF SkipItem, permVars, UndoSteps
  <2>4. CASE FinishFix(c)
    BY <1>1, <1>3, <2>4, FinishFixFacts, ModalPasses DEF FinishFix, permVars, UndoSteps
  <2>5. CASE FinishUndo(c)
    BY <1>1, <1>3, <2>5, FinishUndoFacts, ModalPasses DEF FinishUndo, permVars, UndoSteps
  <2>6. CASE JournalItem(c)
    <3>1. CASE pc[c] = "fix_applied"
      BY <2>6, <3>1, ModalJournal
    <3>2. CASE pc[c] = "fix_failed"
      BY <1>1, <1>3, <2>6, <3>2, JournalItemFacts, ModalPasses DEF JournalItem, permVars, UndoSteps
    <3> QED
      BY <2>6, <3>1, <3>2, JournalItemFacts
  <2>7. CASE ChmodItem(c)
    <3>1. CASE pc'[c] = "fix_applied"
      BY <1>1, <1>3, <2>7, <3>1, ModalChmod
    <3>2. CASE pc'[c] = "fix_failed" /\ UNCHANGED mode
      BY <1>1, <1>3, <2>7, <3>2, ChmodItemFacts, ModalPasses DEF ChmodItem, UndoSteps
    <3> QED
      BY <2>7, <3>1, <3>2, ChmodItemFacts
  <2>8. CASE StatItem(c)
    BY <1>1, <1>3, <2>8, ModalStat
  <2>9. CASE ChmodUndo(c)
    BY <1>1, <1>3, <2>9, ModalChmodUndo
  <2>10. CASE JournalUndo(c)
    BY <1>1, <1>3, <2>10, ModalJournalUndo
  <2> QED
    BY <2>1, <2>2, <2>3, <2>4, <2>5, <2>6, <2>7, <2>8, <2>9, <2>10 DEF PermStep
<1> QED
  BY <1>1, <1>2, <1>3

LEMMA ModalPermCall ==
  ASSUME Types, Journaled, Modal, NEW c \in Callers, PermCall(c), UNCHANGED missVars
  PROVE  Modal'
<1>1. pc[c] = "idle"
  BY DEF PermCall, PlanOnly, PlanFix, StartUndo, Call
<1>2. Steady /\ NoGrant
  BY <1>1, EvolvePerm
<1>3. ASSUME NEW r \in Runs, NEW flags \in FlagSets, PlanOnly(c, r, flags) PROVE Modal'
  BY <1>1, <1>2, <1>3, NoMove, ModalPasses DEF PlanOnly, permVars, Types, UndoSteps
<1>4. ASSUME NEW r \in Runs, NEW flags \in FlagSets, PlanFix(c, r, flags) PROVE Modal'
  BY <1>1, <1>2, <1>4, PlanFixFacts, ModalPasses DEF PlanFix, permVars, UndoSteps
<1>5. ASSUME NEW r \in Runs, NEW u \in Runs, StartUndo(c, r, u) PROVE Modal'
  BY <1>2, <1>5, ModalStartUndo
<1> QED
  BY <1>3, <1>4, <1>5 DEF PermCall

\* A step of the missing-asset workflow does not come near modes.
LEMMA ModalMiss ==
  ASSUME Types, Journaled, Modal, NEW c \in Callers, MissStep(c) \/ MissCall(c),
         UNCHANGED permVars
  PROVE  Modal'
<1>1. Steady /\ NoGrant /\ UNCHANGED <<mode, given, blurred>>
  BY EvolveMiss DEF permVars
<1>2. ASSUME Moves(c), pc[c] \notin FixSteps, pc'[c] \notin FixSteps, pc'[c] \notin UndoSteps
      PROVE  Modal'
  BY <1>1, <1>2, ModalPasses DEF FixSteps, UndoSteps
<1>3. CASE AlreadyRemoved(c)
  BY <1>2, <1>3, AlreadyRemovedFacts DEF FixSteps, UndoSteps
<1>4. CASE Capture(c)
  BY <1>2, <1>4, CaptureFacts DEF FixSteps, UndoSteps
<1>5. CASE LoadIndex(c)
  BY <1>2, <1>5, LoadIndexFacts DEF FixSteps, UndoSteps
<1>6. CASE CreatePoint(c)
  BY <1>2, <1>6, CreatePointFacts DEF FixSteps, UndoSteps
<1>7. CASE RemoveRows(c)
  BY <1>2, <1>7, RemoveRowsFacts DEF FixSteps, UndoSteps
<1>8. CASE DropPoint(c)
  BY <1>2, <1>8, DropPointFacts DEF FixSteps, UndoSteps
<1>9. CASE JournalRemoval(c)
  BY <1>2, <1>9, JournalRemovalFacts DEF FixSteps, UndoSteps
<1>10. CASE FinishRun(c)
  BY <1>2, <1>10, FinishRunFacts DEF FixSteps, UndoSteps
<1>11. CASE SkipRestored(c)
  BY <1>2, <1>11, SkipRestoredFacts DEF FixSteps, UndoSteps
<1>12. CASE InsertRows(c)
  BY <1>2, <1>12, InsertRowsFacts DEF FixSteps, UndoSteps
<1>13. CASE PointRestored(c)
  BY <1>2, <1>13, PointRestoredFacts DEF FixSteps, UndoSteps
<1>14. CASE DeleteWrite(c)
  BY <1>2, <1>14, DeleteWriteFacts DEF FixSteps, UndoSteps
<1>15. CASE DeleteOrphan(c)
  BY <1>2, <1>15, DeleteOrphanFacts DEF FixSteps, UndoSteps
<1>16. CASE CollectOrphans(c)
  BY <1>2, <1>16, CollectOrphansFacts DEF FixSteps, UndoSteps
<1>17. ASSUME NEW r \in Runs, NEW asked, Preview(c, r, asked) PROVE Modal'
  BY <1>2, <1>17, NoMove DEF Preview, Call, FixSteps, UndoSteps, Types
<1>18. ASSUME NEW r \in Runs, StartApply(c, r) PROVE Modal'
  <2>1. runs[r] \in RemoveRun
    BY <1>18, StartApplyRuns
  <2> QED
    BY <1>2, <1>18, <2>1, StartApplyFacts DEF FixSteps, UndoSteps
<1>19. ASSUME NEW r \in Runs, NEW ids, StartRestore(c, r, ids) PROVE Modal'
  BY <1>2, <1>19, StartRestoreFacts DEF FixSteps, UndoSteps
<1>20. ASSUME NEW ids \in (SUBSET Points) \ {{}}, DeletePoints(c, ids) PROVE Modal'
  BY <1>2, <1>20, DeletePointsFacts DEF FixSteps, UndoSteps
<1> QED
  BY <1>3, <1>4, <1>5, <1>6, <1>7, <1>8, <1>9, <1>10, <1>11, <1>12, <1>13, <1>14, <1>15, <1>16,
     <1>17, <1>18, <1>19, <1>20 DEF MissStep, MissCall

LEMMA ModalStep ==
  ASSUME Types, Journaled, Modal, [Next]_vars
  PROVE  Modal'
<1>1. ASSUME UNCHANGED <<runs, journal, pc, mem, mode, given, blurred>> PROVE Modal'
  BY <1>1, KeptQuiet, ModalStill
<1>2. CASE PermNext /\ UNCHANGED missVars
  <2>1. ASSUME NEW s, Extracted(s) PROVE Modal'
    BY <1>1, <2>1 DEF Extracted, store
  <2> QED
    BY <1>2, <2>1, ModalPermStep, ModalPermCall, ModalDrift DEF PermNext
<1>3. CASE MissNext /\ UNCHANGED permVars
  <2>1. ASSUME NEW a, FileChanges(a) PROVE Modal'
    BY <1>1, <1>3, <2>1 DEF FileChanges, store, permVars
  <2>2. ASSUME NEW l, LinkAdded(l) PROVE Modal'
    BY <1>1, <1>3, <2>2 DEF LinkAdded, store, permVars
  <2>3. ASSUME NEW b, AlbumGone(b) PROVE Modal'
    BY <1>1, <1>3, <2>3 DEF AlbumGone, store, permVars
  <2> QED
    BY <1>3, <2>1, <2>2, <2>3, ModalMiss DEF MissNext
<1>4. CASE Crash
  BY <1>4, ModalCrash
<1>5. CASE UNCHANGED vars
  BY <1>1, <1>5 DEF vars, journalVars, permVars
<1> QED
  BY <1>2, <1>3, <1>4, <1>5 DEF Next

LEMMA ModalInit == Init => Modal
<1> SUFFICES ASSUME Init PROVE Modal
  OBVIOUS
<1>1. /\ mode = given /\ \A c \in Callers : pc[c] = "idle"
      /\ \A r \in Runs : Entries(r) = {}
  BY DEF Init, JournalInit, PermInit, Entries
<1>2. \A f : ModeOf(f)
  BY <1>1 DEF ModeOf, ModeKnown, CallerMode, Granted, Fits, Repaired, UndoSteps
<1> QED
  BY <1>1, <1>2 DEF Modal, UndoAt, UndoSteps

LEMMA SpecModal == Spec => [](Types /\ Journaled /\ Modal)
<1>1. (Types /\ Journaled /\ Modal) /\ [Next]_vars => (Types /\ Journaled /\ Modal)'
  BY RunsStep, ModeTypesStep, RowTypesStep, ModalStep DEF Types
<1> QED
  BY <1>1, RunsInit, ModalInit, PTL DEF Spec

\* Entries of repairs, as the properties name them.
LEMMA RepairedFacts ==
  ASSUME StoreTypes, NEW q \in Runs, NEW f, NEW e \in Repaired(q, f)
  PROVE  e \in FixEntries(f) /\ e \in Having(q, "applied") /\ e.undo /\ PathOf[e.item] = f
<1>1. e \in UndoEntry
  BY EntryFacts DEF Repaired, PlainEntry
<1> QED
  BY <1>1, FixEntryFacts DEF Repaired, UndoEntry, Having

\* Modes that nobody outside gave are explained by a journal, for any number of
\* repairs and undos at once: no entry is ever written with a mode before that is
\* not the one to go back to.
THEOREM ModesAreExplained == Spec => []ModesExplained
<1>1. Types /\ Journaled /\ Modal => ModesExplained
  <2> SUFFICES ASSUME Types, Modal, NEW f \in Files \ blurred
               PROVE  \/ mode[f] = given[f]
                      \/ \E c \in Callers : Held(c, f)
                      \/ \E e \in FixEntries(f) : e.old = given[f] /\ e.new = mode[f]
    BY DEF ModesExplained
  <2>1. mode[f] = given[f] \/ (mode[f] = More(given[f]) /\ KnownFrom(f))
    BY DEF Modal, ModeOf, ModeKnown, Fits
  <2>2. ASSUME KnownFrom(f)
        PROVE  \/ \E c \in Callers : Held(c, f)
               \/ \E e \in FixEntries(f) : e.old = given[f] /\ e.new = More(given[f])
    BY <2>2, RepairedFacts DEF KnownFrom, Granted, Held, Types
  <2> QED
    BY <2>1, <2>2
<1> QED
  BY <1>1, SpecModal, PTL

\* An undo that ends as completed has brought every file of the run back to the
\* mode others gave it, or another run has granted access since.
THEOREM UndosRestore == Spec => UndoRestores
<1> DEFINE Once(r) == \A e, d \in Entries(r) :
                         e.undo /\ d.undo /\ e # d => PathOf[e.item] # PathOf[d.item]
           Back(r) == \A e \in Entries(r) :
                         e.undo /\ PathOf[e.item] \notin blurred =>
                            \/ mode[PathOf[e.item]] = given[PathOf[e.item]]
                            \/ RepairedSince(r, PathOf[e.item])
           Restored == \A c \in Callers :
                          (FinishUndo(c) /\ runs'[mem[c].run].status = "completed") =>
                             (Once(runs[mem[c].run].scope) => Back(runs[mem[c].run].scope))
<1>1. ASSUME Types, Journaled, Modal, NEW c \in Callers, FinishUndo(c),
             runs'[mem[c].run].status = "completed"
      PROVE  Once(runs[mem[c].run].scope) => Back(runs[mem[c].run].scope)
  <2>1. /\ pc[c] = "undo_item" /\ mem[c].todo = {}
        /\ Finish(mem[c].run, FinalStatus({e.status : e \in Entries(mem[c].run)}))
    BY <1>1, FinishUndoFacts
  <2>2. PICK u, r \in Runs : u = mem[c].run /\ r = runs[u].scope /\ UndoOf(c, u, r)
    BY <1>1, <2>1 DEF Modal, UndoAt, UndoSteps
  <2>3. Having(u, "failed") = {}
    <3>1. runs[u] \in RunFiles
      BY <1>1, <2>1, <2>2, OwnRun DEF AtWork, UndoSteps
    <3> DEFINE done == {e.status : e \in Entries(u)}
               new == [runs[u] EXCEPT !.status = FinalStatus(done)]
    <3>2. new.status = FinalStatus(done)
      BY <3>1, FinalFacts, RewriteFacts DEF RunStatus
    <3>3. runs' = [runs EXCEPT ![u] = new]
      BY <2>1, <2>2 DEF Finish
    <3>4. "failed" \in done <=> Having(u, "failed") # {}
      BY DEF Having
    <3> HIDE DEF new, done
    <3>5. runs'[u] = new
      BY <1>1, <3>3 DEF Types, StoreTypes
    <3> QED
      BY <1>1, <2>2, <3>2, <3>4, <3>5, FinalFacts
  <2>4. ASSUME Once(r), NEW e \in Entries(r), e.undo, PathOf[e.item] \notin blurred
        PROVE  \/ mode[PathOf[e.item]] = given[PathOf[e.item]]
               \/ RepairedSince(r, PathOf[e.item])
    <3>1. OneEach(r)
      BY <2>4 DEF OneEach, Repaired
    <3>2. PICK x \in Undoable(r) : x.entry = e
      BY <1>1, <2>4, EntryFacts DEF Types
    <3>3. PICK f : f = PathOf[e.item]
      OBVIOUS
    <3>4. Settled(r, f)
      BY <2>1, <2>2, <2>3, <3>1, <3>2, <3>3 DEF UndoOf
    <3>5. CASE \E d \in Callers : Granted(d, f) /\ mem[d].new = mode[f]
      BY <3>3, <3>5 DEF RepairedSince, Held, Granted
    <3>6. CASE \E q \in Runs \ {r} : \E d \in Repaired(q, f) : d.new = mode[f]
      BY <1>1, <3>3, <3>6, RepairedFacts DEF RepairedSince, Types
    <3> QED
      BY <2>4, <3>3, <3>4, <3>5, <3>6 DEF Settled
  <2> QED
    BY <2>2, <2>4
<1>2. (Types /\ Journaled /\ Modal) /\ [Next]_vars => Restored
  BY <1>1
<1>3. [][Restored]_<<journalVars, permVars>> => UndoRestores
  BY DEF UndoRestores
<1> HIDE DEF Restored
<1> QED
  BY <1>2, <1>3, SpecModal, PTL DEF Spec

-----------------------------------------------------------------------------
(* Rows.                                                                    *)

\* A caller removes rows, or brings them back.
Applies(c) == pc[c] \in Removing /\ mem[c].flow = "apply"
Restores(c) == pc[c] \in Restoring /\ mem[c].flow = "restore"

\* An asset an apply has yet to remove was found missing and is, or it clashed.
MissingAt(c) ==
    Applies(c) => \A a \in Assets \ clashed :
        a = mem[c].asset \/ a \in mem[c].todo => a \notin present

LEMMA PermAway ==
  ASSUME Types, NEW c \in Callers, PermStep(c) \/ PermCall(c)
  PROVE  Moves(c) /\ pc'[c] \in {"idle"} \cup FixSteps \cup UndoSteps
<1>1. ASSUME PermStep(c) PROVE Moves(c) /\ pc'[c] \in {"idle"} \cup FixSteps \cup UndoSteps
  <2>1. CASE GuardFix(c)
    BY <2>1, GuardFixFacts DEF FixSteps
  <2>2. CASE SnapshotFix(c)
    BY <2>2, SnapshotFixFacts DEF FixSteps
  <2>3. CASE SkipItem(c)
    BY <2>3, SkipItemFacts DEF FixSteps
  <2>4. CASE StatItem(c)
    BY <2>4, StatItemFacts DEF FixSteps
  <2>5. CASE ChmodItem(c)
    BY <2>5, ChmodItemFacts DEF FixSteps
  <2>6. CASE JournalItem(c)
    BY <2>6, JournalItemFacts DEF FixSteps
  <2>7. CASE FinishFix(c)
    BY <2>7, FinishFixFacts DEF FixSteps
  <2>8. CASE ChmodUndo(c)
    BY <2>8, ChmodUndoFacts DEF UndoSteps
  <2>9. CASE JournalUndo(c)
    BY <2>9, JournalUndoFacts DEF UndoSteps
  <2>10. CASE FinishUndo(c)
    BY <2>10, FinishUndoFacts DEF UndoSteps
  <2> QED
    BY <1>1, <2>1, <2>2, <2>3, <2>4, <2>5, <2>6, <2>7, <2>8, <2>9, <2>10 DEF PermStep
<1>2. ASSUME NEW r \in Runs, NEW flags \in FlagSets, PlanOnly(c, r, flags)
      PROVE  Moves(c) /\ pc'[c] = "idle"
  BY <1>2, NoMove DEF PlanOnly, Call, Types
<1>3. ASSUME NEW r \in Runs, NEW flags \in FlagSets, PlanFix(c, r, flags)
      PROVE  Moves(c) /\ pc'[c] = "fix_guard"
  BY <1>3, PlanFixFacts
<1>4. ASSUME NEW r \in Runs, NEW u \in Runs, StartUndo(c, r, u)
      PROVE  Moves(c) /\ pc'[c] = "undo_item"
  BY <1>4, StartUndoFacts
<1> QED
  BY <1>1, <1>2, <1>3, <1>4 DEF PermCall, FixSteps, UndoSteps

\* A caller that has nothing new to remove.
LEMMA MissingKept ==
  ASSUME Types, NEW c \in Callers, Moves(c), \A d \in Callers : MissingAt(d),
         UNCHANGED present, clashed \subseteq clashed',
         \/ ~Applies(c)'
         \/ /\ Applies(c) /\ mem'[c].todo \subseteq mem[c].todo
            /\ mem'[c].asset \in mem[c].todo \cup {mem[c].asset, None}
  PROVE  \A d \in Callers : MissingAt(d)'
<1>1. MissingAt(c)'
  BY NoRunAssumption DEF MissingAt
<1>2. \A d \in Callers : d # c => pc'[d] = pc[d] /\ mem'[d] = mem[d]
  BY Others DEF Types
<1>3. \A d \in Callers : d # c => MissingAt(d)'
  BY <1>2 DEF MissingAt, Applies
<1> QED
  BY <1>1, <1>3

LEMMA MissingMissStep ==
  ASSUME Types, NEW c \in Callers, \A d \in Callers : MissingAt(d), MissStep(c)
  PROVE  \A d \in Callers : MissingAt(d)'
<1>1. CASE AlreadyRemoved(c)
  <2>1. Moves(c) /\ UNCHANGED present /\ clashed \subseteq clashed'
    BY <1>1, AlreadyRemovedFacts DEF AlreadyRemoved, missVars, database
  <2>2. \/ ~Applies(c)'
        \/ /\ Applies(c) /\ mem'[c].todo \subseteq mem[c].todo
           /\ mem'[c].asset \in mem[c].todo \cup {mem[c].asset, None}
    BY <1>1, AlreadyRemovedFacts, FlowFacts DEF Applies, Removing
  <2> QED
    BY <2>1, <2>2, MissingKept
<1>2. CASE Capture(c)
  <2>1. Moves(c) /\ UNCHANGED present /\ clashed \subseteq clashed'
    BY <1>2, CaptureFacts DEF Capture, missVars, database
  <2>2. \/ ~Applies(c)'
        \/ /\ Applies(c) /\ mem'[c].todo \subseteq mem[c].todo
           /\ mem'[c].asset \in mem[c].todo \cup {mem[c].asset, None}
    BY <1>2, CaptureFacts, FlowFacts DEF Applies, Removing
  <2> QED
    BY <2>1, <2>2, MissingKept
<1>3. CASE LoadIndex(c)
  <2>1. Moves(c) /\ UNCHANGED present /\ clashed \subseteq clashed'
    BY <1>3, LoadIndexFacts DEF LoadIndex
  <2>2. \/ ~Applies(c)'
        \/ /\ Applies(c) /\ mem'[c].todo \subseteq mem[c].todo
           /\ mem'[c].asset \in mem[c].todo \cup {mem[c].asset, None}
    BY <1>3, LoadIndexFacts, FlowFacts DEF Applies, Removing
  <2> QED
    BY <2>1, <2>2, MissingKept
<1>4. CASE CreatePoint(c)
  <2>1. Moves(c) /\ UNCHANGED present /\ clashed \subseteq clashed'
    BY <1>4, CreatePointFacts DEF CreatePoint
  <2>2. \/ ~Applies(c)'
        \/ /\ Applies(c) /\ mem'[c].todo \subseteq mem[c].todo
           /\ mem'[c].asset \in mem[c].todo \cup {mem[c].asset, None}
    BY <1>4, CreatePointFacts, FlowFacts DEF Applies, Removing
  <2> QED
    BY <2>1, <2>2, MissingKept
<1>5. CASE RemoveRows(c)
  <2>1. Moves(c) /\ UNCHANGED present /\ clashed \subseteq clashed'
    BY <1>5, RemoveRowsFacts DEF RemoveRows
  <2>2. \/ ~Applies(c)'
        \/ /\ Applies(c) /\ mem'[c].todo \subseteq mem[c].todo
           /\ mem'[c].asset \in mem[c].todo \cup {mem[c].asset, None}
    BY <1>5, RemoveRowsFacts, FlowFacts DEF Applies, Removing
  <2> QED
    BY <2>1, <2>2, MissingKept
<1>6. CASE DropPoint(c)
  <2>1. Moves(c) /\ UNCHANGED present /\ clashed \subseteq clashed'
    BY <1>6, DropPointFacts DEF DropPoint
  <2>2. \/ ~Applies(c)'
        \/ /\ Applies(c) /\ mem'[c].todo \subseteq mem[c].todo
           /\ mem'[c].asset \in mem[c].todo \cup {mem[c].asset, None}
    BY <1>6, DropPointFacts, FlowFacts DEF Applies, Removing
  <2> QED
    BY <2>1, <2>2, MissingKept
<1>7. CASE JournalRemoval(c)
  <2>1. Moves(c) /\ UNCHANGED present /\ clashed \subseteq clashed'
    BY <1>7, JournalRemovalFacts DEF JournalRemoval, missVars
  <2>2. \/ ~Applies(c)'
        \/ /\ Applies(c) /\ mem'[c].todo \subseteq mem[c].todo
           /\ mem'[c].asset \in mem[c].todo \cup {mem[c].asset, None}
    BY <1>7, JournalRemovalFacts, FlowFacts DEF Applies, Removing
  <2> QED
    BY <2>1, <2>2, MissingKept
<1>8. CASE FinishRun(c)
  <2>1. Moves(c) /\ UNCHANGED present /\ clashed \subseteq clashed'
    BY <1>8, FinishRunFacts DEF FinishRun, missVars
  <2>2. \/ ~Applies(c)'
        \/ /\ Applies(c) /\ mem'[c].todo \subseteq mem[c].todo
           /\ mem'[c].asset \in mem[c].todo \cup {mem[c].asset, None}
    BY <1>8, FinishRunFacts, FlowFacts DEF Applies, Removing
  <2> QED
    BY <2>1, <2>2, MissingKept
<1>9. CASE SkipRestored(c)
  <2>1. Moves(c) /\ UNCHANGED present /\ clashed \subseteq clashed'
    BY <1>9, SkipRestoredFacts DEF SkipRestored, missVars
  <2>2. \/ ~Applies(c)'
        \/ /\ Applies(c) /\ mem'[c].todo \subseteq mem[c].todo
           /\ mem'[c].asset \in mem[c].todo \cup {mem[c].asset, None}
    BY <1>9, SkipRestoredFacts, FlowFacts DEF Applies, Removing
  <2> QED
    BY <2>1, <2>2, MissingKept
<1>10. CASE InsertRows(c)
  <2>1. Moves(c) /\ UNCHANGED present /\ clashed \subseteq clashed'
    BY <1>10, InsertRowsFacts DEF InsertRows
  <2>2. \/ ~Applies(c)'
        \/ /\ Applies(c) /\ mem'[c].todo \subseteq mem[c].todo
           /\ mem'[c].asset \in mem[c].todo \cup {mem[c].asset, None}
    BY <1>10, InsertRowsFacts, FlowFacts DEF Applies, Removing
  <2> QED
    BY <2>1, <2>2, MissingKept
<1>11. CASE PointRestored(c)
  <2>1. Moves(c) /\ UNCHANGED present /\ clashed \subseteq clashed'
    BY <1>11, PointRestoredFacts DEF PointRestored
  <2>2. \/ ~Applies(c)'
        \/ /\ Applies(c) /\ mem'[c].todo \subseteq mem[c].todo
           /\ mem'[c].asset \in mem[c].todo \cup {mem[c].asset, None}
    BY <1>11, PointRestoredFacts, FlowFacts DEF Applies, Removing
  <2> QED
    BY <2>1, <2>2, MissingKept
<1>12. CASE DeleteWrite(c)
  <2>1. Moves(c) /\ UNCHANGED present /\ clashed \subseteq clashed'
    BY <1>12, DeleteWriteFacts DEF DeleteWrite
  <2>2. \/ ~Applies(c)'
        \/ /\ Applies(c) /\ mem'[c].todo \subseteq mem[c].todo
           /\ mem'[c].asset \in mem[c].todo \cup {mem[c].asset, None}
    BY <1>12, DeleteWriteFacts, FlowFacts DEF Applies, Removing
  <2> QED
    BY <2>1, <2>2, MissingKept
<1>13. CASE DeleteOrphan(c)
  <2>1. Moves(c) /\ UNCHANGED present /\ clashed \subseteq clashed'
    BY <1>13, DeleteOrphanFacts DEF DeleteOrphan
  <2>2. \/ ~Applies(c)'
        \/ /\ Applies(c) /\ mem'[c].todo \subseteq mem[c].todo
           /\ mem'[c].asset \in mem[c].todo \cup {mem[c].asset, None}
    BY <1>13, DeleteOrphanFacts, FlowFacts DEF Applies, Removing
  <2> QED
    BY <2>1, <2>2, MissingKept
<1> QED
  BY <1>1, <1>2, <1>3, <1>4, <1>5, <1>6, <1>7, <1>8, <1>9, <1>10, <1>11, <1>12, <1>13
  DEF MissStep

\* The guard has compared the scope with what is missing now.
LEMMA GuardedScope ==
  ASSUME Types, Journaled, NEW r \in Runs, runs[r] \in RemoveRun,
         runs[r].token = InScope(Findings, runs[r].scope), NEW a \in runs[r].scope
  PROVE  a \notin present
<1>1. PICK f \in runs[r].token : f.asset = a
  BY DEF Journaled, RunFile
<1>2. f.status = "missing_on_disk" /\ f \in Findings
  BY <1>1 DEF Journaled, RunFile, InScope
<1>3. PICK b \in assetRows : f = [asset |-> b, status |-> AssetStatus(b)]
  BY <1>2 DEF Findings
<1> QED
  BY <1>1, <1>2, <1>3 DEF AssetStatus

LEMMA MissingStep ==
  ASSUME Types, Journaled, \A d \in Callers : MissingAt(d), [Next]_vars
  PROVE  \A d \in Callers : MissingAt(d)'
<1>1. ASSUME UNCHANGED <<pc, mem, present>>, clashed \subseteq clashed'
      PROVE  \A d \in Callers : MissingAt(d)'
  BY <1>1 DEF MissingAt, Applies
<1>2. CASE PermNext /\ UNCHANGED missVars
  <2>1. ASSUME NEW c \in Callers, PermStep(c) \/ PermCall(c) PROVE \A d \in Callers : MissingAt(d)'
    <3>1. Moves(c) /\ ~Applies(c)'
      BY <2>1, PermAway DEF Applies, FixSteps, UndoSteps, Removing
    <3> QED
      BY <1>2, <3>1, MissingKept DEF missVars
  <2>2. ASSUME NEW f, NEW m, ModeDrift(f, m) PROVE UNCHANGED <<pc, mem, present, clashed>>
    BY <1>2, <2>2 DEF ModeDrift, missVars
  <2>3. ASSUME NEW s, Extracted(s) PROVE UNCHANGED <<pc, mem, present, clashed>>
    BY <1>2, <2>3 DEF Extracted, missVars
  <2> QED
    BY <1>1, <1>2, <2>1, <2>2, <2>3 DEF PermNext
<1>3. CASE MissNext
  <2>1. ASSUME NEW c \in Callers, MissCall(c) PROVE \A d \in Callers : MissingAt(d)'
    <3>1. ASSUME NEW r \in Runs, NEW asked, Preview(c, r, asked)
          PROVE  UNCHANGED <<pc, mem, present, clashed>>
      BY <3>1 DEF Preview, missVars
    <3>2. ASSUME NEW r \in Runs, StartApply(c, r) PROVE \A d \in Callers : MissingAt(d)'
      <4>1. runs[r] \in RemoveRun /\ UNCHANGED <<present, clashed>>
        BY <3>2, StartApplyRuns DEF StartApply
      <4>2. CASE pc'[c] = "idle"
        BY <3>2, <4>1, <4>2, StartApplyFacts, MissingKept DEF Applies, Removing
      <4>3. CASE pc'[c] # "idle"
        <5>1. /\ Moves(c) /\ runs[r].token = InScope(Findings, runs[r].scope)
              /\ mem'[c].todo = runs[r].scope /\ mem'[c].asset = None
          BY <3>2, <4>1, <4>3, StartApplyFacts
        <5>2. MissingAt(c)'
          BY <4>1, <5>1, GuardedScope, NoRunAssumption DEF MissingAt
        <5>3. \A d \in Callers : d # c => pc'[d] = pc[d] /\ mem'[d] = mem[d]
          BY <5>1, Others DEF Types
        <5>4. \A d \in Callers : d # c => MissingAt(d)'
          BY <4>1, <5>3 DEF MissingAt, Applies
        <5> QED
          BY <5>2, <5>4
      <4> QED
        BY <4>2, <4>3
    <3>3. ASSUME NEW r \in Runs, NEW ids, StartRestore(c, r, ids)
          PROVE  \A d \in Callers : MissingAt(d)'
      <4>1. Moves(c) /\ ~Applies(c)'
        BY <3>3, StartRestoreFacts DEF Applies, Removing
      <4> QED
        BY <3>3, <4>1, MissingKept DEF StartRestore, missVars
    <3>4. ASSUME NEW ids \in (SUBSET Points) \ {{}}, DeletePoints(c, ids)
          PROVE  \A d \in Callers : MissingAt(d)'
      <4>1. Moves(c) /\ ~Applies(c)'
        BY <3>4, DeletePointsFacts DEF Applies, Removing
      <4> QED
        BY <3>4, <4>1, MissingKept DEF DeletePoints, missVars
    <3>5. CASE CollectOrphans(c)
      <4>1. Moves(c) /\ ~Applies(c)'
        BY <3>5, CollectOrphansFacts DEF Applies, Removing
      <4> QED
        BY <3>5, <4>1, MissingKept DEF CollectOrphans, missVars
    <3> QED
      BY <1>1, <2>1, <3>1, <3>2, <3>3, <3>4, <3>5 DEF MissCall
  <2>2. ASSUME NEW g \in Assets, FileChanges(g), NEW d \in Callers PROVE MissingAt(d)'
    <3>1. /\ UNCHANGED <<pc, mem>> /\ clashed \subseteq clashed'
          /\ g \in UnderApply => g \in clashed'
          /\ \A a : a # g => (a \in present' <=> a \in present)
      BY <2>2 DEF FileChanges
    <3>2. ASSUME NEW a \in Assets \ clashed', Applies(d), a = mem[d].asset \/ a \in mem[d].todo
          PROVE  a \notin present'
      <4>1. a \in UnderApply
        BY <3>2 DEF UnderApply, Applies
      <4> QED
        BY <3>1, <3>2, <4>1 DEF MissingAt
    <3> QED
      BY <3>1, <3>2 DEF MissingAt, Applies
  <2>3. ASSUME NEW l, LinkAdded(l) PROVE UNCHANGED <<pc, mem, present>> /\ clashed \subseteq clashed'
    BY <2>3 DEF LinkAdded
  <2>4. ASSUME NEW b, AlbumGone(b) PROVE UNCHANGED <<pc, mem, present, clashed>>
    BY <2>4 DEF AlbumGone
  <2> QED
    BY <1>1, <1>3, <2>1, <2>2, <2>3, <2>4, MissingMissStep DEF MissNext
<1>4. CASE Crash
  <2>1. \A d \in Callers : pc'[d] = "idle"
    BY <1>4 DEF Crash, JournalCrash
  <2> QED
    BY <2>1 DEF MissingAt, Applies, Removing
<1>5. CASE UNCHANGED vars
  BY <1>1, <1>5 DEF vars, journalVars, missVars
<1> QED
  BY <1>2, <1>3, <1>4, <1>5 DEF Next

\* An apply removes no row whose file is there, unless the file came back under
\* the apply: the guard, not the deletion, is what looked.
THEOREM PresentIsKept == Spec => PresentKept
<1> DEFINE Found == \A d \in Callers : MissingAt(d)
           Kept1 == \A a \in assetRows \ assetRows' :
                      \A c \in Callers : pc[c] = "remove_rows" /\ mem[c].asset = a /\ pc'[c] # pc[c] =>
                         a \notin present \/ a \in clashed
<1>1. Init => Found
  BY DEF Init, JournalInit, MissingAt, Applies, Removing
<1>2. (Types /\ Journaled) /\ Found /\ [Next]_vars => Found'
  BY MissingStep
<1>3. Types /\ Found => Kept1
  <2> SUFFICES ASSUME Types, Found, NEW c \in Callers, NEW a \in assetRows,
                      pc[c] = "remove_rows", mem[c].asset = a
               PROVE  a \notin present \/ a \in clashed
    OBVIOUS
  <2>1. Applies(c) /\ a \in Assets
    BY WorkFacts, FlowFacts DEF Applies, Removing, Restoring, Types, RowTypes
  <2> QED
    BY <2>1 DEF MissingAt
<1>4. [][Kept1]_<<journalVars, missVars>> => PresentKept
  BY DEF PresentKept
<1> HIDE DEF Found, Kept1
<1> QED
  BY <1>1, <1>2, <1>3, <1>4, SpecRuns, PTL DEF Spec

-----------------------------------------------------------------------------
(* Restore points.                                                          *)

\* No point was deleted and no index written over a newer one.
Clean == ~overwrote /\ dropped = {}

OwnLinks(p) == p.status = "available" => \A l \in p.links : l[2] = p.asset
Capturing == {"point_load", "point_write"}
\* Steps at which a caller may change what the index has of its point.
Busy == {"point_load", "point_write", "remove_rows", "unpoint_load", "unpoint_write",
         "restored_load", "restored_write"}
PointOf(c) == [id |-> mem[c].point, asset |-> mem[c].asset, links |-> mem[c].links,
               status |-> "available"]

\* A point id is in use for an asset, in the index or with a restore.
Tied(i, a) ==
    \/ \E p \in index : p.id = i /\ p.asset = a
    \/ \E c \in Callers : /\ Restores(c)
                          /\ \/ mem[c].point = i /\ mem[c].asset = a
                             \/ \E q \in mem[c].todo : q.id = i /\ q.asset = a

Loaded(c) == pc[c] \in Writing /\ c \notin stale => mem[c].index = index
OneTie == \A i \in Points : \A a, b \in Assets : Tied(i, a) /\ Tied(i, b) => a = b
OwnPoints ==
    /\ \A p \in index : OwnLinks(p)
    /\ \A c \in Callers : Restores(c) => \A q \in mem[c].todo : OwnLinks(q)

\* The id a capture has drawn is nobody else's,
Unclaimed(c) ==
    pc[c] \in Capturing =>
        /\ \A p \in index : p.id # mem[c].point
        /\ \A d \in Callers \ {c} : ~Owns(d, mem[c].point)
\* what it captured is all there is,
Captured(c) ==
    pc[c] \in Capturing \cup {"remove_rows"} =>
        /\ OwnLinks(PointOf(c))
        /\ mem[c].asset \notin clashed => LinksOf(mem[c].asset) \subseteq mem[c].links
\* and it is in the index, where no restore is about to replace it.
Pointing(c) ==
    pc[c] = "remove_rows" /\ mem[c].asset \notin clashed =>
        /\ PointOf(c) \in index
        /\ \A d \in Callers : pc[d] \in {"restored_load", "restored_write"} =>
              mem[d].point # mem[c].point

\* Two applies work on two points.
Apart(c) ==
    \A d \in Callers \ {c} :
        Applies(c) /\ Applies(d) /\ mem[c].point # None => mem[c].point # mem[d].point

\* A point to restore an asset from that no caller is about to change.
Witness(a, p) ==
    /\ p.asset = a /\ p.status = "available" /\ removed[a] \subseteq p.links
    /\ \A d \in Callers : pc[d] \in Busy => mem[d].point # p.id
Recoverable(a) ==
    a \notin clashed /\ removed[a] # None /\ a \notin assetRows => \E p \in index : Witness(a, p)

Rows ==
    Clean =>
        /\ OneTie /\ OwnPoints
        /\ \A c \in Callers : Loaded(c) /\ Unclaimed(c) /\ Captured(c) /\ Pointing(c) /\ Apart(c)
        /\ \A a \in Assets : Recoverable(a)

\* A caller stays where it is, or goes where it works on no point.
Calms(d) ==
    \/ /\ pc'[d] = pc[d] /\ mem'[d] = mem[d]
       /\ pc[d] \in Writing /\ d \in stale => d \in stale'
    \/ /\ pc'[d] \notin Pointed \cup {"delete_write"}
       /\ pc'[d] \in Removing \cup Restoring =>
             /\ mem'[d].point = None
             /\ mem'[d].flow = "restore" => \A q \in mem'[d].todo :
                   q \in index \/ (Restores(d) /\ q \in mem[d].todo)

LEMMA StepSets ==
    /\ Busy \subseteq Pointed /\ Capturing \subseteq Busy /\ Busy \subseteq Removing \cup Restoring
    /\ Capturing \subseteq Removing \ Restoring /\ "remove_rows" \in Busy
    /\ "remove_rows" \in Removing \ Restoring
    /\ {"restored_load", "restored_write"} \subseteq (Restoring \ Removing) \cap Busy
    /\ Writing \subseteq Pointed \cup {"delete_write"}
  BY DEF Busy, Pointed, Capturing, Removing, Restoring, Writing

\* A caller that removes rows of an asset works on it under an apply.
LEMMA CaptureFlow ==
  ASSUME Types, NEW c \in Callers, pc[c] \in Capturing \cup {"remove_rows"}
  PROVE  /\ Applies(c) /\ mem[c] \in Applying
         /\ mem[c].asset \in UnderApply /\ mem[c].asset \in Assets
         /\ mem[c].point \in Points /\ Owns(c, mem[c].point)
<1>1. mem[c] \in Applying /\ pc[c] \in Pointed /\ pc[c] \in Removing
  BY StepSets, WorkFacts DEF Capturing
<1>2. mem[c].asset \in Assets /\ mem[c].point \in Points
  BY <1>1, WorkFacts
<1> QED
  BY <1>1, <1>2, FlowFacts DEF Applies, UnderApply, Owns

\* What ties there are is what there were.
LEMMA TiesKept ==
  ASSUME OneTie, \A i \in Points : \A a \in Assets : Tied(i, a)' => Tied(i, a)
  PROVE  OneTie'
  BY DEF OneTie

LEMMA UnclaimedKept ==
  ASSUME Types, NEW d \in Callers, Unclaimed(d), pc[d] \in Capturing, mem'[d].point = mem[d].point,
         \A p \in index' : (\E q \in index : q.id = p.id) \/ \E e \in Callers \ {d} : Owns(e, p.id),
         \A e \in Callers \ {d} : \A i \in Points :
            Owns(e, i)' => Owns(e, i) \/ (\E q \in index : q.id = i) \/ ~Owns(d, i)
  PROVE  Unclaimed(d)'
<1>1. PICK i \in Points : i = mem[d].point /\ Owns(d, i)
  BY CaptureFlow
<1>2. /\ \A p \in index : p.id # i
      /\ \A e \in Callers \ {d} : ~Owns(e, i)
  BY <1>1 DEF Unclaimed
<1>3. \A p \in index' : p.id # i
  BY <1>2
<1>4. \A e \in Callers \ {d} : ~Owns(e, i)'
  BY <1>1, <1>2
<1> QED
  BY <1>1, <1>3, <1>4 DEF Unclaimed

LEMMA CapturedKept ==
  ASSUME Types, NEW d \in Callers, Captured(d), pc[d] \in Capturing \cup {"remove_rows"},
         mem'[d].point = mem[d].point, mem'[d].asset = mem[d].asset, mem'[d].links = mem[d].links,
         clashed \subseteq clashed',
         \A a \in UnderApply : a \in clashed' \/ LinksOf(a)' \subseteq LinksOf(a)
  PROVE  Captured(d)'
<1>1. PICK a \in UnderApply : a = mem[d].asset
  BY CaptureFlow
<1>2. a \notin clashed' => LinksOf(a)' \subseteq mem[d].links
  BY <1>1 DEF Captured
<1>3. OwnLinks(PointOf(d))'
  BY DEF Captured, OwnLinks, PointOf
<1> QED
  BY <1>1, <1>2, <1>3 DEF Captured

\* What an asset can be restored from stays.
LEMMA RecoverableKept ==
  ASSUME NEW a, Recoverable(a), clashed \subseteq clashed',
         a \notin clashed' => removed'[a] = removed[a] /\ (a \in assetRows => a \in assetRows'),
         \A p \in index : Witness(a, p) =>
            /\ p \in index'
            /\ \A d \in Callers : pc'[d] \in Busy /\ mem'[d].point = p.id =>
                  pc[d] \in Busy /\ mem[d].point = p.id
  PROVE  Recoverable(a)'
<1> SUFFICES ASSUME a \notin clashed', removed'[a] # None, a \notin assetRows'
             PROVE  \E p \in index' : Witness(a, p)'
  BY DEF Recoverable
<1>1. PICK p \in index : Witness(a, p)
  BY DEF Recoverable
<1>2. p \in index' /\ Witness(a, p)'
  BY <1>1 DEF Witness
<1> QED
  BY <1>2

\* Steps at which no point is at stake.
LEMMA RowsCalm ==
  ASSUME Types, Rows, UNCHANGED <<index, dropped, overwrote, assetRows, removed>>,
         clashed \subseteq clashed',
         \A a \in UnderApply : a \in clashed' \/ LinksOf(a)' \subseteq LinksOf(a),
         \A d \in Callers : Calms(d)
  PROVE  Rows'
<1> SUFFICES ASSUME Clean'
             PROVE  /\ OneTie' /\ OwnPoints'
                    /\ \A c \in Callers : /\ Loaded(c)' /\ Unclaimed(c)' /\ Captured(c)'
                                          /\ Pointing(c)' /\ Apart(c)'
                    /\ \A a \in Assets : Recoverable(a)'
  BY DEF Rows
<1>1. /\ OneTie /\ OwnPoints
      /\ \A c \in Callers : Loaded(c) /\ Unclaimed(c) /\ Captured(c) /\ Pointing(c) /\ Apart(c)
      /\ \A a \in Assets : Recoverable(a)
  BY DEF Rows, Clean
<1>2. \A d \in Callers : pc'[d] \in Pointed \cup Writing \cup Busy =>
         /\ pc'[d] = pc[d] /\ mem'[d] = mem[d]
         /\ pc[d] \in Writing /\ d \in stale => d \in stale'
  BY StepSets DEF Calms
<1>3. ASSUME NEW d \in Callers, NEW i \in Points, Owns(d, i)'
      PROVE  Owns(d, i) \/ \E q \in index : q.id = i
  BY <1>3, NoRunAssumption DEF Calms, Owns, Restores
<1>4. OneTie'
  <2>1. ASSUME NEW i \in Points, NEW a \in Assets, Tied(i, a)' PROVE Tied(i, a)
    <3>1. CASE \E p \in index' : p.id = i /\ p.asset = a
      BY <3>1 DEF Tied
    <3>2. CASE \E c \in Callers : /\ Restores(c)'
                                  /\ \/ mem'[c].point = i /\ mem'[c].asset = a
                                     \/ \E q \in mem'[c].todo : q.id = i /\ q.asset = a
      <4>1. PICK c \in Callers : /\ Restores(c)'
                                 /\ \/ mem'[c].point = i /\ mem'[c].asset = a
                                    \/ \E q \in mem'[c].todo : q.id = i /\ q.asset = a
        BY <3>2
      <4>2. CASE pc'[c] = pc[c] /\ mem'[c] = mem[c]
        BY <4>1, <4>2 DEF Tied, Restores
      <4>3. CASE ~(pc'[c] = pc[c] /\ mem'[c] = mem[c])
        <5>1. PICK q \in mem'[c].todo : q.id = i /\ q.asset = a
          BY <4>1, <4>3, NoRunAssumption DEF Calms, Restores
        <5>2. q \in index \/ (Restores(c) /\ q \in mem[c].todo)
          BY <4>1, <4>3, <5>1 DEF Calms, Restores
        <5> QED
          BY <5>1, <5>2 DEF Tied
      <4> QED
        BY <4>2, <4>3
    <3> QED
      BY <2>1, <3>1, <3>2 DEF Tied
  <2> QED
    BY <1>1, <2>1, TiesKept
<1>5. OwnPoints'
  <2>1. ASSUME NEW c \in Callers, Restores(c)', NEW q \in mem'[c].todo PROVE OwnLinks(q)
    BY <1>1, <2>1 DEF Calms, OwnPoints, Restores
  <2> QED
    BY <1>1, <2>1 DEF OwnPoints, OwnLinks
<1>6. ASSUME NEW d \in Callers PROVE Loaded(d)'
  BY <1>1, <1>2, <1>6 DEF Loaded
<1>7. ASSUME NEW d \in Callers PROVE Unclaimed(d)'
  <2>1. CASE pc'[d] \in Capturing
    BY <1>1, <1>2, <1>3, <2>1, UnclaimedKept, StepSets
  <2> QED
    BY <2>1 DEF Unclaimed
<1>8. ASSUME NEW d \in Callers PROVE Captured(d)'
  <2>1. CASE pc'[d] \in Capturing \cup {"remove_rows"}
    BY <1>1, <1>2, <2>1, CapturedKept, StepSets
  <2> QED
    BY <2>1 DEF Captured
<1>9. ASSUME NEW d \in Callers PROVE Pointing(d)'
  BY <1>1, <1>2, <1>9, StepSets DEF Pointing, PointOf
<1>10. ASSUME NEW d \in Callers PROVE Apart(d)'
  <2>1. ASSUME NEW e \in Callers \ {d}, Applies(d)', Applies(e)', mem'[d].point # None
        PROVE  mem'[d].point # mem'[e].point
    <3>1. pc'[d] = pc[d] /\ mem'[d] = mem[d]
      BY <2>1 DEF Calms, Applies
    <3>2. mem'[e].point = None \/ (pc'[e] = pc[e] /\ mem'[e] = mem[e])
      BY <2>1 DEF Calms, Applies
    <3> QED
      BY <1>1, <2>1, <3>1, <3>2 DEF Apart, Applies
  <2> QED
    BY <2>1 DEF Apart
<1>11. ASSUME NEW a \in Assets PROVE Recoverable(a)'
  BY <1>1, <1>2, <1>11, RecoverableKept
<1> QED
  BY <1>4, <1>5, <1>6, <1>7, <1>8, <1>9, <1>10, <1>11

\* What the invariant says while nothing was overwritten or deleted.
RowsHold ==
    /\ OneTie /\ OwnPoints
    /\ \A c \in Callers : Loaded(c) /\ Unclaimed(c) /\ Captured(c) /\ Pointing(c) /\ Apart(c)
    /\ \A a \in Assets : Recoverable(a)

LEMMA RowsIf == Rows <=> (Clean => RowsHold)
  BY DEF Rows, RowsHold

\* One caller works on a point; the others' captures and points are not touched.
LEMMA RowsMoved ==
  ASSUME Types, RowsHold, NEW c \in Callers, Moves(c), clashed \subseteq clashed',
         \A a \in UnderApply : a \in clashed' \/ LinksOf(a)' \subseteq LinksOf(a),
         \A p \in index' : (\E q \in index : q.id = p.id) \/ Owns(c, p.id),
         \A i \in Points : Owns(c, i)' =>
            Owns(c, i) \/ (\E q \in index : q.id = i) \/ \A d \in Callers : ~Owns(d, i),
         \A d \in Callers \ {c} : pc[d] = "remove_rows" /\ mem[d].asset \notin clashed' =>
            /\ PointOf(d) \in index'
            /\ pc'[c] \in {"restored_load", "restored_write"} => mem'[c].point # mem[d].point,
         Applies(c)' => \/ Applies(c) /\ mem'[c].point = mem[c].point
                        \/ \A d \in Callers : ~Owns(d, mem'[c].point),
         OneTie', OwnPoints', \A d \in Callers : Loaded(d)', Unclaimed(c)', Captured(c)',
         Pointing(c)', \A a \in Assets : Recoverable(a)'
  PROVE  RowsHold'
<1>1. \A d \in Callers : d # c => pc'[d] = pc[d] /\ mem'[d] = mem[d]
  BY Others DEF Types
<1>2. ASSUME NEW d \in Callers, d # c PROVE Unclaimed(d)'
  <2>1. CASE pc[d] \in Capturing
    <3>1. \A e \in Callers \ {d} : \A i \in Points :
             Owns(e, i)' => Owns(e, i) \/ (\E q \in index : q.id = i) \/ ~Owns(d, i)
      BY <1>1, <1>2 DEF Owns
    <3> QED
      BY <1>1, <1>2, <2>1, <3>1, UnclaimedKept DEF RowsHold
  <2> QED
    BY <1>1, <1>2, <2>1 DEF Unclaimed
<1>3. ASSUME NEW d \in Callers, d # c PROVE Captured(d)'
  <2>1. CASE pc[d] \in Capturing \cup {"remove_rows"}
    BY <1>1, <1>3, <2>1, CapturedKept DEF RowsHold
  <2> QED
    BY <1>1, <1>3, <2>1 DEF Captured
<1>4. ASSUME NEW d \in Callers, d # c PROVE Pointing(d)'
  <2>1. ASSUME pc[d] = "remove_rows", mem[d].asset \notin clashed', NEW e \in Callers,
               pc'[e] \in {"restored_load", "restored_write"}
        PROVE  mem'[e].point # mem[d].point
    BY <1>1, <1>4, <2>1 DEF RowsHold, Pointing
  <2>2. pc[d] = "remove_rows" /\ mem[d].asset \notin clashed' => PointOf(d)' \in index'
    BY <1>1, <1>4 DEF PointOf
  <2> QED
    BY <1>1, <1>4, <2>1, <2>2 DEF Pointing
<1>5. ASSUME NEW d \in Callers, NEW e \in Callers \ {d}, Applies(d)', Applies(e)',
             mem'[d].point # None, mem'[d].point = mem'[e].point
      PROVE  FALSE
  <2>1. CASE d # c /\ e # c
    BY <1>1, <1>5, <2>1 DEF RowsHold, Apart, Applies
  <2>2. CASE d = c \/ e = c
    <3>1. PICK b \in {d, e} : b # c
      BY <1>5
    <3>2. pc[b] \in Removing /\ mem[b].point = mem'[c].point /\ mem[b].flow = "apply" /\ b \in Callers
      BY <1>1, <1>5, <2>2, <3>1 DEF Applies
    <3>3. Owns(b, mem'[c].point)
      BY <3>2 DEF Owns
    <3>4. Applies(c) /\ mem'[c].point = mem[c].point
      BY <1>5, <2>2, <3>2, <3>3
    <3> QED
      BY <1>5, <2>2, <3>1, <3>2, <3>4 DEF RowsHold, Apart, Applies
  <2> QED
    BY <2>1, <2>2
<1>6. \A d \in Callers : Apart(d)'
  BY <1>5 DEF Apart
<1> QED
  BY <1>2, <1>3, <1>4, <1>6 DEF RowsHold

\* Ties after a step of one caller.
LEMMA TiesMoved ==
  ASSUME Types, OneTie, NEW c \in Callers, Moves(c),
         \A p \in index' : \A i \in Points : \A a \in Assets :
            p.id = i /\ p.asset = a => Tied(i, a),
         \A i \in Points : \A a \in Assets :
            /\ Restores(c)' /\ mem'[c].point = i /\ mem'[c].asset = a => Tied(i, a)
            /\ \A q \in mem'[c].todo : Restores(c)' /\ q.id = i /\ q.asset = a => Tied(i, a)
  PROVE  OneTie'
<1>1. \A d \in Callers : d # c => pc'[d] = pc[d] /\ mem'[d] = mem[d]
  BY Others DEF Types
<1>2. ASSUME NEW i \in Points, NEW a \in Assets, Tied(i, a)' PROVE Tied(i, a)
  <2>1. CASE \E p \in index' : p.id = i /\ p.asset = a
    BY <2>1
  <2>2. ASSUME NEW d \in Callers, Restores(d)',
               \/ mem'[d].point = i /\ mem'[d].asset = a
               \/ \E q \in mem'[d].todo : q.id = i /\ q.asset = a
        PROVE  Tied(i, a)
    <3>1. CASE d = c
      BY <2>2, <3>1
    <3>2. CASE d # c
      BY <1>1, <2>2, <3>2 DEF Tied, Restores
    <3> QED
      BY <3>1, <3>2
  <2> QED
    BY <1>2, <2>1, <2>2 DEF Tied
<1> QED
  BY <1>2, TiesKept

LEMMA OwnMoved ==
  ASSUME Types, OwnPoints, NEW c \in Callers, Moves(c), \A p \in index' : OwnLinks(p),
         Restores(c)' => Restores(c) /\ mem'[c].todo \subseteq mem[c].todo
  PROVE  OwnPoints'
<1>1. \A d \in Callers : d # c => pc'[d] = pc[d] /\ mem'[d] = mem[d]
  BY Others DEF Types
<1>2. \A d \in Callers : Restores(d)' => \A q \in mem'[d].todo : OwnLinks(q)
  BY <1>1 DEF OwnPoints, Restores
<1> QED
  BY <1>2 DEF OwnPoints, OwnLinks

\* A caller draws an id nobody has and holds what the rows are.
LEMMA RowsCapture ==
  ASSUME Types, Rows, NEW c \in Callers, Capture(c)
  PROVE  Rows'
<1>1. UNCHANGED missVars /\ UNCHANGED <<index, dropped, overwrote, assetRows, removed, clashed, stale, links>>
  BY DEF Capture, missVars, database
<1>2. Moves(c) /\ pc[c] = "apply_item" /\ \A d \in Callers : d # c => pc'[d] = pc[d] /\ mem'[d] = mem[d]
  BY CaptureFacts, Others DEF Types
<1>3. \A a : LinksOf(a)' = LinksOf(a)
  BY <1>1 DEF LinksOf
<1>4. CASE pc'[c] = "idle"
  <2>1. \A d \in Callers : Calms(d)
    BY <1>1, <1>2, <1>4 DEF Calms, Pointed, Removing, Restoring
  <2> QED
    BY <1>1, <1>3, <2>1, RowsCalm
<1>5. CASE pc'[c] # "idle"
  <2>1. /\ pc'[c] = "point_load" /\ mem'[c].flow = "apply"
        /\ mem'[c].links = LinksOf(mem'[c].asset) /\ mem'[c].point \in Points
        /\ \A q \in index : q.id # mem'[c].point
        /\ \A d \in Callers : ~Owns(d, mem'[c].point)
    BY <1>5, CaptureFacts
  <2> SUFFICES ASSUME Clean' PROVE RowsHold'
    BY RowsIf DEF Rows, RowsHold
  <2>2. RowsHold
    BY <1>1, RowsIf DEF Clean
  <2>3. ~Restores(c)' /\ pc'[c] \notin Writing
    BY <2>1 DEF Restores, Writing
  <2>4. OneTie'
    BY <1>1, <1>2, <2>2, <2>3, TiesMoved DEF Tied, RowsHold
  <2>5. OwnPoints'
    BY <1>1, <1>2, <2>2, <2>3, OwnMoved DEF OwnPoints, RowsHold
  <2>6. \A d \in Callers : Loaded(d)'
    BY <1>1, <1>2, <2>2, <2>3 DEF Loaded, RowsHold
  <2>7. Unclaimed(c)'
    BY <1>1, <1>2, <2>1 DEF Unclaimed, Owns
  <2>8. Captured(c)'
    BY <1>3, <2>1 DEF Captured, OwnLinks, PointOf, LinksOf
  <2>9. Pointing(c)'
    BY <2>1 DEF Pointing
  <2>10. ASSUME NEW a \in Assets PROVE Recoverable(a)'
    BY <1>1, <1>2, <2>1, <2>2, RecoverableKept DEF RowsHold
  <2>11. \A i \in Points : Owns(c, i)' => \A d \in Callers : ~Owns(d, i)
    BY <2>1 DEF Owns
  <2>12. \A d \in Callers \ {c} : pc[d] = "remove_rows" /\ mem[d].asset \notin clashed' =>
            PointOf(d) \in index'
    BY <1>1, <2>2 DEF RowsHold, Pointing
  <2> QED
    BY <1>1, <1>2, <1>3, <2>1, <2>2, <2>4, <2>5, <2>6, <2>7, <2>8, <2>9, <2>10, <2>11, <2>12,
       RowsMoved
<1> QED
  BY <1>4, <1>5

\* The index is loaded as it is.
LEMMA RowsLoad ==
  ASSUME Types, Rows, NEW c \in Callers, LoadIndex(c)
  PROVE  Rows'
<1>1. UNCHANGED <<index, dropped, overwrote, assetRows, removed, clashed, links>> /\ stale' = stale \ {c}
  BY DEF LoadIndex, database
<1>2. Moves(c) /\ \A d \in Callers : d # c => pc'[d] = pc[d] /\ mem'[d] = mem[d]
  BY LoadIndexFacts, Others DEF Types
<1>3. /\ mem'[c].flow = mem[c].flow /\ mem'[c].todo = mem[c].todo /\ mem'[c].asset = mem[c].asset
      /\ mem'[c].links = mem[c].links /\ mem'[c].point = mem[c].point /\ mem'[c].index = index
  BY LoadIndexFacts
<1>4. /\ pc'[c] = "point_write" => pc[c] = "point_load"
      /\ pc'[c] = "unpoint_write" => pc[c] = "unpoint_load"
      /\ pc'[c] = "restored_write" => pc[c] = "restored_load"
      /\ pc'[c] \in Writing
  BY LoadIndexFacts DEF Writing
<1>5. \A a : LinksOf(a)' = LinksOf(a)
  BY <1>1 DEF LinksOf
<1> SUFFICES ASSUME Clean' PROVE RowsHold'
  BY RowsIf DEF Rows, RowsHold
<1>6. RowsHold
  BY <1>1, RowsIf DEF Clean
<1>7. /\ Restores(c)' => Restores(c)
      /\ Applies(c)' => Applies(c)
      /\ pc'[c] \in Busy => pc[c] \in Busy
      /\ pc'[c] \in Capturing => pc[c] \in Capturing
      /\ pc'[c] # "remove_rows"
  BY <1>3, <1>4 DEF Restores, Applies, Writing, Removing, Restoring, Busy, Capturing
<1>8. \A i \in Points : Owns(c, i)' => Owns(c, i)
  BY <1>3, <1>4 DEF Owns, Writing, Removing, Restoring
<1>9. OneTie'
  BY <1>1, <1>2, <1>3, <1>6, <1>7, TiesMoved DEF Tied, RowsHold
<1>10. OwnPoints'
  BY <1>1, <1>2, <1>3, <1>6, <1>7, OwnMoved DEF OwnPoints, RowsHold
<1>11. \A d \in Callers : Loaded(d)'
  BY <1>1, <1>2, <1>3, <1>6 DEF Loaded, RowsHold
<1>12. Unclaimed(c)'
  <2>1. CASE pc'[c] \in Capturing
    <3>1. \A e \in Callers \ {c} : \A i \in Points : Owns(e, i)' => Owns(e, i)
      BY <1>2 DEF Owns
    <3> QED
      BY <1>1, <1>3, <1>6, <1>7, <2>1, <3>1, UnclaimedKept DEF RowsHold
  <2> QED
    BY <2>1 DEF Unclaimed
<1>13. Captured(c)'
  <2>1. CASE pc'[c] \in Capturing
    BY <1>1, <1>3, <1>5, <1>6, <1>7, <2>1, CapturedKept DEF RowsHold
  <2> QED
    BY <1>7, <2>1 DEF Captured
<1>14. Pointing(c)'
  BY <1>7 DEF Pointing
<1>15. ASSUME NEW a \in Assets PROVE Recoverable(a)'
  BY <1>1, <1>2, <1>3, <1>6, <1>7, RecoverableKept DEF RowsHold
<1>16. \A d \in Callers \ {c} : pc[d] = "remove_rows" /\ mem[d].asset \notin clashed' =>
          /\ PointOf(d) \in index'
          /\ pc'[c] \in {"restored_load", "restored_write"} => mem'[c].point # mem[d].point
  BY <1>1, <1>3, <1>4, <1>6 DEF RowsHold, Pointing, Writing
<1> QED
  BY <1>1, <1>2, <1>3, <1>5, <1>6, <1>7, <1>8, <1>9, <1>10, <1>11, <1>12, <1>13, <1>14, <1>15,
     <1>16, RowsMoved

\* An index that is written over no newer one was loaded as it is.
LEMMA WriteFacts ==
  ASSUME Types, Rows, NEW c \in Callers, pc[c] \in Writing, NEW points, WriteIndex(c, points),
         UNCHANGED dropped, Clean'
  PROVE  RowsHold /\ mem[c].index = index /\ index' = points
<1>1. Clean /\ c \notin stale /\ index' = points
  BY DEF Clean, WriteIndex
<1>2. RowsHold
  BY <1>1, RowsIf
<1> QED
  BY <1>1, <1>2 DEF RowsHold, Loaded

LEMMA LoadedAfterWrite ==
  ASSUME Types, NEW c \in Callers, Moves(c), NEW points, WriteIndex(c, points), pc'[c] \notin Writing
  PROVE  \A d \in Callers : Loaded(d)'
<1>1. \A d \in Callers : d # c => pc'[d] = pc[d] /\ mem'[d] = mem[d]
  BY Others DEF Types
<1>2. ASSUME NEW d \in Callers, pc'[d] \in Writing PROVE d \in stale'
  BY <1>1, <1>2 DEF WriteIndex
<1> QED
  BY <1>2 DEF Loaded

\* The captured rows become a restore point with an id nobody has.
LEMMA RowsCreate ==
  ASSUME Types, Rows, NEW c \in Callers, CreatePoint(c)
  PROVE  Rows'
<1>1. UNCHANGED <<dropped, assetRows, removed, clashed, links>>
  BY DEF CreatePoint, database
<1>2. /\ Moves(c) /\ pc[c] = "point_write" /\ pc'[c] = "remove_rows" /\ mem'[c] = mem[c]
      /\ \A d \in Callers : d # c => pc'[d] = pc[d] /\ mem'[d] = mem[d]
  BY CreatePointFacts, Others DEF Types
<1>3. \A a : LinksOf(a)' = LinksOf(a)
  BY <1>1 DEF LinksOf
<1> SUFFICES ASSUME Clean' PROVE RowsHold'
  BY RowsIf DEF Rows, RowsHold
<1>4. WriteIndex(c, With(mem[c].index, PointOf(c)))
  BY DEF CreatePoint, PointOf
<1>5. RowsHold /\ index' = With(index, PointOf(c))
  BY <1>1, <1>2, <1>4, WriteFacts DEF Writing
<1>own. PICK i \in Points, b \in Assets :
           i = mem[c].point /\ b = mem[c].asset /\ Owns(c, i) /\ Applies(c)
  BY <1>2, CaptureFlow DEF Capturing
<1>6. PICK new : new = PointOf(c) /\ i = mem[c].point /\ b = mem[c].asset /\ Owns(c, i) /\ Applies(c)
  BY <1>own
<1>7. /\ new.id = i /\ new.asset = b /\ OwnLinks(new)
      /\ \A p \in index : p.id # i
      /\ \A d \in Callers \ {c} : ~Owns(d, i)
  BY <1>2, <1>5, <1>6 DEF RowsHold, Captured, Unclaimed, Capturing, PointOf
<1>8. index' = index \cup {new}
  BY <1>5, <1>6, <1>7 DEF With
<1>9. ~Restores(c)' /\ ~Restores(c) /\ Applies(c)'
  BY <1>2, <1>6 DEF Restores, Restoring, Applies, Removing
<1>10. OneTie'
  <2>1. \A a \in Assets : ~Tied(i, a)
    BY <1>7, <1>9 DEF Tied, Owns, Restores
  <2>2. ASSUME NEW j \in Points, NEW a \in Assets, Tied(j, a)'
        PROVE  Tied(j, a) \/ (j = i /\ a = b)
    <3>1. CASE \E p \in index' : p.id = j /\ p.asset = a
      BY <1>7, <1>8, <3>1 DEF Tied
    <3>2. CASE ~\E p \in index' : p.id = j /\ p.asset = a
      BY <1>2, <1>9, <2>2, <3>2 DEF Tied, Restores
    <3> QED
      BY <3>1, <3>2
  <2> QED
    BY <1>5, <2>1, <2>2 DEF OneTie, RowsHold
<1>11. OwnPoints'
  <2>1. \A p \in index' : OwnLinks(p)
    BY <1>5, <1>7, <1>8 DEF RowsHold, OwnPoints
  <2> QED
    BY <1>2, <1>5, <1>9, <2>1, OwnMoved DEF RowsHold
<1>12. \A d \in Callers : Loaded(d)'
  BY <1>2, <1>4, LoadedAfterWrite DEF Writing
<1>13. Unclaimed(c)'
  BY <1>2 DEF Unclaimed, Capturing
<1>14. Captured(c)'
  BY <1>1, <1>2, <1>3, <1>5, CapturedKept DEF RowsHold, Capturing
<1>15. Pointing(c)'
  <2>1. PointOf(c)' = new
    BY <1>2, <1>6 DEF PointOf
  <2>2. \A d \in Callers : pc'[d] \in {"restored_load", "restored_write"} => mem'[d].point # i
    BY <1>2, <1>7 DEF Owns, Restoring
  <2> QED
    BY <1>2, <1>6, <1>8, <2>1, <2>2 DEF Pointing
<1>16. ASSUME NEW a \in Assets PROVE Recoverable(a)'
  BY <1>1, <1>2, <1>5, <1>8, RecoverableKept DEF RowsHold, Busy
<1>17. \A d \in Callers \ {c} : pc[d] = "remove_rows" /\ mem[d].asset \notin clashed' =>
          PointOf(d) \in index'
  BY <1>1, <1>5, <1>8 DEF RowsHold, Pointing
<1>18. \A j \in Points : Owns(c, j)' => Owns(c, j)
  BY <1>2 DEF Owns, Removing
<1>19. \A p \in index' : (\E q \in index : q.id = p.id) \/ Owns(c, p.id)
  BY <1>6, <1>7, <1>8
<1> QED
  BY <1>1, <1>2, <1>3, <1>5, <1>9, <1>10, <1>11, <1>12, <1>13, <1>14, <1>15, <1>16, <1>17,
     <1>18, <1>19, <1>6, RowsMoved

\* The point of a deletion that failed goes, and no other.
LEMMA RowsDrop ==
  ASSUME Types, Rows, NEW c \in Callers, DropPoint(c)
  PROVE  Rows'
<1>1. UNCHANGED <<dropped, assetRows, removed, clashed, links>>
  BY DEF DropPoint, database
<1>2. /\ Moves(c) /\ pc[c] = "unpoint_write" /\ pc'[c] = "journal_failed" /\ mem'[c] = mem[c]
      /\ mem[c].flow = "apply"
      /\ \A d \in Callers : d # c => pc'[d] = pc[d] /\ mem'[d] = mem[d]
  BY DropPointFacts, FlowFacts, Others DEF Types
<1>3. \A a : LinksOf(a)' = LinksOf(a)
  BY <1>1 DEF LinksOf
<1> SUFFICES ASSUME Clean' PROVE RowsHold'
  BY RowsIf DEF Rows, RowsHold
<1>4. WriteIndex(c, Without(mem[c].index, {mem[c].point}))
  BY DEF DropPoint
<1>5. RowsHold /\ index' = Without(index, {mem[c].point})
  BY <1>1, <1>2, <1>4, WriteFacts DEF Writing
<1>6. index' \subseteq index /\ \A p \in index : p.id # mem[c].point => p \in index'
  BY <1>5 DEF Without
<1>7. ~Restores(c)' /\ Applies(c) /\ mem[c].point # None
  BY <1>2, WorkFacts, NoRunAssumption DEF Restores, Applies, Removing, Pointed
<1>8. OneTie'
  BY <1>2, <1>5, <1>6, <1>7, TiesMoved DEF Tied, RowsHold
<1>9. OwnPoints'
  BY <1>2, <1>5, <1>6, <1>7, OwnMoved DEF OwnPoints, RowsHold
<1>10. \A d \in Callers : Loaded(d)'
  BY <1>2, <1>4, LoadedAfterWrite DEF Writing
<1>11. Unclaimed(c)' /\ Captured(c)' /\ Pointing(c)'
  BY <1>2 DEF Unclaimed, Captured, Pointing, Capturing
<1>12. ASSUME NEW a \in Assets PROVE Recoverable(a)'
  <2>1. \A p \in index : Witness(a, p) => p.id # mem[c].point
    BY <1>2 DEF Witness, Busy
  <2> QED
    BY <1>1, <1>2, <1>5, <1>6, <2>1, RecoverableKept DEF RowsHold, Busy
<1>13. \A d \in Callers \ {c} : pc[d] = "remove_rows" /\ mem[d].asset \notin clashed' =>
          PointOf(d) \in index'
  <2>1. ASSUME NEW d \in Callers \ {c}, pc[d] = "remove_rows", mem[d].asset \notin clashed'
        PROVE  PointOf(d) \in index'
    <3>1. Applies(d) /\ PointOf(d) \in index
      BY <1>1, <1>5, <2>1, CaptureFlow DEF RowsHold, Pointing
    <3>2. mem[c].point # mem[d].point
      BY <1>5, <1>7, <2>1, <3>1 DEF RowsHold, Apart
    <3>3. PointOf(d).id = mem[d].point
      BY DEF PointOf
    <3> QED
      BY <1>6, <3>1, <3>2, <3>3
  <2> QED
    BY <2>1
<1>14. \A i \in Points : Owns(c, i)' => Owns(c, i)
  BY <1>2 DEF Owns, Removing
<1> QED
  BY <1>1, <1>2, <1>3, <1>5, <1>6, <1>7, <1>8, <1>9, <1>10, <1>11, <1>12, <1>13, <1>14, RowsMoved

\* A caller that is to change a point works on it under an apply, or restores it.
LEMMA BusyFlow ==
  ASSUME Types, NEW d \in Callers, pc[d] \in Busy
  PROVE  Applies(d) \/ pc[d] \in {"restored_load", "restored_write"}
<1>1. CASE pc[d] \in Removing \ Restoring
  BY <1>1, WorkFacts, FlowFacts DEF Applies
<1> QED
  BY <1>1 DEF Busy, Removing, Restoring

\* Rows go once their restore point is in the index.
LEMMA RowsRemove ==
  ASSUME Types, Rows, NEW c \in Callers, RemoveRows(c)
  PROVE  Rows'
<1>1. /\ UNCHANGED <<index, dropped, overwrote, stale>> /\ clashed \subseteq clashed'
      /\ links' \subseteq links
  BY DEF RemoveRows
<1>2. /\ Moves(c) /\ pc[c] = "remove_rows" /\ pc'[c] \in {"journal_applied", "unpoint_load"}
      /\ mem'[c] = mem[c] /\ mem[c].flow = "apply"
      /\ \A d \in Callers : d # c => pc'[d] = pc[d] /\ mem'[d] = mem[d]
  BY RemoveRowsFacts, FlowFacts, Others DEF Types
<1>3. \A a : LinksOf(a)' \subseteq LinksOf(a)
  BY <1>1 DEF LinksOf
<1> SUFFICES ASSUME Clean' PROVE RowsHold'
  BY RowsIf DEF Rows, RowsHold
<1>4. RowsHold
  BY <1>1, RowsIf DEF Clean
<1>5. PICK i \in Points, b \in Assets : i = mem[c].point /\ b = mem[c].asset /\ Applies(c)
  BY <1>2, CaptureFlow
<1>6. ~Restores(c)' /\ pc'[c] \notin Writing
  BY <1>2 DEF Restores, Writing
<1>7. OneTie'
  BY <1>1, <1>2, <1>4, <1>6, TiesMoved DEF Tied, RowsHold
<1>8. OwnPoints'
  BY <1>1, <1>2, <1>4, <1>6, OwnMoved DEF OwnPoints, RowsHold
<1>9. \A d \in Callers : Loaded(d)'
  BY <1>1, <1>2, <1>4, <1>6 DEF Loaded, RowsHold
<1>10. Unclaimed(c)' /\ Captured(c)' /\ Pointing(c)'
  BY <1>2 DEF Unclaimed, Captured, Pointing, Capturing
<1>11. \/ /\ assetRows' = assetRows \ {b} /\ removed' = [removed EXCEPT ![b] = LinksOf(b)]
          /\ b \in clashed' \/ pc'[c] = "journal_applied"
       \/ UNCHANGED <<assetRows, removed, clashed>>
  BY <1>2, <1>5 DEF RemoveRows, Goes, Types, CallerTypes
<1>12. ASSUME NEW a \in Assets PROVE Recoverable(a)'
  <2>1. CASE a # b \/ UNCHANGED <<assetRows, removed, clashed>>
    <3>1. removed'[a] = removed[a] /\ (a \in assetRows => a \in assetRows')
      BY <1>11, <2>1 DEF Types, RowTypes
    <3> QED
      BY <1>1, <1>2, <1>4, <3>1, RecoverableKept DEF RowsHold, Busy
  <2>2. CASE a = b /\ ~UNCHANGED <<assetRows, removed, clashed>> /\ b \notin clashed'
    <3>1. pc'[c] = "journal_applied" /\ removed'[b] = LinksOf(b)
      BY <1>11, <2>2 DEF Types, RowTypes
    <3>2. PICK p \in index : p = PointOf(c)
      BY <1>1, <1>2, <1>4, <1>5, <2>2 DEF RowsHold, Pointing
    <3>3. p.id = i /\ p.asset = b /\ p.status = "available" /\ p.links = mem[c].links
      BY <1>5, <3>2 DEF PointOf
    <3>4. LinksOf(b) \subseteq p.links
      BY <1>1, <1>2, <1>4, <1>5, <2>2, <3>3 DEF RowsHold, Captured
    <3>5. ASSUME NEW d \in Callers, pc'[d] \in Busy PROVE mem'[d].point # i
      <4>1. d # c /\ pc[d] \in Busy /\ mem'[d] = mem[d]
        BY <1>2, <3>1, <3>5 DEF Busy
      <4>2. CASE Applies(d)
        BY <1>4, <1>5, <4>1, <4>2, NoRunAssumption DEF RowsHold, Apart
      <4>3. CASE pc[d] \in {"restored_load", "restored_write"}
        BY <1>1, <1>2, <1>4, <1>5, <2>2, <4>1, <4>3 DEF RowsHold, Pointing
      <4> QED
        BY <4>1, <4>2, <4>3, BusyFlow
    <3>6. Witness(a, p)'
      BY <2>2, <3>1, <3>3, <3>4, <3>5 DEF Witness
    <3> QED
      BY <1>1, <3>6 DEF Recoverable
  <2> QED
    BY <2>1, <2>2 DEF Recoverable
<1>13. \A d \in Callers \ {c} : pc[d] = "remove_rows" /\ mem[d].asset \notin clashed' =>
          PointOf(d) \in index'
  BY <1>1, <1>4 DEF RowsHold, Pointing
<1>14. \A j \in Points : Owns(c, j)' => Owns(c, j)
  BY <1>2 DEF Owns, Removing
<1> QED
  BY <1>1, <1>2, <1>3, <1>4, <1>5, <1>7, <1>8, <1>9, <1>10, <1>12, <1>13, <1>14, RowsMoved

\* A restore inserts what its point has, which is of the asset of the point.
LEMMA RowsInsert ==
  ASSUME Types, Rows, NEW c \in Callers, InsertRows(c)
  PROVE  Rows'
<1>1. UNCHANGED <<index, dropped, overwrote, stale>>
  BY DEF InsertRows
<1>2. /\ Moves(c) /\ pc[c] = "restore_item" /\ mem[c].flow = "restore" /\ mem'[c].flow = "restore"
      /\ pc'[c] \in {"restored_load", "journal_failed"}
      /\ \A d \in Callers : d # c => pc'[d] = pc[d] /\ mem'[d] = mem[d]
  BY InsertRowsFacts, FlowFacts, Others DEF Types
<1>3. PICK q \in mem[c].todo :
         /\ q \in Point /\ q.status = "available"
         /\ mem'[c].todo = mem[c].todo \ {q}
         /\ mem'[c].asset = q.asset /\ mem'[c].point = q.id
         /\ \/ /\ pc'[c] = "restored_load"
               /\ assetRows' = assetRows \cup {q.asset}
               /\ links' = links \cup q.links
               /\ removed' = [removed EXCEPT ![q.asset] = None]
               /\ clashed' = IF q.asset \in UnderApply THEN clashed \cup {q.asset} ELSE clashed
            \/ pc'[c] = "journal_failed" /\ UNCHANGED <<assetRows, links, removed, clashed>>
  BY InsertRowsFacts
<1> SUFFICES ASSUME Clean' PROVE RowsHold'
  BY RowsIf DEF Rows, RowsHold
<1>4. RowsHold
  BY <1>1, RowsIf DEF Clean
<1>5. Restores(c) /\ Restores(c)' /\ ~Applies(c)'
  BY <1>2 DEF Restores, Restoring, Applies
<1>6. q.id \in Points /\ q.asset \in Assets /\ Tied(q.id, q.asset)
  BY <1>3, <1>5 DEF Tied, Point
<1>7. clashed \subseteq clashed'
  BY <1>3
<1>8. ASSUME NEW a \in UnderApply PROVE a \in clashed' \/ LinksOf(a)' \subseteq LinksOf(a)
  <2>1. \A l \in q.links : l[2] = q.asset
    BY <1>3, <1>4, <1>5 DEF RowsHold, OwnPoints, OwnLinks
  <2>2. links' \subseteq links \cup q.links
    BY <1>3
  <2>3. a # q.asset => LinksOf(a)' \subseteq LinksOf(a)
    BY <2>1, <2>2 DEF LinksOf
  <2>4. a = q.asset /\ pc'[c] = "restored_load" => a \in clashed'
    BY <1>3, <1>8
  <2>5. pc'[c] = "journal_failed" => LinksOf(a)' = LinksOf(a)
    BY <1>3 DEF LinksOf
  <2> QED
    BY <1>2, <2>3, <2>4, <2>5
<1>9. \A i \in Points : Owns(c, i)' => Owns(c, i)
  BY <1>2, <1>3, <1>5 DEF Owns, Restores
<1>10. OneTie'
  <2>1. \A p \in index' : \A i \in Points : \A a \in Assets : p.id = i /\ p.asset = a => Tied(i, a)
    BY <1>1 DEF Tied
  <2>2. \A i \in Points : \A a \in Assets :
           /\ mem'[c].point = i /\ mem'[c].asset = a => Tied(i, a)
           /\ \A p \in mem'[c].todo : p.id = i /\ p.asset = a => Tied(i, a)
    BY <1>3, <1>5, <1>6 DEF Tied
  <2> QED
    BY <1>2, <1>4, <2>1, <2>2, TiesMoved DEF RowsHold
<1>11. OwnPoints'
  BY <1>1, <1>2, <1>3, <1>4, <1>5, OwnMoved DEF OwnPoints, RowsHold
<1>12. \A d \in Callers : Loaded(d)'
  BY <1>1, <1>2, <1>4 DEF Loaded, RowsHold, Writing
<1>13. Unclaimed(c)' /\ Captured(c)' /\ Pointing(c)'
  BY <1>2 DEF Unclaimed, Captured, Pointing, Capturing
<1>14. ASSUME NEW a \in Assets PROVE Recoverable(a)'
  <2>1. CASE a # q.asset \/ pc'[c] = "journal_failed"
    <3>1. removed'[a] = removed[a] /\ (a \in assetRows => a \in assetRows')
      BY <1>3, <2>1 DEF Types, RowTypes
    <3>2. ASSUME NEW p \in index, Witness(a, p), pc'[c] \in Busy PROVE p.id # q.id
      <4>1. a # q.asset
        BY <2>1, <3>2 DEF Busy
      <4>2. p.id = q.id => Tied(q.id, a)
        BY <3>2 DEF Tied, Witness
      <4> QED
        BY <1>4, <1>6, <4>1, <4>2 DEF RowsHold, OneTie
    <3> QED
      BY <1>1, <1>2, <1>3, <1>4, <1>7, <3>1, <3>2, RecoverableKept DEF RowsHold
  <2>2. CASE a = q.asset /\ pc'[c] = "restored_load"
    BY <1>3, <2>2 DEF Recoverable
  <2> QED
    BY <1>2, <2>1, <2>2
<1>15. \A d \in Callers \ {c} : pc[d] = "remove_rows" /\ mem[d].asset \notin clashed' =>
          /\ PointOf(d) \in index'
          /\ pc'[c] \in {"restored_load", "restored_write"} => mem'[c].point # mem[d].point
  <2>1. ASSUME NEW d \in Callers \ {c}, pc[d] = "remove_rows", mem[d].asset \notin clashed'
        PROVE  PointOf(d) \in index /\ (pc'[c] = "restored_load" => q.id # mem[d].point)
    <3>1. PICK p \in index : p = PointOf(d)
      BY <1>4, <1>7, <2>1 DEF RowsHold, Pointing
    <3>2. p.id = mem[d].point /\ p.asset = mem[d].asset
      BY <3>1 DEF PointOf
    <3>3. mem[d].asset \in UnderApply /\ mem[d].asset \in Assets
      BY <2>1, CaptureFlow
    <3>4. q.id = mem[d].point => q.asset = mem[d].asset
      BY <1>4, <1>6, <3>2, <3>3 DEF RowsHold, OneTie, Tied
    <3>5. pc'[c] = "restored_load" /\ q.asset = mem[d].asset => mem[d].asset \in clashed'
      BY <1>3, <3>3
    <3> QED
      BY <2>1, <3>1, <3>4, <3>5
  <2> QED
    BY <1>1, <1>2, <1>3, <2>1
<1> QED
  BY <1>1, <1>2, <1>4, <1>5, <1>7, <1>8, <1>9, <1>10, <1>11, <1>12, <1>13, <1>14, <1>15, RowsMoved

\* The point of a restore is marked, or put into the index again.
LEMMA RowsRestored ==
  ASSUME Types, Rows, NEW c \in Callers, PointRestored(c)
  PROVE  Rows'
<1>1. UNCHANGED <<dropped, assetRows, removed, clashed, links>>
  BY DEF PointRestored, database
<1>2. /\ Moves(c) /\ pc[c] = "restored_write" /\ pc'[c] = "journal_applied" /\ mem'[c] = mem[c]
      /\ mem[c].flow = "restore"
      /\ \A d \in Callers : d # c => pc'[d] = pc[d] /\ mem'[d] = mem[d]
  BY PointRestoredFacts, FlowFacts, Others DEF Types
<1>3. \A a : LinksOf(a)' = LinksOf(a)
  BY <1>1 DEF LinksOf
<1> SUFFICES ASSUME Clean' PROVE RowsHold'
  BY RowsIf DEF Rows, RowsHold
<1>4. PICK new : new = [id |-> mem[c].point, asset |-> mem[c].asset, links |-> mem[c].links,
                        status |-> "restored"]
  OBVIOUS
<1>5. WriteIndex(c, With(mem[c].index, new))
  BY <1>4 DEF PointRestored
<1>6. RowsHold /\ index' = With(index, new)
  BY <1>1, <1>2, <1>5, WriteFacts DEF Writing
<1>7. new.id = mem[c].point /\ new.asset = mem[c].asset /\ new.status = "restored"
  BY <1>4
<1>8. /\ new \in index' /\ index' \subseteq index \cup {new}
      /\ \A p \in index : p.id # mem[c].point => p \in index'
  BY <1>6, <1>7 DEF With
<1>9. Restores(c) /\ Restores(c)' /\ ~Applies(c)' /\ Owns(c, new.id)
  BY <1>2, <1>7 DEF Restores, Restoring, Applies, Owns
<1>10. OneTie'
  <2>1. \A i \in Points : \A a \in Assets :
           /\ mem[c].point = i /\ mem[c].asset = a => Tied(i, a)
           /\ \A p \in mem[c].todo : p.id = i /\ p.asset = a => Tied(i, a)
    BY <1>9 DEF Tied
  <2>2. \A p \in index' : \A i \in Points : \A a \in Assets : p.id = i /\ p.asset = a => Tied(i, a)
    BY <1>7, <1>8, <2>1 DEF Tied
  <2> QED
    BY <1>2, <1>6, <2>1, <2>2, TiesMoved DEF RowsHold
<1>11. OwnPoints'
  <2>1. \A p \in index' : OwnLinks(p)
    BY <1>6, <1>7, <1>8 DEF RowsHold, OwnPoints, OwnLinks
  <2> QED
    BY <1>2, <1>6, <1>9, <2>1, OwnMoved DEF RowsHold
<1>12. \A d \in Callers : Loaded(d)'
  BY <1>2, <1>5, LoadedAfterWrite DEF Writing
<1>13. Unclaimed(c)' /\ Captured(c)' /\ Pointing(c)'
  BY <1>2 DEF Unclaimed, Captured, Pointing, Capturing
<1>14. ASSUME NEW a \in Assets PROVE Recoverable(a)'
  <2>1. \A p \in index : Witness(a, p) => p.id # mem[c].point
    BY <1>2 DEF Witness, Busy
  <2> QED
    BY <1>1, <1>2, <1>6, <1>8, <2>1, RecoverableKept DEF RowsHold, Busy
<1>15. \A d \in Callers \ {c} : pc[d] = "remove_rows" /\ mem[d].asset \notin clashed' =>
          PointOf(d) \in index'
  <2>1. ASSUME NEW d \in Callers \ {c}, pc[d] = "remove_rows", mem[d].asset \notin clashed'
        PROVE  PointOf(d) \in index'
    <3>1. PointOf(d) \in index /\ mem[c].point # mem[d].point
      BY <1>1, <1>2, <1>6, <2>1 DEF RowsHold, Pointing
    <3>2. PointOf(d).id = mem[d].point
      BY DEF PointOf
    <3> QED
      BY <1>8, <3>1, <3>2
  <2> QED
    BY <2>1
<1>16. \A i \in Points : Owns(c, i)' => Owns(c, i)
  BY <1>2 DEF Owns, Restoring
<1>17. \A p \in index' : (\E q \in index : q.id = p.id) \/ Owns(c, p.id)
  BY <1>8, <1>9
<1> QED
  BY <1>1, <1>2, <1>3, <1>6, <1>9, <1>10, <1>11, <1>12, <1>13, <1>14, <1>15, <1>16, <1>17,
     RowsMoved

\* A deletion sets all points aside.
LEMMA RowsDelete ==
  ASSUME Types, NEW c \in Callers, DeleteWrite(c)
  PROVE  Rows'
<1>1. dropped' # {}
  BY DeleteWriteFacts DEF DeleteWrite
<1> QED
  BY <1>1 DEF Rows, Clean

\* The steps of one caller that leave index and rows alone, links aside.
LEMMA RowsCalmMove ==
  ASSUME Types, Rows, NEW c \in Callers, Moves(c), Calms(c),
         UNCHANGED <<index, dropped, overwrote, assetRows, removed, clashed, stale>>,
         links' \subseteq links
  PROVE  Rows'
<1>1. \A d \in Callers : d # c => pc'[d] = pc[d] /\ mem'[d] = mem[d]
  BY Others DEF Types
<1>2. \A d \in Callers : Calms(d)
  BY <1>1 DEF Calms
<1>3. \A a : LinksOf(a)' \subseteq LinksOf(a)
  BY DEF LinksOf
<1> QED
  BY <1>2, <1>3, RowsCalm

LEMMA RowsMissStep ==
  ASSUME Types, Rows, NEW c \in Callers, MissStep(c)
  PROVE  Rows'
<1>1. ASSUME UNCHANGED missVars
      PROVE  /\ UNCHANGED <<index, dropped, overwrote, assetRows, removed, clashed, stale>>
             /\ links' \subseteq links
  BY <1>1 DEF missVars, database
<1>2. CASE AlreadyRemoved(c)
  <2>1. Moves(c) /\ Calms(c)
    BY <1>2, AlreadyRemovedFacts DEF Calms, Pointed
  <2> QED
    BY <1>1, <1>2, <2>1, RowsCalmMove DEF AlreadyRemoved
<1>3. CASE JournalRemoval(c)
  <2>1. Moves(c) /\ Calms(c)
    BY <1>3, JournalRemovalFacts, FlowFacts DEF Calms, Pointed, Restores, Restoring
  <2> QED
    BY <1>1, <1>3, <2>1, RowsCalmMove DEF JournalRemoval
<1>4. CASE FinishRun(c)
  <2>1. Moves(c) /\ Calms(c)
    BY <1>4, FinishRunFacts DEF Calms, Pointed, Removing, Restoring
  <2> QED
    BY <1>1, <1>4, <2>1, RowsCalmMove DEF FinishRun
<1>5. CASE SkipRestored(c)
  <2>1. Moves(c) /\ Calms(c)
    BY <1>5, SkipRestoredFacts, FlowFacts DEF Calms, Pointed, Restores, Restoring
  <2> QED
    BY <1>1, <1>5, <2>1, RowsCalmMove DEF SkipRestored
<1>6. CASE DeleteOrphan(c)
  <2>1. Moves(c) /\ Calms(c) /\ links' \subseteq links
    BY <1>6, DeleteOrphanFacts DEF Calms, Pointed, Removing, Restoring
  <2> QED
    BY <1>6, <2>1, RowsCalmMove DEF DeleteOrphan
<1> QED
  BY <1>2, <1>3, <1>4, <1>5, <1>6, RowsCapture, RowsLoad, RowsCreate, RowsRemove, RowsDrop,
     RowsInsert, RowsRestored, RowsDelete DEF MissStep

LEMMA RowsMissCall ==
  ASSUME Types, Journaled, Rows, NEW c \in Callers, MissCall(c)
  PROVE  Rows'
<1>1. ASSUME UNCHANGED missVars
      PROVE  /\ UNCHANGED <<index, dropped, overwrote, assetRows, removed, clashed, stale>>
             /\ links' \subseteq links
  BY <1>1 DEF missVars, database
<1>2. ASSUME NEW r \in Runs, NEW asked, Preview(c, r, asked) PROVE Rows'
  <2>1. Moves(c) /\ Calms(c)
    BY <1>1, <1>2, NoMove DEF Preview, Calms, Types
  <2> QED
    BY <1>1, <1>2, <2>1, RowsCalmMove DEF Preview
<1>3. ASSUME NEW r \in Runs, StartApply(c, r) PROVE Rows'
  <2>1. runs[r] \in RemoveRun
    BY <1>3, StartApplyRuns
  <2>2. Moves(c) /\ Calms(c)
    BY <1>3, <2>1, StartApplyFacts DEF Calms, Pointed, Removing, Restoring
  <2> QED
    BY <1>3, <2>2, RowsCalmMove DEF StartApply, database
<1>4. ASSUME NEW r \in Runs, NEW ids, StartRestore(c, r, ids) PROVE Rows'
  <2>1. Moves(c) /\ Calms(c)
    BY <1>4, StartRestoreFacts DEF Calms, Pointed
  <2> QED
    BY <1>1, <1>4, <2>1, RowsCalmMove DEF StartRestore
<1>5. ASSUME NEW ids \in (SUBSET Points) \ {{}}, DeletePoints(c, ids) PROVE Rows'
  <2>1. Moves(c) /\ Calms(c)
    BY <1>5, DeletePointsFacts DEF Calms, Pointed, Removing, Restoring
  <2> QED
    BY <1>1, <1>5, <2>1, RowsCalmMove DEF DeletePoints
<1>6. CASE CollectOrphans(c)
  <2>1. Moves(c) /\ Calms(c)
    BY <1>6, CollectOrphansFacts DEF Calms, Pointed, Removing, Restoring
  <2> QED
    BY <1>1, <1>6, <2>1, RowsCalmMove DEF CollectOrphans
<1> QED
  BY <1>2, <1>3, <1>4, <1>5, <1>6 DEF MissCall

LEMMA RowsStep ==
  ASSUME Types, Journaled, Rows, [Next]_vars
  PROVE  Rows'
<1>1. ASSUME UNCHANGED missVars
      PROVE  /\ UNCHANGED <<index, dropped, overwrote, assetRows, removed, clashed, stale>>
             /\ links' \subseteq links
  BY <1>1 DEF missVars, database
<1>2. ASSUME UNCHANGED <<pc, mem, stale>> PROVE \A d \in Callers : Calms(d)
  BY <1>2 DEF Calms
<1>3. ASSUME links' \subseteq links PROVE \A a : LinksOf(a)' \subseteq LinksOf(a)
  BY <1>3 DEF LinksOf
<1>4. CASE PermNext /\ UNCHANGED missVars
  <2>1. ASSUME NEW c \in Callers, PermStep(c) \/ PermCall(c) PROVE Rows'
    <3>1. Moves(c) /\ Calms(c)
      BY <2>1, PermAway DEF Calms, Pointed, FixSteps, UndoSteps, Removing, Restoring
    <3> QED
      BY <1>1, <1>4, <3>1, RowsCalmMove
  <2>2. ASSUME NEW f, NEW m, ModeDrift(f, m) PROVE UNCHANGED <<pc, mem>>
    BY <2>2 DEF ModeDrift
  <2>3. ASSUME NEW s, Extracted(s) PROVE UNCHANGED <<pc, mem>>
    BY <2>3 DEF Extracted
  <2>4. CASE UNCHANGED <<pc, mem>>
    BY <1>1, <1>2, <1>3, <1>4, <2>4, RowsCalm
  <2> QED
    BY <1>4, <2>1, <2>2, <2>3, <2>4 DEF PermNext
<1>5. CASE MissNext
  <2>1. ASSUME NEW a \in Assets, FileChanges(a) PROVE Rows'
    <3>1. /\ UNCHANGED <<pc, mem, stale, index, dropped, overwrote, assetRows, removed, links>>
          /\ clashed \subseteq clashed'
      BY <2>1 DEF FileChanges, database
    <3> QED
      BY <1>2, <1>3, <3>1, RowsCalm
  <2>2. ASSUME NEW l \in Link, LinkAdded(l) PROVE Rows'
    <3>1. /\ UNCHANGED <<pc, mem, stale, index, dropped, overwrote, assetRows, removed>>
          /\ clashed \subseteq clashed' /\ links' = links \cup {l}
          /\ l[2] \in UnderApply => l[2] \in clashed'
      BY <2>2 DEF LinkAdded
    <3>2. \A a \in UnderApply : a \in clashed' \/ LinksOf(a)' \subseteq LinksOf(a)
      BY <3>1 DEF LinksOf
    <3> QED
      BY <1>2, <3>1, <3>2, RowsCalm
  <2>3. ASSUME NEW b, AlbumGone(b) PROVE Rows'
    <3>1. UNCHANGED <<pc, mem, stale, index, dropped, overwrote, assetRows, removed, clashed, links>>
      BY <2>3 DEF AlbumGone
    <3> QED
      BY <1>2, <1>3, <3>1, RowsCalm
  <2> QED
    BY <1>5, <2>1, <2>2, <2>3, RowsMissStep, RowsMissCall DEF MissNext
<1>6. CASE Crash
  <2>1. \A d \in Callers : Calms(d)
    <3>1. \A d \in Callers : pc'[d] = "idle"
      BY <1>6 DEF Crash, JournalCrash
    <3> QED
      BY <3>1 DEF Calms, Pointed, Removing, Restoring
  <2>2. UNCHANGED <<index, dropped, overwrote, assetRows, removed, clashed, links>>
    BY <1>6 DEF Crash, MissCrash, database
  <2> QED
    BY <1>3, <2>1, <2>2, RowsCalm
<1>7. CASE UNCHANGED vars
  <2>1. UNCHANGED missVars /\ UNCHANGED <<pc, mem>>
    BY <1>7 DEF vars, journalVars
  <2> QED
    BY <1>1, <1>2, <1>3, <2>1, RowsCalm
<1> QED
  BY <1>4, <1>5, <1>6, <1>7 DEF Next

LEMMA RowsInit == Init => Rows
<1> SUFFICES ASSUME Init PROVE RowsHold
  BY RowsIf
<1>1. /\ \A c \in Callers : pc[c] = "idle"
      /\ \A p, q \in index : p = q
      /\ \A p \in index : p.status = "restored"
      /\ \A a \in Assets : removed[a] = None
  BY DEF Init, JournalInit, MissInit
<1>2. \A c \in Callers : ~Restores(c) /\ ~Applies(c)
  BY <1>1 DEF Restores, Applies, Removing, Restoring
<1>3. OneTie
  BY <1>1, <1>2 DEF OneTie, Tied
<1>4. OwnPoints
  BY <1>1, <1>2 DEF OwnPoints, OwnLinks
<1>5. \A c \in Callers : Loaded(c) /\ Unclaimed(c) /\ Captured(c) /\ Pointing(c)
  BY <1>1 DEF Loaded, Unclaimed, Captured, Pointing, Capturing, Writing
<1>6. \A c \in Callers : Apart(c)
  BY <1>2 DEF Apart
<1>7. \A a \in Assets : Recoverable(a)
  BY <1>1 DEF Recoverable
<1> QED
  BY <1>3, <1>4, <1>5, <1>6, <1>7 DEF RowsHold

\* Whatever an apply removed can be brought back, through failures and crashes
\* between capture, point, deletion and journal and beside other callers: the
\* point is in the index before the rows go, and what may replace or drop it
\* works on other points.  Deleted points, index files written over a newer one
\* and assets that changed under the apply are set aside.
THEOREM RemovedIsRecoverable == Spec => []RemovedRecoverable
<1>1. Init => Types /\ Journaled /\ Rows
  BY RunsInit, RowsInit
<1>2. Rows => RemovedRecoverable
  BY DEF Rows, Clean, Recoverable, Witness, RemovedRecoverable
<1>3. Types /\ Journaled /\ Rows /\ [Next]_vars => Rows'
  BY RowsStep
<1> QED
  BY <1>1, <1>2, <1>3, SpecRuns, PTL DEF Spec

-----------------------------------------------------------------------------
(* Type correctness: the index keeps one point per id.                      *)

OneEachId(points) == \A p, q \in points : p.id = q.id => p = q
Keyed == /\ OneEachId(index)
         /\ \A c \in Callers : pc[c] \in Writing => OneEachId(mem[c].index)

LEMMA KeyedWrites ==
  ASSUME NEW points, OneEachId(points), NEW p, NEW ids
  PROVE  OneEachId(With(points, p)) /\ OneEachId(Without(points, ids))
  BY DEF OneEachId, With, Without

\* A caller that is to write the index has loaded it, now or before.
LEMMA KeyedKept ==
  ASSUME Types, Keyed, NEW c \in Callers, Moves(c), OneEachId(index)',
         pc'[c] \in Writing => OneEachId(mem'[c].index)
  PROVE  Keyed'
<1>1. \A d \in Callers : d # c => pc'[d] = pc[d] /\ mem'[d] = mem[d]
  BY Others DEF Types
<1> QED
  BY <1>1 DEF Keyed

LEMMA KeyedMissStep ==
  ASSUME Types, Keyed, NEW c \in Callers, MissStep(c)
  PROVE  Keyed'
<1>1. CASE AlreadyRemoved(c) \/ JournalRemoval(c) \/ FinishRun(c) \/ SkipRestored(c)
           \/ DeleteOrphan(c) \/ Capture(c) \/ RemoveRows(c) \/ InsertRows(c)
  <2>1. Moves(c) /\ pc'[c] \notin Writing
    BY <1>1, AlreadyRemovedFacts, JournalRemovalFacts, FinishRunFacts, SkipRestoredFacts,
       DeleteOrphanFacts, CaptureFacts, RemoveRowsFacts, InsertRowsFacts DEF Writing
  <2>2. UNCHANGED index
    BY <1>1 DEF AlreadyRemoved, JournalRemoval, FinishRun, SkipRestored, DeleteOrphan, Capture,
                RemoveRows, InsertRows, missVars
  <2> QED
    BY <2>1, <2>2, KeyedKept DEF Keyed, OneEachId
<1>2. CASE LoadIndex(c)
  <2>1. UNCHANGED index
    BY <1>2 DEF LoadIndex
  <2> QED
    BY <1>2, <2>1, LoadIndexFacts, KeyedKept DEF Keyed, OneEachId
<1>3. ASSUME pc[c] \in Writing, Moves(c), pc'[c] \notin Writing,
             NEW p, NEW ids, index' \in {With(mem[c].index, p), Without(mem[c].index, ids)}
      PROVE  Keyed'
  <2>1. PICK points : points = index' /\ OneEachId(points)
    BY <1>3, KeyedWrites DEF Keyed
  <2>2. OneEachId(index)'
    BY <2>1 DEF OneEachId
  <2> QED
    BY <1>3, <2>2, KeyedKept
<1>4. CASE CreatePoint(c)
  BY <1>3, <1>4, CreatePointFacts DEF CreatePoint, WriteIndex, Writing
<1>5. CASE DropPoint(c)
  BY <1>3, <1>5, DropPointFacts DEF DropPoint, WriteIndex, Writing
<1>6. CASE PointRestored(c)
  BY <1>3, <1>6, PointRestoredFacts DEF PointRestored, WriteIndex, Writing
<1>7. CASE DeleteWrite(c)
  BY <1>3, <1>7, DeleteWriteFacts DEF DeleteWrite, WriteIndex, Writing
<1> QED
  BY <1>1, <1>2, <1>4, <1>5, <1>6, <1>7 DEF MissStep

LEMMA KeyedStep ==
  ASSUME Types, Journaled, Keyed, [Next]_vars
  PROVE  Keyed'
<1>1. ASSUME UNCHANGED <<pc, mem, index>> PROVE Keyed'
  BY <1>1 DEF Keyed, OneEachId
<1>2. CASE PermNext /\ UNCHANGED missVars
  <2>1. UNCHANGED index
    BY <1>2 DEF missVars
  <2>2. ASSUME NEW c \in Callers, PermStep(c) \/ PermCall(c) PROVE Keyed'
    <3>1. Moves(c) /\ pc'[c] \notin Writing
      BY <2>2, PermAway DEF FixSteps, UndoSteps, Writing
    <3> QED
      BY <2>1, <3>1, KeyedKept DEF Keyed, OneEachId
  <2>3. ASSUME NEW f, NEW m, ModeDrift(f, m) PROVE UNCHANGED <<pc, mem>>
    BY <2>3 DEF ModeDrift
  <2>4. ASSUME NEW s, Extracted(s) PROVE UNCHANGED <<pc, mem>>
    BY <2>4 DEF Extracted
  <2> QED
    BY <1>1, <1>2, <2>1, <2>2, <2>3, <2>4 DEF PermNext
<1>3. CASE MissNext
  <2>1. ASSUME NEW c \in Callers, MissCall(c) PROVE Keyed'
    <3>1. ASSUME NEW r \in Runs, NEW asked, Preview(c, r, asked) PROVE UNCHANGED <<pc, mem, index>>
      BY <3>1 DEF Preview, missVars
    <3>2. ASSUME NEW r \in Runs, StartApply(c, r)
          PROVE  UNCHANGED index /\ Moves(c) /\ pc'[c] \notin Writing
      BY <3>2, StartApplyRuns, StartApplyFacts DEF StartApply, Writing
    <3>3. ASSUME NEW r \in Runs, NEW ids, StartRestore(c, r, ids)
          PROVE  UNCHANGED index /\ Moves(c) /\ pc'[c] \notin Writing
      BY <3>3, StartRestoreFacts DEF StartRestore, Writing, missVars
    <3>4. ASSUME NEW ids \in (SUBSET Points) \ {{}}, DeletePoints(c, ids)
          PROVE  UNCHANGED index /\ Moves(c) /\ pc'[c] \notin Writing
      BY <3>4, DeletePointsFacts DEF DeletePoints, Writing, missVars
    <3>5. CollectOrphans(c) => UNCHANGED index /\ Moves(c) /\ pc'[c] \notin Writing
      BY CollectOrphansFacts DEF CollectOrphans, Writing, missVars
    <3>6. ASSUME UNCHANGED index, Moves(c), pc'[c] \notin Writing PROVE Keyed'
      BY <3>6, KeyedKept DEF Keyed, OneEachId
    <3> QED
      BY <1>1, <2>1, <3>1, <3>2, <3>3, <3>4, <3>5, <3>6 DEF MissCall
  <2>2. ASSUME NEW a, FileChanges(a) PROVE UNCHANGED <<pc, mem, index>>
    BY <2>2 DEF FileChanges
  <2>3. ASSUME NEW l, LinkAdded(l) PROVE UNCHANGED <<pc, mem, index>>
    BY <2>3 DEF LinkAdded
  <2>4. ASSUME NEW b, AlbumGone(b) PROVE UNCHANGED <<pc, mem, index>>
    BY <2>4 DEF AlbumGone
  <2> QED
    BY <1>1, <1>3, <2>1, <2>2, <2>3, <2>4, KeyedMissStep DEF MissNext
<1>4. CASE Crash
  <2>1. UNCHANGED index /\ \A c \in Callers : pc'[c] = "idle"
    BY <1>4 DEF Crash, JournalCrash, MissCrash
  <2> QED
    BY <2>1 DEF Keyed, OneEachId, Writing
<1>5. CASE UNCHANGED vars
  BY <1>1, <1>5 DEF vars, journalVars, missVars
<1> QED
  BY <1>2, <1>3, <1>4, <1>5 DEF Next

Bounded == calls \in 0 .. MaxCalls /\ crashes \in 0 .. MaxCrashes /\ drift \in 0 .. MaxDrift

LEMMA BoundedStep == Bounded /\ [Next]_vars => Bounded'
<1> SUFFICES ASSUME Bounded, [Next]_vars PROVE Bounded'
  OBVIOUS
<1> USE JournalBounds DEF Bounded
<1>1. ASSUME NEW c \in Callers, PermStep(c) PROVE UNCHANGED <<calls, crashes, drift>>
  BY <1>1 DEF PermStep, GuardFix, SnapshotFix, SkipItem, StatItem, ChmodItem, JournalItem,
              FinishFix, ChmodUndo, JournalUndo, FinishUndo
<1>2. ASSUME NEW c \in Callers, MissStep(c) PROVE UNCHANGED <<calls, crashes, drift>>
  BY <1>2 DEF MissStep, AlreadyRemoved, Capture, LoadIndex, CreatePoint, RemoveRows, DropPoint,
              JournalRemoval, FinishRun, SkipRestored, InsertRows, PointRestored, DeleteWrite,
              DeleteOrphan
<1>3. ASSUME NEW c \in Callers, PermCall(c) \/ MissCall(c)
      PROVE  calls < MaxCalls /\ calls' = calls + 1 /\ UNCHANGED <<crashes, drift>>
  BY <1>3 DEF PermCall, PlanOnly, PlanFix, StartUndo, MissCall, Preview, StartApply, StartRestore,
              DeletePoints, CollectOrphans, Call
<1>4. ASSUME NEW f, NEW m, ModeDrift(f, m) PROVE Bounded'
  BY <1>4 DEF ModeDrift
<1>5. ASSUME NEW s, Extracted(s) PROVE Bounded'
  BY <1>5 DEF Extracted
<1>6. ASSUME NEW a, FileChanges(a) PROVE Bounded'
  BY <1>6 DEF FileChanges, Outside
<1>7. ASSUME NEW l, LinkAdded(l) PROVE Bounded'
  BY <1>7 DEF LinkAdded, Outside
<1>8. ASSUME NEW b, AlbumGone(b) PROVE Bounded'
  BY <1>8 DEF AlbumGone, Outside
<1>9. Crash => Bounded'
  BY DEF Crash, JournalCrash
<1>10. CASE UNCHANGED vars
  BY <1>10 DEF vars, journalVars
<1> QED
  BY <1>1, <1>2, <1>3, <1>4, <1>5, <1>6, <1>7, <1>8, <1>9, <1>10
  DEF Next, PermNext, MissNext

\* Runs, journals, modes, rows and index have the shape the code gives them;
\* the index file holds no restore point twice, also after writes that lost
\* another's update.
THEOREM TypeCorrect == Spec => []TypeOK
<1>1. Init => Keyed /\ Bounded
  BY JournalBounds
  DEF Init, JournalInit, MissInit, Keyed, OneEachId, Bounded, Writing
<1>2. ASSUME Types, Keyed, Bounded PROVE TypeOK
  <2>1. \A r \in Runs : runs[r] # None => runs[r].status \in RunStatus /\ runs[r].snapshot \in BOOLEAN
    BY <1>2 DEF Types, StoreTypes, RunFiles, FixRun, UndoRun, RemoveRun, RestoreRun, RunOf
  <2>2. \A r \in Runs : \A e \in Entries(r) : e.status \in EntryStatus /\ e.undo \in BOOLEAN
    BY <1>2, EntryFacts DEF Types, PlainEntry, UndoEntry, EntryStatus
  <2>3. JournalTypeOK
    BY <1>2, <2>1, <2>2 DEF JournalTypeOK, Bounded
  <2>4. PermTypeOK /\ MissTypeOK
    BY <1>2 DEF Types, ModeTypes, RowTypes, Keyed, OneEachId, PermTypeOK, MissTypeOK
  <2> QED
    BY <2>3, <2>4 DEF TypeOK
<1>3. Types /\ Journaled /\ Keyed /\ [Next]_vars => Keyed'
  BY KeyedStep
<1> QED
  BY <1>1, <1>2, <1>3, BoundedStep, SpecRuns, PTL DEF Spec
=============================================================================
