----------------------------- MODULE AssetBackup -----------------------------
(***************************************************************************)
(* The library and its mirror on one path-like backup target:              *)
(* BackupAssetWorkflowService (services/backup_asset_workflow_service.py)  *)
(* with the sync job of ManualBackupExecutionService that calls it         *)
(* (services/manual_backup_execution_service.py).                          *)
(*                                                                         *)
(* The sync job copies to the mirror what the mirror lacks.  A restore     *)
(* call moves the present file of each selected asset to quarantine and    *)
(* puts the mirror's copy in its place, by way of a temporary file in the  *)
(* library, which a later comparison takes for an asset.  Restores run on  *)
(* API threads, the sync job on its own; nothing locks the files.          *)
(*                                                                         *)
(* A file is a version of its content, whole or cut short.  Two versions   *)
(* differ in size or hash, so size, time and hash come down to equality.   *)
(* A copy is opened, which empties its target, and closed, which completes *)
(* it; an open file follows a rename.  The quarantine is on a filesystem   *)
(* of its own, so a move is a copy and an unlink; a plain rename is that   *)
(* without interruption.  Its directory is named by the second.            *)
(***************************************************************************)
EXTENDS Naturals, Sequences

CONSTANTS
    Assets,         \* relative paths of the assets
    Callers,        \* threads serving restore calls
    Sync,           \* the sync job
    None,
    MaxTime,        \* bound: seconds that pass
    MaxWrites,      \* bound: files Immich writes or deletes
    MaxRestores,    \* bound: restore calls
    MaxItems,       \* bound: asset ids of one call
    MaxSyncs,       \* bound: sync jobs
    MaxFaults,      \* bound: operations that raise OSError
    MaxCrashes      \* bound: crashes of the process

ASSUME ActorsAssumption == Sync \notin Callers
ASSUME BoundsAssumption ==
    /\ MaxTime \in Nat /\ MaxWrites \in Nat /\ MaxRestores \in Nat /\ MaxItems \in Nat
    /\ MaxSyncs \in Nat /\ MaxFaults \in Nat /\ MaxCrashes \in Nat

VARIABLES
    file,          \* path -> its content, None without a file
    pc,            \* actor -> where it stands
    asset,         \* actor -> the name it works on
    open,          \* actor -> path of the copy it is writing
    copied,        \* actor -> content it is copying
    todo,          \* caller -> asset ids left of its call
    eligible,      \* caller -> names its comparison found restorable
    stamp,         \* caller -> second that names the quarantine directory
    quarantined,   \* callers whose quarantine_path is set
    plan,          \* names the sync job is still to copy
    trouble,       \* the sync job met a failure, or assets to review
    report,        \* state of the last sync job, None while one runs
    now,           \* the clock, in seconds
    reviewed,      \* history: the library as the sync job compared it
    owed,          \* history: asset -> versions Immich did not itself discard
    exposed,       \* history: assets written or restored while being restored
    spent          \* bounded actions used so far

actorVars == <<pc, asset, open, copied>>
callVars == <<todo, eligible, stamp, quarantined>>
syncVars == <<plan, trouble, report, reviewed>>
history == <<owed, exposed>>
vars == <<file, actorVars, callVars, syncVars, now, history, spent>>

-----------------------------------------------------------------------------
Actors == Callers \cup {Sync}
Tmp(a) == <<"immich-doctor-restore.tmp", a>>
Names == Assets \cup {Tmp(a) : a \in Assets}
Library(n) == <<"library", n>>
Backup(n) == <<"backup", n>>
Quarantine(a, s) == <<"quarantine", a, s>>
Paths ==
    {Library(n) : n \in Names} \cup {Backup(n) : n \in Names}
        \cup {Quarantine(a, s) : a \in Assets, s \in 0 .. MaxTime}
Versions == 0 .. MaxWrites + 1
Content == [version : Versions, whole : BOOLEAN]
Whole(v) == [version |-> v, whole |-> TRUE]

\* No asset has the name of a temporary file.
ASSUME NamesAssumption ==
    /\ \A a, b \in Assets : Tmp(a) # b
    /\ None \notin Names \cup Paths \cup Content \cup {"partial", "completed"}

Bounded == {"writes", "restores", "syncs", "faults", "crashes"}
Budgets == [writes |-> MaxWrites, restores |-> MaxRestores, syncs |-> MaxSyncs,
            faults |-> MaxFaults, crashes |-> MaxCrashes]
Spend(b) ==
    /\ spent[b] < Budgets[b]
    /\ spent' = [spent EXCEPT ![b] = @ + 1]

Exists(p) == file[p] # None

\* _compare_one: MISMATCH, RESTORE_CANDIDATE and MISSING_IN_BACKUP.
Mismatch(n) ==
    Exists(Library(n)) /\ Exists(Backup(n)) /\ file[Library(n)] # file[Backup(n)]
RestoreCandidate(n) == ~Exists(Library(n)) /\ Exists(Backup(n))
MissingInBackup(n) == Exists(Library(n)) /\ ~Exists(Backup(n))

MutantSyncEligible(n) == Exists(Library(n)) /\ file[Library(n)] # file[Backup(n)]
SyncEligible(n) == MissingInBackup(n)
RestoreEligible(n) == RestoreCandidate(n) \/ Mismatch(n)

MutantNeedsReview(n) == RestoreCandidate(n)
\* What keeps a sync without failures from being complete.
NeedsReview(n) == RestoreCandidate(n) \/ Mismatch(n)

\* Every asset starts with a library file, a mirror copy of it or of another
\* version, or neither.
Init ==
    /\ \E lib \in [Assets -> {None, Whole(0)}],
          bak \in [Assets -> {None, Whole(0), Whole(1)}] :
          /\ file = [p \in Paths |->
                       IF p[2] \notin Assets THEN None
                       ELSE CASE p[1] = "library" -> lib[p[2]]
                              [] p[1] = "backup"  -> bak[p[2]]
                              [] OTHER            -> None]
          /\ owed = [a \in Assets |-> IF lib[a] = None THEN {} ELSE {0}]
    /\ pc = [c \in Actors |-> "idle"]
    /\ asset = [c \in Actors |-> None]
    /\ open = [c \in Actors |-> None]
    /\ copied = [c \in Actors |-> None]
    /\ todo = [c \in Callers |-> << >>]
    /\ eligible = [c \in Callers |-> {}]
    /\ stamp = [c \in Callers |-> 0]
    /\ quarantined = {}
    /\ plan = {}
    /\ trouble = FALSE
    /\ report = None
    /\ now = 0
    /\ reviewed = [n \in Names |-> None]
    /\ exposed = {}
    /\ spent = [b \in Bounded |-> 0]

-----------------------------------------------------------------------------
(* File operations.                                                         *)

Goes(c, step) == pc' = [pc EXCEPT ![c] = step]

\* copy2 opens its source and empties its target.
OpenCopy(c, from, to) ==
    /\ Exists(from)
    /\ file' = [file EXCEPT ![to] = [file[from] EXCEPT !.whole = FALSE]]
    /\ open' = [open EXCEPT ![c] = to]
    /\ copied' = [copied EXCEPT ![c] = file[from]]

\* The copy is written out.  Where another one writes the same file, it may have
\* emptied what this one wrote; where the file is gone, it goes nowhere.
CloseCopy(c) ==
    LET shared == \E d \in Actors \ {c} : open[d] = open[c] IN
    /\ IF open[c] = None
       THEN UNCHANGED file
       ELSE \E kept \in IF shared THEN {copied[c], [copied[c] EXCEPT !.whole = FALSE]}
                        ELSE {copied[c]} :
               file' = [file EXCEPT ![open[c]] = kept]
    /\ open' = [open EXCEPT ![c] = None]
    /\ copied' = [copied EXCEPT ![c] = None]

\* Whoever has the file open goes on writing, without a path.
Unlink(p) ==
    /\ Exists(p)
    /\ file' = [file EXCEPT ![p] = None]
    /\ open' = [c \in Actors |-> IF open[c] = p THEN None ELSE open[c]]

\* os.replace: whoever has the moved file open writes under its new name.
Replace(from, to) ==
    /\ Exists(from)
    /\ file' = [file EXCEPT ![to] = file[from], ![from] = None]
    /\ open' = [c \in Actors |-> CASE open[c] = from -> to
                                   [] open[c] = to   -> None
                                   [] OTHER          -> open[c]]

-----------------------------------------------------------------------------
(* The sync job: sync_missing.                                              *)

SyncReview ==
    /\ pc[Sync] = "idle"
    /\ Spend("syncs")
    /\ plan' = {n \in Names : SyncEligible(n)}
    /\ trouble' = \E n \in Names : NeedsReview(n)
    /\ report' = None
    /\ reviewed' = [n \in Names |-> file[Library(n)]]
    /\ Goes(Sync, "next")
    /\ UNCHANGED <<file, asset, open, copied, callVars, now, history>>

SyncOpen ==
    /\ pc[Sync] = "next"
    /\ \E n \in plan :
          /\ OpenCopy(Sync, Library(n), Backup(n))
          /\ plan' = plan \ {n}
          /\ asset' = [asset EXCEPT ![Sync] = n]
    /\ Goes(Sync, "close")
    /\ UNCHANGED <<callVars, trouble, report, reviewed, now, history, spent>>

SyncClose ==
    /\ pc[Sync] = "close"
    /\ CloseCopy(Sync)
    /\ Goes(Sync, "verify")
    /\ UNCHANGED <<asset, callVars, syncVars, now, history, spent>>

\* The hashes of both files; a file that is gone raises OSError.
Verified(n) == Exists(Library(n)) /\ file[Library(n)] = file[Backup(n)]

\* _copy_with_verification ends: the copy stays where it is in any case.
SyncVerify ==
    /\ pc[Sync] = "verify"
    /\ trouble' = (trouble \/ ~Verified(asset[Sync]))
    /\ asset' = [asset EXCEPT ![Sync] = None]
    /\ Goes(Sync, "next")
    /\ UNCHANGED <<file, open, copied, callVars, plan, report, reviewed, now, history,
                   spent>>

\* copy2 raises OSError: its source is gone, or writing fails on the way.
SyncFails ==
    /\ \/ /\ pc[Sync] = "next"
          /\ \E n \in plan : ~Exists(Library(n)) /\ plan' = plan \ {n}
          /\ UNCHANGED spent
       \/ /\ pc[Sync] = "close"
          /\ Spend("faults")
          /\ UNCHANGED plan
    /\ trouble' = TRUE
    /\ asset' = [asset EXCEPT ![Sync] = None]
    /\ open' = [open EXCEPT ![Sync] = None]
    /\ copied' = [copied EXCEPT ![Sync] = None]
    /\ Goes(Sync, "next")
    /\ UNCHANGED <<file, callVars, report, reviewed, now, history>>

\* "partial" stands for partial and failed.
SyncEnds ==
    /\ pc[Sync] = "next" /\ plan = {}
    /\ report' = IF trouble THEN "partial" ELSE "completed"
    /\ Goes(Sync, "idle")
    /\ UNCHANGED <<file, asset, open, copied, callVars, plan, trouble, reviewed, now,
                   history, spent>>

-----------------------------------------------------------------------------
(* A restore call: restore_items with apply, and _restore_one.              *)

Restoring(a) == \E c \in Callers : asset[c] = a

RestoreReview(c) ==
    /\ pc[c] = "idle"
    /\ Spend("restores")
    /\ \E ids \in UNION {[1 .. n -> Assets] : n \in 1 .. MaxItems} :
          todo' = [todo EXCEPT ![c] = ids]
    /\ eligible' = [eligible EXCEPT ![c] = {n \in Names : RestoreEligible(n)}]
    /\ Goes(c, "next")
    /\ UNCHANGED <<file, asset, open, copied, stamp, quarantined, syncVars, now, history>>

NextItem(c) == todo' = [todo EXCEPT ![c] = Tail(@)]

\* Not eligible, or the backup is gone: the item is skipped.
RestoreSkip(c) ==
    /\ pc[c] = "next" /\ todo[c] # << >>
    /\ Head(todo[c]) \notin eligible[c] \/ ~Exists(Backup(Head(todo[c])))
    /\ NextItem(c)
    /\ UNCHANGED <<file, actorVars, eligible, stamp, quarantined, syncVars, now, history,
                   spent>>

MutantFirstStep(a) == "copy"
\* A present source is moved to quarantine first.
FirstStep(a) == IF Exists(Library(a)) THEN "move" ELSE "copy"

\* The quarantine directory of a restore begun now is one another restore of the
\* asset has used or is about to use, or that restore is not over.
Shares(a) == Restoring(a) \/ Exists(Quarantine(a, now))

RestoreBegin(c) ==
    LET a == Head(todo[c]) IN
    /\ pc[c] = "next" /\ todo[c] # << >>
    /\ a \in eligible[c] /\ Exists(Backup(a))
    /\ NextItem(c)
    /\ asset' = [asset EXCEPT ![c] = a]
    /\ stamp' = [stamp EXCEPT ![c] = now]
    /\ quarantined' = IF Exists(Library(a)) THEN quarantined \cup {c}
                      ELSE quarantined \ {c}
    /\ exposed' = IF Shares(a) THEN exposed \cup {a} ELSE exposed
    /\ Goes(c, FirstStep(a))
    /\ UNCHANGED <<file, open, copied, eligible, syncVars, now, owed, spent>>

\* shutil.move: copy, then unlink.
MoveOpen(c) ==
    /\ pc[c] = "move"
    /\ OpenCopy(c, Library(asset[c]), Quarantine(asset[c], stamp[c]))
    /\ Goes(c, "moving")
    /\ UNCHANGED <<asset, callVars, syncVars, now, history, spent>>

\* The source goes only after the copy is complete.
MoveUnlink(c) ==
    /\ pc[c] = "unlink"
    /\ Unlink(Library(asset[c]))
    /\ Goes(c, "copy")
    /\ UNCHANGED <<asset, copied, callVars, syncVars, now, history, spent>>

TempOpen(c) ==
    /\ pc[c] = "copy"
    /\ OpenCopy(c, Backup(asset[c]), Library(Tmp(asset[c])))
    /\ Goes(c, "copying")
    /\ UNCHANGED <<asset, callVars, syncVars, now, history, spent>>

AfterClose(step) ==
    CASE step = "moving"      -> "unlink"
      [] step = "copying"     -> "replace"
      [] step = "moving_back" -> "unlink_back"

\* Any of the copies of a restore is complete.
RestoreClose(c) ==
    /\ pc[c] \in {"moving", "copying", "moving_back"}
    /\ CloseCopy(c)
    /\ Goes(c, AfterClose(pc[c]))
    /\ UNCHANGED <<asset, callVars, syncVars, now, history, spent>>

RestoreReplace(c) ==
    /\ pc[c] = "replace"
    /\ Replace(Library(Tmp(asset[c])), Library(asset[c]))
    /\ Goes(c, "verify")
    /\ UNCHANGED <<asset, copied, callVars, syncVars, now, history, spent>>

Leave(c) == Goes(c, "next") /\ asset' = [asset EXCEPT ![c] = None]

\* The hashes agree: restored.
RestoreVerify(c) ==
    /\ pc[c] = "verify"
    /\ Verified(asset[c])
    /\ Leave(c)
    /\ UNCHANGED <<file, open, copied, callVars, syncVars, now, history, spent>>

\* A file that the step needs is gone, or the hashes differ.
Obstructed(c) ==
    \/ pc[c] \in {"move", "unlink"} /\ ~Exists(Library(asset[c]))
    \/ pc[c] = "copy" /\ ~Exists(Backup(asset[c]))
    \/ pc[c] = "replace" /\ ~Exists(Library(Tmp(asset[c])))
    \/ pc[c] = "verify" /\ ~Verified(asset[c])

\* An OSError inside the try; what is half written stays.
RestoreRaises(c) ==
    /\ \/ Obstructed(c) /\ UNCHANGED spent
       \/ /\ pc[c] \in {"move", "moving", "unlink", "copy", "copying", "replace"}
          /\ Spend("faults")
    /\ Goes(c, "cleanup")
    /\ open' = [open EXCEPT ![c] = None]
    /\ copied' = [copied EXCEPT ![c] = None]
    /\ UNCHANGED <<file, asset, callVars, syncVars, now, history>>

\* The temporary file is removed, whoever wrote it.
RestoreCleanup(c) ==
    LET temp == Library(Tmp(asset[c])) IN
    /\ pc[c] = "cleanup"
    /\ IF Exists(temp) THEN Unlink(temp) ELSE UNCHANGED <<file, open>>
    /\ Goes(c, "rollback")
    /\ UNCHANGED <<asset, copied, callVars, syncVars, now, history, spent>>

\* The source is moved back if it is not there.
MayRollBack(c) ==
    /\ c \in quarantined
    /\ Exists(Quarantine(asset[c], stamp[c]))
    /\ ~Exists(Library(asset[c]))

Rollback(c) ==
    /\ pc[c] = "rollback"
    /\ IF MayRollBack(c)
       THEN Goes(c, "move_back") /\ UNCHANGED asset
       ELSE Leave(c)
    /\ UNCHANGED <<file, open, copied, callVars, syncVars, now, history, spent>>

MoveBackOpen(c) ==
    /\ pc[c] = "move_back"
    /\ OpenCopy(c, Quarantine(asset[c], stamp[c]), Library(asset[c]))
    /\ Goes(c, "moving_back")
    /\ UNCHANGED <<asset, callVars, syncVars, now, history, spent>>

MoveBackUnlink(c) ==
    /\ pc[c] = "unlink_back"
    /\ Unlink(Quarantine(asset[c], stamp[c]))
    /\ Leave(c)
    /\ UNCHANGED <<copied, callVars, syncVars, now, history, spent>>

\* The move back raises OSError, which is only reported.
RollbackRaises(c) ==
    /\ pc[c] \in {"move_back", "moving_back", "unlink_back"}
    /\ \/ Spend("faults")
       \/ /\ pc[c] # "moving_back" /\ ~Exists(Quarantine(asset[c], stamp[c]))
          /\ UNCHANGED spent
    /\ open' = [open EXCEPT ![c] = None]
    /\ copied' = [copied EXCEPT ![c] = None]
    /\ Leave(c)
    /\ UNCHANGED <<file, callVars, syncVars, now, history>>

RestoreEnds(c) ==
    /\ pc[c] = "next" /\ todo[c] = << >>
    /\ Goes(c, "idle")
    /\ eligible' = [eligible EXCEPT ![c] = {}]
    /\ UNCHANGED <<file, asset, open, copied, todo, stamp, quarantined, syncVars, now,
                   history, spent>>

-----------------------------------------------------------------------------
(* Immich, the clock, and crashes.                                          *)

\* The version a whole library file holds.
Held(a) == {v \in Versions : file[Library(a)] = Whole(v)}

\* Immich writes a new file or deletes one.  What it thereby replaces it has
\* discarded itself; done during a restore it is at its own risk.
ImmichWrites(a) ==
    /\ Spend("writes")
    /\ \E new \in {None, Whole(spent["writes"] + 2)} :
          /\ new = None => Exists(Library(a))
          /\ file' = [file EXCEPT ![Library(a)] = new]
          /\ owed' = [owed EXCEPT ![a] =
                        (@ \ Held(a)) \cup (IF new = None THEN {} ELSE {new.version})]
    /\ open' = [c \in Actors |-> IF open[c] = Library(a) THEN None ELSE open[c]]
    /\ exposed' = IF Restoring(a) THEN exposed \cup {a} ELSE exposed
    /\ UNCHANGED <<pc, asset, copied, callVars, syncVars, now>>

Tick ==
    /\ now < MaxTime
    /\ now' = now + 1
    /\ UNCHANGED <<file, actorVars, callVars, syncVars, history, spent>>

Crash ==
    /\ \E c \in Actors : pc[c] # "idle"
    /\ Spend("crashes")
    /\ pc' = [c \in Actors |-> "idle"]
    /\ asset' = [c \in Actors |-> None]
    /\ open' = [c \in Actors |-> None]
    /\ copied' = [c \in Actors |-> None]
    /\ todo' = [c \in Callers |-> << >>]
    /\ eligible' = [c \in Callers |-> {}]
    /\ plan' = {}
    /\ UNCHANGED <<file, stamp, quarantined, trouble, report, reviewed, now, history>>

-----------------------------------------------------------------------------
SyncStep == SyncReview \/ SyncOpen \/ SyncClose \/ SyncVerify \/ SyncFails \/ SyncEnds

RestoreStep(c) ==
    \/ RestoreReview(c) \/ RestoreSkip(c) \/ RestoreBegin(c)
    \/ MoveOpen(c) \/ MoveUnlink(c) \/ TempOpen(c) \/ RestoreClose(c)
    \/ RestoreReplace(c) \/ RestoreVerify(c)
    \/ RestoreRaises(c) \/ RestoreCleanup(c) \/ Rollback(c)
    \/ MoveBackOpen(c) \/ MoveBackUnlink(c) \/ RollbackRaises(c) \/ RestoreEnds(c)

Next ==
    \/ SyncStep
    \/ \E c \in Callers : RestoreStep(c)
    \/ \E a \in Assets : ImmichWrites(a)
    \/ Tick
    \/ Crash

Spec == Init /\ [][Next]_vars

-----------------------------------------------------------------------------
(* Properties.                                                              *)

\* Every variable keeps its type, and exactly the actors in the middle of a copy
\* or a restore have a name they work on.
TypeOK ==
    /\ file \in [Paths -> Content \cup {None}]
    /\ pc \in [Actors -> {"idle", "next", "close", "verify", "move", "moving", "unlink",
                          "copy", "copying", "replace", "cleanup", "rollback",
                          "move_back", "moving_back", "unlink_back"}]
    /\ asset \in [Actors -> Names \cup {None}]
    /\ \A c \in Actors : asset[c] = None <=> pc[c] \in {"idle", "next"}
    /\ open \in [Actors -> Paths \cup {None}]
    /\ copied \in [Actors -> Content \cup {None}]
    /\ todo \in [Callers -> Seq(Assets)]
    /\ eligible \in [Callers -> SUBSET Names]
    /\ stamp \in [Callers -> 0 .. MaxTime]
    /\ quarantined \subseteq Callers
    /\ plan \subseteq Names
    /\ trouble \in BOOLEAN
    /\ report \in {None, "partial", "completed"}
    /\ now \in 0 .. MaxTime
    /\ reviewed \in [Names -> Content \cup {None}]
    /\ owed \in [Assets -> SUBSET Versions]
    /\ exposed \subseteq Assets
    /\ spent \in [Bounded -> Nat]

\* A version is whole in the library, in the mirror, or in quarantine.
Kept(a, v) ==
    \/ file[Library(a)] = Whole(v)
    \/ file[Backup(a)] = Whole(v)
    \/ \E s \in 0 .. MaxTime : file[Quarantine(a, s)] = Whole(v)

\* No restore loses a version that Immich has not itself discarded: through
\* failing steps, rollbacks, crashes and mirror copies that a sync left cut short
\* it stays whole somewhere, unless restores of the asset shared a second or ran
\* at once, or Immich wrote the asset meanwhile (_restore_one).
NothingLost ==
    \A a \in Assets \ exposed : \A v \in owed[a] : Kept(a, v)

\* A sync that reports "completed" has left every asset it compared, and that
\* has not changed since, in the mirror as it is: copies an earlier run left
\* incomplete, or that failed, are not passed over (sync_missing).
CompletedMeansCovered ==
    report = "completed" =>
        \A a \in Assets :
            reviewed[a] # None /\ file[Library(a)] = reviewed[a]
                => file[Backup(a)] = reviewed[a]

\* A whole copy in the mirror is never touched again, whatever is synced or
\* restored later (SYNC_ELIGIBLE_STATUSES).
MirrorOnlyGrows ==
    [][\A n \in Names :
          Exists(Backup(n)) /\ file[Backup(n)].whole
            => file'[Backup(n)] = file[Backup(n)]]_vars
=============================================================================
