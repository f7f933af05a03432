------------------------- MODULE CatalogRemediation -------------------------
(***************************************************************************)
(* CatalogRemediationService over the committed storage index: a scan      *)
(* sorts database rows without their file and left-over files into         *)
(* findings, a preview binds the eligible ones to a plan token, an apply   *)
(* scans again, checks the token and removes rows, corrects paths or       *)
(* deletes files.                                                          *)
(*                                                                         *)
(* The findings come from the index and not from the disk; only checksums  *)
(* and open handles are looked up at the time.  Rows and files younger     *)
(* than the opening of the scan are left out, so that what was added while *)
(* the scan walked is not reported.  A path stands for a file below one    *)
(* storage root.  The removal of a row with its restore point is one step  *)
(* here and several in MissingAssets.                                      *)
(***************************************************************************)
EXTENDS RepairJournal

CONSTANTS
    Assets,
    Paths,
    RootOf,       \* path -> "uploads", "thumbs" or "video"
    Hidden,       \* uploads named .fuse_hidden*
    Names,
    NameOf,       \* path or asset -> its file name
    Contents,     \* what a file may hold; Empty is one of them
    Empty,
    Checksum,     \* asset -> the content its checksum is of, None when unusable
    Derivative,   \* asset -> the path of its thumbnail or encoded video, or None
    ListOrder,    \* the paths in the order of the index
    MaxScans      \* bound: scans of the storage

ASSUME RemediationConstants ==
    /\ RootOf \in [Paths -> {"uploads", "thumbs", "video"}]
    /\ Hidden \subseteq {p \in Paths : RootOf[p] = "uploads"}
    /\ NameOf \in [Paths \cup Assets -> Names]
    /\ Empty \in Contents /\ Checksum \in [Assets -> Contents \cup {None}]
    /\ Derivative \in [Assets -> Paths \cup {None}]
    /\ ListOrder \in Seq(Paths) /\ {ListOrder[i] : i \in DOMAIN ListOrder} = Paths
    /\ MaxScans \in Nat

\* FUSE names what it hides without an extension of a medium, and Immich takes no
\* asset of such a name.
ASSUME HiddenAssumption == \A p \in Hidden : \A a \in Assets : NameOf[p] # NameOf[a]

FindingClasses ==
    {"missing_confirmed", "found_with_hash_match", "found_elsewhere", "zero_byte_upload_critical",
     "zero_byte_upload_orphan", "zero_byte_video_derivative", "zero_byte_thumb_derivative", "none",
     "blocked_in_use", "check_failed", "deletable_orphan"}
ActionKinds == {"broken_db_cleanup", "broken_db_path_fix", "zero_byte_delete", "fuse_hidden_delete"}

RemFinding ==
    [item : Assets \cup Paths, class : FindingClasses, from : Paths \cup {None},
     at : Paths \cup {None}, actions : SUBSET ActionKinds]
RemRun ==
    [kind : ActionKinds, status : RunStatus, token : SUBSET RemFinding, snapshot : BOOLEAN,
     scope : [items : SUBSET (Assets \cup Paths), all : BOOLEAN]]

Index ==
    [walked : BOOLEAN, snapshot : SUBSET Paths, listed : SUBSET Paths, late : SUBSET Paths,
     young : SUBSET Assets, changed : SUBSET Paths]

ASSUME NoRemAssumption ==
    None \notin Paths \cup Assets /\ None \notin RemRun /\ None \notin Index

VARIABLES
    original,    \* asset -> the path its row refers to, None without a row
    disk,        \* path -> content, None without a file
    committed,   \* the committed index, None before the first scan
    walk,        \* the scan under way, None without one
    handles,     \* hidden files a process has open
    tool,        \* what the inspection of open handles can do here
    scans,       \* scans so far (bound)
    superseded,  \* history: callers whose index another scan has replaced
    shaken,      \* history: paths changed while a caller was at work
    fixed        \* history: assets with a corrected path that nobody changed since

remVars == <<original, disk, committed, walk, handles, tool, scans, superseded, shaken, fixed>>
world == <<original, disk, committed, walk, handles, tool, scans>>

Uploads == {p \in Paths : RootOf[p] = "uploads"}

RemInit ==
    /\ original \in [Assets -> (Uploads \ Hidden) \cup {None}]
    /\ disk \in [Paths -> Contents \cup {None}]
    /\ committed = None /\ walk = None
    /\ handles \in SUBSET {p \in Hidden : disk[p] # None}
    /\ tool \in {"inspects", "skipped", "unavailable"}
    /\ scans = 0 /\ superseded = {} /\ shaken = {} /\ fixed = {}

\* What happens to the storage and to Immich is bounded.
Outside == drift < MaxDrift /\ drift' = drift + 1

-----------------------------------------------------------------------------
(* The storage scan, as far as remediation reads its result.                *)

\* The window opens when the first root is scanned.  late are the files that
\* get a newer time of modification, young the rows that get one.
OpenWindow ==
    /\ walk = None /\ scans < MaxScans
    /\ scans' = scans + 1
    /\ walk' = [walked |-> FALSE, snapshot |-> {}, listed |-> {}, late |-> {}, young |-> {},
                changed |-> {}]
    /\ UNCHANGED <<journalVars, original, disk, committed, handles, tool, superseded, shaken, fixed>>

\* _row_within_snapshot_window over the rows of the snapshots.
WithinWindow(files, late) == files \ late

\* read are the files the scans come to and can look at.  They commit without those
\* in a directory that cannot be read and those whose entry or stat fails, and the
\* consistency state does not ask for their error counts.
WalkRoots ==
    /\ walk # None /\ ~walk.walked
    /\ \E read \in SUBSET {p \in Paths : disk[p] # None} :
          /\ walk' = [walk EXCEPT !.walked = TRUE, !.snapshot = read,
                                  !.listed = WithinWindow(read, walk.late)]
          /\ IF read = {p \in Paths : disk[p] # None} THEN UNCHANGED drift ELSE Outside
    /\ UNCHANGED <<store, pc, mem, calls, crashes, original, disk, committed, handles, tool, scans,
                   superseded, shaken, fixed>>

CommitSnapshots ==
    /\ walk # None /\ walk.walked
    /\ committed' = walk /\ walk' = None
    /\ superseded' = superseded \cup {c \in Callers : pc[c] # "idle"}
    /\ UNCHANGED <<journalVars, original, disk, handles, tool, scans, shaken, fixed>>

-----------------------------------------------------------------------------
(* Findings.                                                                *)

Finding(item, class, from, at, actions) ==
    [item |-> item, class |-> class, from |-> from, at |-> at, actions |-> actions]

\* Rows within the window whose original the index does not list.
Broken == {a \in Assets : /\ original[a] # None /\ a \notin committed.young
                          /\ original[a] \notin committed.listed}

\* The first path of the index at one of these positions, None without one.
FirstListed(positions) ==
    IF positions = {} THEN None
    ELSE ListOrder[CHOOSE i \in positions : \A j \in positions : i <= j]

MutantLocated(a) ==
    FirstListed({i \in DOMAIN ListOrder : /\ ListOrder[i] \in committed.listed \cap Uploads
                                          /\ disk[ListOrder[i]] = Checksum[a]
                                          /\ NameOf[ListOrder[i]] = NameOf[a]})
\* _search_for_relocated_file: the first listed file of that name.
Located(a) ==
    FirstListed({i \in DOMAIN ListOrder : /\ ListOrder[i] \in committed.listed
                                          /\ NameOf[ListOrder[i]] = NameOf[a]
                                          /\ ListOrder[i] # original[a]})

MutantVerified(a, p) == p \in Uploads
\* _verify_file_checksum on the file as it is now, and the root it is in.
Verified(a, p) ==
    /\ p \in Uploads
    /\ Checksum[a] # None /\ disk[p] = Checksum[a]

BrokenFinding(a) ==
    LET p == Located(a) IN
    IF p = None
    THEN Finding(a, "missing_confirmed", original[a], None, {"broken_db_cleanup"})
    ELSE IF Verified(a, p)
    THEN Finding(a, "found_with_hash_match", original[a], p, {"broken_db_path_fix"})
    ELSE Finding(a, "found_elsewhere", original[a], p, {})

\* Zero-byte files never offer an action: they are for quarantine.
ZeroByteClass(p) ==
    LET owners == {a \in Assets : Derivative[a] = p /\ original[a] \in committed.listed} IN
    CASE p \in Uploads /\ (\E a \in Assets : original[a] = p) -> "zero_byte_upload_critical"
      [] p \in Uploads                               -> "zero_byte_upload_orphan"
      [] RootOf[p] = "video" /\ owners # {}          -> "zero_byte_video_derivative"
      [] RootOf[p] = "thumbs" /\ owners # {}         -> "zero_byte_thumb_derivative"
      [] OTHER                                       -> "none"

ZeroByteFindings ==
    {Finding(p, ZeroByteClass(p), None, p, {}) :
        p \in {q \in committed.listed \ Hidden : disk[q] = Empty /\ ZeroByteClass(q) # "none"}}

\* Without a working inspection the deletion is still offered.
HiddenFinding(p) ==
    IF tool = "inspects" /\ p \in handles
    THEN Finding(p, "blocked_in_use", None, p, {})
    ELSE Finding(p, IF tool = "unavailable" THEN "check_failed" ELSE "deletable_orphan", None, p,
                 {"fuse_hidden_delete"})

Scan ==
    IF committed = None THEN {}
    ELSE {BrokenFinding(a) : a \in Broken} \cup ZeroByteFindings
         \cup {HiddenFinding(p) : p \in committed.listed \cap Hidden}

\* The selects: what supports the action, in the scope or all of it.
Select(findings, kind, scope, all) ==
    {f \in findings : kind \in f.actions /\ (all \/ f.item \in scope)}

-----------------------------------------------------------------------------
(* Preview and apply.                                                       *)

Preview(c, r, kind, asked, all) ==
    LET selected == Select(Scan, kind, asked, all) IN
    /\ Call(c) /\ runs[r] = None
    /\ CreateRun(r, NewRun(kind, "planned", [items |-> {f.item : f \in selected}, all |-> all],
                           selected))
    /\ UNCHANGED <<journal, pc, mem, crashes, drift, remVars>>

MutantCompared(token, selected) == token
\* What is compared with the token: the scope, scanned and selected again.
Compared(token, selected) == selected

StartApply(c, r) ==
    LET run == runs[r]
        selected == Select(Scan, run.kind, run.scope.items, run.scope.all) IN
    /\ Call(c) /\ run # None
    /\ \/ /\ GuardValid(run.token, Compared(run.token, selected))
          /\ Finish(r, "running")
          /\ Holds(c, [run |-> r, kind |-> run.kind, todo |-> selected, finding |-> None,
                       old |-> None, done |-> {}])
          /\ Goes(c, "item")
       \/ /\ Finish(r, "failed")
          /\ UNCHANGED <<pc, mem>>
    /\ superseded' = superseded \ {c}
    /\ UNCHANGED <<journal, crashes, drift, world, shaken, fixed>>

Takes(c, f, step) ==
    /\ pc[c] = "item" /\ f \in mem[c].todo
    /\ Goes(c, step)

\* The item was done without a journal entry, or was not done.
Leaving(c, f, status) ==
    Holds(c, [mem[c] EXCEPT !.todo = @ \ {f}, !.done = @ \cup {status}])

Working(c, f, old) ==
    Holds(c, [mem[c] EXCEPT !.todo = @ \ {f}, !.finding = f, !.old = old])

\* _apply_single_asset on the finding of the index: the disk is not looked at.
RemoveAsset(c) ==
    /\ mem[c] # None /\ mem[c].kind = "broken_db_cleanup"
    /\ \E f \in mem[c].todo :
          \/ /\ original[f.item] # None
             /\ Takes(c, f, "journal") /\ Working(c, f, original[f.item])
             /\ original' = [original EXCEPT ![f.item] = None]
             /\ fixed' = fixed \ {f.item}
          \/ /\ Takes(c, f, "item")
             /\ Leaving(c, f, IF original[f.item] = None THEN "skipped" ELSE "failed")
             /\ UNCHANGED <<original, fixed>>
    /\ UNCHANGED <<store, calls, crashes, drift, disk, committed, walk, handles, tool, scans,
                   superseded, shaken>>

\* update_asset_original_path; without a row it raises.
FixPath(c) ==
    /\ mem[c] # None /\ mem[c].kind = "broken_db_path_fix"
    /\ \E f \in mem[c].todo :
          \/ /\ original[f.item] # None
             /\ Takes(c, f, "journal") /\ Working(c, f, original[f.item])
             /\ original' = [original EXCEPT ![f.item] = f.at]
             /\ fixed' = IF f.at \in shaken THEN fixed \ {f.item} ELSE fixed \cup {f.item}
          \/ /\ Takes(c, f, "item") /\ Leaving(c, f, "failed")
             /\ UNCHANGED <<original, fixed>>
    /\ UNCHANGED <<store, calls, crashes, drift, disk, committed, walk, handles, tool, scans,
                   superseded, shaken>>

\* A file that is gone is already removed; unlinking may fail.
DeleteHidden(c) ==
    /\ mem[c] # None /\ mem[c].kind = "fuse_hidden_delete"
    /\ \E f \in mem[c].todo :
          \/ /\ disk[f.at] # None
             /\ Takes(c, f, "journal") /\ Working(c, f, None)
             /\ disk' = [disk EXCEPT ![f.at] = None]
             /\ handles' = handles \ {f.at}
          \/ /\ Takes(c, f, "item")
             /\ Leaving(c, f, IF disk[f.at] = None THEN "already_removed" ELSE "failed")
             /\ UNCHANGED <<disk, handles>>
    /\ UNCHANGED <<store, calls, crashes, drift, original, committed, walk, tool, scans,
                   superseded, shaken, fixed>>

\* The entry follows the change; when it cannot be written the item is reported
\* as failed.
JournalItem(c) ==
    LET f == mem[c].finding IN
    /\ pc[c] = "journal"
    /\ \/ /\ Appends(mem[c].run, Entry(f.item, "applied", FALSE, mem[c].old, f.at))
          /\ Holds(c, [mem[c] EXCEPT !.finding = None, !.old = None, !.done = @ \cup {"applied"}])
       \/ /\ Holds(c, [mem[c] EXCEPT !.finding = None, !.old = None, !.done = @ \cup {"failed"}])
          /\ UNCHANGED journal
    /\ Goes(c, "item")
    /\ UNCHANGED <<runs, calls, crashes, drift, remVars>>

FinishApply(c) ==
    /\ pc[c] = "item" /\ mem[c].todo = {}
    /\ Finish(mem[c].run, FinalStatus(mem[c].done))
    /\ Leaves(c)
    /\ superseded' = superseded \ {c}
    /\ UNCHANGED <<journal, calls, crashes, drift, world, shaken, fixed>>

-----------------------------------------------------------------------------
(* Immich, its users and the storage.                                       *)

\* Paths that change, and those among them with a new time of modification.
Records(index, paths, modified) ==
    IF index = None THEN None
    ELSE [index EXCEPT !.changed = @ \cup paths,
                       !.late = IF index.walked THEN @ ELSE @ \cup modified]

Changes(paths, modified) ==
    /\ committed' = Records(committed, paths, modified)
    /\ walk' = Records(walk, paths, modified)
    /\ shaken' = IF \E c \in Callers : pc[c] # "idle" THEN shaken \cup paths ELSE shaken
    /\ fixed' = {a \in fixed : original[a] \notin paths}

FileWritten(p, content) ==
    /\ Outside /\ disk[p] # content
    /\ disk' = [disk EXCEPT ![p] = content]
    /\ handles' = IF content = None THEN handles \ {p} ELSE handles
    /\ Changes({p}, {p})
    /\ UNCHANGED <<runs, journal, pc, mem, calls, crashes, original, tool, scans, superseded>>

\* A file is moved to another directory and keeps its time of modification.
FileMoved(p, q) ==
    /\ Outside /\ p # q /\ NameOf[p] = NameOf[q] /\ disk[p] # None /\ disk[q] = None
    /\ disk' = [disk EXCEPT ![p] = None, ![q] = disk[p]]
    /\ handles' = handles \ {p}
    /\ Changes({p, q}, {})
    /\ UNCHANGED <<runs, journal, pc, mem, calls, crashes, original, tool, scans, superseded>>

\* Immich adds a row or changes one; its time is newer than any open window.
RowChanged(a, p) ==
    LET Younger(index) == IF index = None THEN None ELSE [index EXCEPT !.young = @ \cup {a}] IN
    /\ Outside
    /\ original' = [original EXCEPT ![a] = p]
    /\ committed' = Younger(committed) /\ walk' = Younger(walk)
    /\ fixed' = fixed \ {a}
    /\ UNCHANGED <<runs, journal, pc, mem, calls, crashes, disk, handles, tool, scans,
                   superseded, shaken>>

HandleOpened(p) ==
    /\ Outside /\ disk[p] # None /\ p \notin handles
    /\ handles' = handles \cup {p}
    /\ UNCHANGED <<runs, journal, pc, mem, calls, crashes, original, disk, committed, walk, tool,
                   scans, superseded, shaken, fixed>>

RemCrash == superseded' = {} /\ UNCHANGED <<world, shaken, fixed>>

RemNext ==
    \/ OpenWindow \/ WalkRoots \/ CommitSnapshots
    \/ \E c \in Callers : \E r \in Runs :
          \/ StartApply(c, r)
          \/ \E kind \in ActionKinds : \/ Preview(c, r, kind, {}, TRUE)
                                      \/ \E asked \in SUBSET {f.item : f \in Scan} :
                                            Preview(c, r, kind, asked, FALSE)
    \/ \E c \in Callers :
          RemoveAsset(c) \/ FixPath(c) \/ DeleteHidden(c) \/ JournalItem(c) \/ FinishApply(c)
    \/ \E p \in Paths : \/ \E content \in Contents \cup {None} : FileWritten(p, content)
                        \/ \E q \in Paths : FileMoved(p, q)
    \/ \E a \in Assets : \E p \in Uploads \ Hidden : RowChanged(a, p)
    \/ \E p \in Hidden : HandleOpened(p)
    \/ JournalCrash /\ RemCrash

-----------------------------------------------------------------------------
\* A corrected path leads to a file with the content the row's checksum is of,
\* as long as nobody has changed the file or the row since the apply looked.
FixVerified == \A a \in fixed : disk[original[a]] = Checksum[a]

\* What an apply did was in the preview of its run, with the same target: the
\* second scan may select more or other findings, and the guard then refuses.
AsPreviewed ==
    \A r \in Runs : \A e \in Entries(r) :
        \E f \in runs[r].token : f.item = e.item /\ f.at = e.new

\* Files the scan read that nobody has changed since the window of the index opened.
Steady == committed.snapshot \ committed.changed

\* A row goes only when neither its file nor one of its name is a file that the scan
\* read and that has been in the storage all along.  That is all an apply can tell:
\* what was added, moved or changed since the window opened is beyond the index, so
\* is the index once another scan has replaced it, and a file that lies still but
\* could not be read by the scan is as absent as one that is gone.
SteadyFileKeepsRow ==
    [][\A a \in Assets : original[a] # None /\ original'[a] = None =>
          \/ a \in committed.young
          \/ \E c \in superseded : pc'[c] # pc[c]
          \/ \A p \in Steady : p # original[a] /\ NameOf[p] # NameOf[a]]_<<journalVars, remVars>>

\* docs/workflows/repair.md:93 says a broken original is a row whose path is
\* absent from the cached uploads snapshot.
CleanupOnlyUnlisted ==
    [][\A r \in Runs : runs[r] = None /\ runs'[r] # None /\ runs'[r].kind = "broken_db_cleanup" =>
          \A f \in runs'[r].token : f.from \notin committed.snapshot]_<<journalVars, remVars>>
=============================================================================
