------------------------------ MODULE EmptyDirs ------------------------------
(***************************************************************************)
(* EmptyDirQuarantineManager with EmptyFolderScanner: empty directories    *)
(* are moved below a session of the quarantine and can be moved back or    *)
(* deleted for good.  The index of all sessions is one file, read and      *)
(* written as a whole, and written only after the last directory.          *)
(*                                                                         *)
(* A directory is the set of the files in it.  Directories are the leaves: *)
(* one that holds only empty directories is reported as an orphan parent   *)
(* and no request can select it.                                           *)
(***************************************************************************)
EXTENDS RepairJournal

CONSTANTS
    Dirs,
    DirFiles,    \* files users may put into them
    Sessions     \* ids a quarantine session may draw

VARIABLES
    tree,        \* directory -> its files, None when it is not there
    kept,        \* session -> directory -> what was moved, None without it
    dirIndex,    \* items of the index file
    alive,       \* history: files put into a directory and not taken out
    slipped,     \* history: files put into a directory after a scan found it empty
    cut,         \* history: sessions a crash met
    oldIndex     \* history: callers whose index another has replaced, and the
                 \*          None that stands for such an index written

dirVars == <<tree, kept, dirIndex, alive, slipped, cut, oldIndex>>

DirItem == [session : Sessions, dir : Dirs, state : {"active", "restored", "deleted"}]

\* What a caller holds.
DirMemory ==
    [flow : {"quarantine", "restored", "deleted"}, session : Sessions, todo : SUBSET Dirs,
     made : SUBSET DirItem, list : SUBSET DirItem]

ASSUME NoDirAssumption ==
    None \notin Callers /\ (\A held \in SUBSET DirFiles : held # None) /\ None \notin DirMemory

DirInit ==
    /\ tree \in [Dirs -> {{}, None}]
    /\ kept = [s \in Sessions |-> [d \in Dirs |-> None]]
    /\ dirIndex = {} /\ alive = {} /\ slipped = {} /\ cut = {} /\ oldIndex = {}

DirMem(flow, session, todo) ==
    [flow |-> flow, session |-> session, todo |-> todo, made |-> {}, list |-> {}]

SessionBusy(s) == \E c \in Callers :
    mem[c] # None /\ "session" \in DOMAIN mem[c] /\ mem[c].session = s
Replace(list, new) ==
    {i \in list : \A j \in new : <<i.session, i.dir>> # <<j.session, j.dir>>} \cup new

-----------------------------------------------------------------------------
(* Quarantine.                                                              *)

\* _scan_directory: there and without an entry.
EmptyLeaf(d) == tree[d] # None /\ tree[d] = {}

\* The scan, and the findings the request selects; unreadable ones are none.
StartDirQuarantine(c, s, selected) ==
    /\ Call(c)
    /\ selected \subseteq {d \in Dirs : EmptyLeaf(d)}
    /\ ~SessionBusy(s) /\ kept[s] = [d \in Dirs |-> None]
    /\ \A i \in dirIndex : i.session # s
    /\ Holds(c, DirMem("quarantine", s, selected))
    /\ Goes(c, "d_item")
    /\ UNCHANGED <<store, crashes, drift, dirVars>>

\* The directory is moved with what it holds by now.
MoveDir(c) ==
    LET s == mem[c].session IN
    /\ pc[c] = "d_item" /\ mem[c].flow = "quarantine"
    /\ \E d \in mem[c].todo :
          \/ /\ tree[d] # None
             /\ kept' = [kept EXCEPT ![s][d] = tree[d]]
             /\ tree' = [tree EXCEPT ![d] = None]
             /\ Holds(c, [mem[c] EXCEPT !.todo = @ \ {d}, !.made = @ \cup
                             {[session |-> s, dir |-> d, state |-> "active"]}])
          \/ /\ Holds(c, [mem[c] EXCEPT !.todo = @ \ {d}])
             /\ UNCHANGED <<tree, kept>>
    /\ UNCHANGED <<store, pc, calls, crashes, drift, dirIndex, alive, slipped, cut, oldIndex>>

\* _merge_index_items reads the index
ReadDirIndex(c) ==
    /\ pc[c] = "d_item" /\ mem[c].flow = "quarantine" /\ mem[c].todo = {}
    /\ Holds(c, [mem[c] EXCEPT !.list = dirIndex])
    /\ Goes(c, "d_write")
    /\ oldIndex' = oldIndex \ {c}
    /\ UNCHANGED <<store, calls, crashes, drift, tree, kept, dirIndex, alive, slipped, cut>>

Merged(list, new) == Replace(list, new)

\* Callers that will write the index they have read.
WithIndex(c) == mem[c] # None /\ (pc[c] = "d_write" \/ mem[c].flow \in {"restored", "deleted"})

\* and writes it with the new items.
WriteDirIndex(c) ==
    /\ pc[c] = "d_write"
    /\ dirIndex' = Merged(mem[c].list, mem[c].made)
    /\ oldIndex' = (oldIndex \cup {d \in Callers \ {c} : WithIndex(d)}
                             \cup (IF c \in oldIndex THEN {None} ELSE {})) \ {c}
    /\ Leaves(c)
    /\ UNCHANGED <<store, calls, crashes, drift, tree, kept, alive, slipped, cut>>

-----------------------------------------------------------------------------
(* Restore and final deletion.                                              *)

\* The active items of the session, and the index that is written at the end.
StartDirEnd(c, target, s, selected) ==
    LET active == {i \in dirIndex : i.session = s /\ i.state = "active" /\ i.dir \in selected} IN
    /\ Call(c)
    /\ active # {}
    /\ Holds(c, [DirMem(target, s, {i.dir : i \in active}) EXCEPT !.list = dirIndex])
    /\ Goes(c, "d_item")
    /\ oldIndex' = oldIndex \ {c}
    /\ UNCHANGED <<store, crashes, drift, tree, kept, dirIndex, alive, slipped, cut>>

Marked(c, d) ==
    Holds(c, [mem[c] EXCEPT !.todo = @ \ {d}, !.made = @ \cup
                 {[session |-> mem[c].session, dir |-> d, state |-> mem[c].flow]}])

\* A directory that is there again blocks, and so does any failure of the move.
RestoreDir(c) ==
    LET s == mem[c].session IN
    /\ pc[c] = "d_item" /\ mem[c].flow = "restored"
    /\ \E d \in mem[c].todo :
          \/ /\ tree[d] = None /\ kept[s][d] # None
             /\ tree' = [tree EXCEPT ![d] = kept[s][d]]
             /\ kept' = [kept EXCEPT ![s][d] = None]
             /\ Marked(c, d)
          \/ /\ Holds(c, [mem[c] EXCEPT !.todo = @ \ {d}])
             /\ UNCHANGED <<tree, kept>>
    /\ UNCHANGED <<store, pc, calls, crashes, drift, dirIndex, alive, slipped, cut, oldIndex>>

\* rmtree, whatever the directory holds.
RemoveDir(c) ==
    LET s == mem[c].session IN
    /\ pc[c] = "d_item" /\ mem[c].flow = "deleted"
    /\ \E d \in mem[c].todo :
          \/ /\ kept[s][d] # None
             /\ kept' = [kept EXCEPT ![s][d] = None]
             /\ Marked(c, d)
          \/ /\ Holds(c, [mem[c] EXCEPT !.todo = @ \ {d}])
             /\ UNCHANGED kept
    /\ UNCHANGED <<store, pc, calls, crashes, drift, tree, dirIndex, alive, slipped, cut, oldIndex>>

EndItems(c) ==
    /\ pc[c] = "d_item" /\ mem[c].flow \in {"restored", "deleted"} /\ mem[c].todo = {}
    /\ Goes(c, "d_write")
    /\ UNCHANGED <<store, mem, calls, crashes, drift, dirVars>>

-----------------------------------------------------------------------------
(* Users.                                                                   *)

DirMade(d) ==
    /\ drift < MaxDrift /\ drift' = drift + 1
    /\ tree[d] = None
    /\ tree' = [tree EXCEPT ![d] = {}]
    /\ UNCHANGED <<store, pc, mem, calls, crashes, kept, dirIndex, alive, slipped, cut, oldIndex>>

FoundEmpty(d) == \E c \in Callers : /\ mem[c] # None /\ mem[c].flow = "quarantine"
                                    /\ d \in mem[c].todo

FileAdded(d, x) ==
    /\ drift < MaxDrift /\ drift' = drift + 1
    /\ tree[d] # None /\ x \notin alive
    /\ tree' = [tree EXCEPT ![d] = @ \cup {x}]
    /\ alive' = alive \cup {x}
    /\ slipped' = IF FoundEmpty(d) THEN slipped \cup {x} ELSE slipped
    /\ UNCHANGED <<store, pc, mem, calls, crashes, kept, dirIndex, cut, oldIndex>>

FileTaken(d, x) ==
    /\ drift < MaxDrift /\ drift' = drift + 1
    /\ tree[d] # None /\ x \in tree[d]
    /\ tree' = [tree EXCEPT ![d] = @ \ {x}]
    /\ alive' = alive \ {x}
    /\ UNCHANGED <<store, pc, mem, calls, crashes, kept, dirIndex, slipped, cut, oldIndex>>

DirCrash ==
    /\ cut' = cut \cup {s \in Sessions : SessionBusy(s)}
    /\ oldIndex' = oldIndex \cap {None}
    /\ UNCHANGED <<tree, kept, dirIndex, alive, slipped>>

DirNext ==
    \/ \E c \in Callers :
          \/ \E s \in Sessions : \E selected \in (SUBSET Dirs) \ {{}} :
                \/ StartDirQuarantine(c, s, selected)
                \/ \E target \in {"restored", "deleted"} : StartDirEnd(c, target, s, selected)
          \/ MoveDir(c) \/ ReadDirIndex(c) \/ WriteDirIndex(c) \/ RestoreDir(c) \/ RemoveDir(c)
          \/ EndItems(c)
    \/ \E d \in Dirs : \/ DirMade(d)
                       \/ \E x \in DirFiles : FileAdded(d, x) \/ FileTaken(d, x)
    \/ JournalCrash /\ DirCrash

-----------------------------------------------------------------------------
DirTypeOK ==
    /\ tree \in [Dirs -> (SUBSET DirFiles) \cup {None}]
    /\ kept \in [Sessions -> [Dirs -> (SUBSET DirFiles) \cup {None}]]
    /\ dirIndex \subseteq DirItem
    /\ \A i, j \in dirIndex : i.session = j.session /\ i.dir = j.dir => i = j

\* No file goes with a directory: it is where users put it, or in a session.
\* Set aside are files put into a directory between the scan and the move: they
\* are moved with it and deleted with it.
DirFilesKept ==
    \A x \in alive \ slipped :
        \/ \E d \in Dirs : tree[d] # None /\ x \in tree[d]
        \/ \E s \in Sessions : \E d \in Dirs : kept[s][d] # None /\ x \in kept[s][d]

\* The index tells what the sessions hold, once nobody is at work on them, no
\* crash came before the index and no index was written over a newer one.
DirIndexTrue ==
    None \notin oldIndex =>
        \A s \in Sessions \ cut : ~SessionBusy(s) =>
            \A d \in Dirs :
                kept[s][d] # None <=> [session |-> s, dir |-> d, state |-> "active"] \in dirIndex
=============================================================================
