--------------------------- MODULE FileQuarantine ---------------------------
(***************************************************************************)
(* The quarantine of CatalogRemediationService and its ignored findings:   *)
(* files are moved below the quarantine root and an index line is          *)
(* appended, restore moves them back, delete unlinks them.  Requests run   *)
(* on the threads of the API, and nothing locks the files or the index.    *)
(*                                                                         *)
(* A finding names one source path, and the place in the quarantine is     *)
(* named after the finding, so that every quarantine of a finding has the  *)
(* same destination.  A file is an identity, whatever place it is in.      *)
(***************************************************************************)
EXTENDS RepairJournal

CONSTANTS
    Findings,
    Files,      \* identities of files
    Items,      \* ids a quarantine item may draw
    Marks       \* ids an ignored finding may draw

VARIABLES
    source,     \* finding -> the file at its source path, None without one
    stored,     \* finding -> the file at its place in the quarantine
    items,      \* item id -> the last line about it in the index, None without
    ignored,    \* entries of the file of ignored findings
    origin,     \* history: file -> the finding at whose source it appeared, None
    destroyed,  \* history: files a delete has unlinked for an item of theirs
    muddled,    \* history: findings two callers worked on at once, that were
                \*          quarantined over another file or under an outdated
                \*          item, or whose source came back under a restore
    stranded,   \* history: findings a crash or a failed append met
    wanted,     \* history: findings ignored and not released since
    oldList     \* history: callers whose list of ignored findings is replaced,
                \*          and the None that stands for such a list written

quarVars == <<source, stored, items, ignored, origin, destroyed, muddled, stranded, wanted, oldList>>
places == <<source, stored>>
marks == <<ignored, wanted, oldList>>

Item == [finding : Findings, file : Files, state : {"active", "restored", "deleted"}]
Mark == [id : Marks, finding : Findings, state : {"active", "released"}]

\* What a caller holds.
Todos == (SUBSET Findings) \cup (SUBSET (Items \X Item))
QuarMemory ==
    [flow : {"quarantine", "restored", "deleted", "ignore", "release"},
     todo : Todos, busy : SUBSET Findings, item : Items \cup {None},
     finding : Findings \cup {None}, list : SUBSET Mark]

ASSUME NoFileAssumption ==
    None \notin Findings \cup Files \cup Callers /\ None \notin Item /\ None \notin QuarMemory

QuarInit ==
    /\ source \in [Findings -> Files \cup {None}]
    /\ \A f, g \in Findings : f # g /\ source[f] # None => source[f] # source[g]
    /\ stored = [f \in Findings |-> None]
    /\ items = [i \in Items |-> None]
    /\ origin = [g \in Files |-> IF \E f \in Findings : source[f] = g
                                 THEN CHOOSE f \in Findings : source[f] = g ELSE None]
    /\ ignored = {} /\ destroyed = {} /\ muddled = {} /\ stranded = {}
    /\ wanted = {} /\ oldList = {}

\* Findings a caller is at work on.
AtWork(c) == IF mem[c] = None \/ "busy" \notin DOMAIN mem[c] THEN {} ELSE mem[c].busy

QuarMem(flow, todo, busy) ==
    [flow |-> flow, todo |-> todo, busy |-> busy, item |-> None, finding |-> None, list |-> {}]

\* A request starts on its findings; those another request is at work on are
\* set aside by the properties.
Begins(c, findings) ==
    muddled' = muddled \cup (findings \cap UNION {AtWork(d) : d \in Callers \ {c}})

-----------------------------------------------------------------------------
(* Quarantine.                                                              *)

StartQuarantine(c, findings) ==
    /\ Call(c)
    /\ Holds(c, QuarMem("quarantine", findings, findings))
    /\ Goes(c, "q_item")
    /\ Begins(c, findings)
    /\ UNCHANGED <<store, crashes, drift, places, items, marks, origin, destroyed, stranded>>

Done(c, f) == Holds(c, [mem[c] EXCEPT !.todo = @ \ {f}, !.item = None, !.finding = None])

\* No source, a source outside the root, or a root that cannot be written.
QuarantineRefused(c) ==
    /\ pc[c] = "q_item"
    /\ \E f \in mem[c].todo : Done(c, f)
    /\ UNCHANGED <<store, pc, calls, crashes, drift, quarVars>>

\* An active item of the finding is of another file than the one at its source:
\* the line that ended it was never appended, and it names the place still.
Outdated(f) == \E i \in Items : /\ items[i] # None /\ items[i].finding = f
                               /\ items[i].state = "active" /\ items[i].file # source[f]

\* The move; it replaces a file that is already at the place.
QuarantineMove(c) ==
    /\ pc[c] = "q_item"
    /\ \E f \in mem[c].todo : \E i \in Items :
          /\ source[f] # None
          /\ items[i] = None /\ \A d \in Callers : mem[d] # None => mem[d].item # i
          /\ stored' = [stored EXCEPT ![f] = source[f]]
          /\ source' = [source EXCEPT ![f] = None]
          /\ muddled' = IF stored[f] = None /\ ~Outdated(f) THEN muddled ELSE muddled \cup {f}
          /\ Holds(c, [mem[c] EXCEPT !.item = i, !.finding = f])
    /\ Goes(c, "q_append")
    /\ UNCHANGED <<store, calls, crashes, drift, items, marks, origin, destroyed, stranded>>

Appended(i, f, file, state) ==
    items' = [items EXCEPT ![i] = [finding |-> f, file |-> file, state |-> state]]

\* append_quarantine_item; when it fails the finding is reported as failed.
QuarantineAppend(c) ==
    LET f == mem[c].finding IN
    /\ pc[c] = "q_append"
    /\ \/ /\ stored[f] # None
          /\ Appended(mem[c].item, f, stored[f], "active") /\ UNCHANGED stranded
       \/ /\ UNCHANGED items /\ stranded' = stranded \cup {f}
    /\ Done(c, f)
    /\ Goes(c, "q_item")
    /\ UNCHANGED <<store, calls, crashes, drift, places, marks, origin, destroyed, muddled>>

-----------------------------------------------------------------------------
(* Restore and delete.                                                      *)

\* The index is read once, and the active items of the selection are taken.
StartTransition(c, target, ids) ==
    LET chosen == {i \in ids : items[i] # None /\ items[i].state = "active"}
        findings == {items[i].finding : i \in chosen} IN
    /\ Call(c)
    /\ Holds(c, QuarMem(target, {<<i, items[i]>> : i \in chosen}, findings))
    /\ Goes(c, "t_item")
    /\ Begins(c, findings)
    /\ UNCHANGED <<store, crashes, drift, places, items, marks, origin, destroyed, stranded>>

MutantSourceFree(f) == TRUE
\* A file at the source path blocks the restore.
SourceFree(f) == source[f] = None

RestoreCheck(c) ==
    /\ pc[c] = "t_item" /\ mem[c].flow = "restored"
    /\ \E t \in mem[c].todo :
          IF stored[t[2].finding] # None /\ SourceFree(t[2].finding)
          THEN /\ Holds(c, [mem[c] EXCEPT !.todo = @ \ {t}, !.item = t[1], !.finding = t[2].finding])
               /\ Goes(c, "t_move")
          ELSE Done(c, t) /\ UNCHANGED pc
    /\ UNCHANGED <<store, calls, crashes, drift, quarVars>>

RestoreMove(c) ==
    LET f == mem[c].finding IN
    /\ pc[c] = "t_move"
    /\ IF stored[f] # None
       THEN /\ source' = [source EXCEPT ![f] = stored[f]]
            /\ stored' = [stored EXCEPT ![f] = None]
            /\ Goes(c, "t_append")
       ELSE Goes(c, "t_item") /\ UNCHANGED places
    /\ UNCHANGED <<store, mem, calls, crashes, drift, items, marks, origin, destroyed, muddled, stranded>>

MutantUnlinked(f) == stored
Unlinked(f) == [stored EXCEPT ![f] = None]

\* Whatever is at the place is unlinked.
DeleteFile(c) ==
    /\ pc[c] = "t_item" /\ mem[c].flow = "deleted"
    /\ \E t \in mem[c].todo :
          LET f == t[2].finding IN
          /\ stored' = Unlinked(f)
          /\ destroyed' = destroyed \cup ({t[2].file} \cap {stored[f]})
          /\ Holds(c, [mem[c] EXCEPT !.todo = @ \ {t}, !.item = t[1], !.finding = f])
    /\ Goes(c, "t_append")
    /\ UNCHANGED <<store, calls, crashes, drift, source, items, marks, origin, muddled, stranded>>

TransitionAppend(c) ==
    LET i == mem[c].item IN
    /\ pc[c] = "t_append"
    /\ \/ /\ items' = [items EXCEPT ![i].state = mem[c].flow] /\ UNCHANGED stranded
       \/ /\ UNCHANGED items /\ stranded' = stranded \cup {mem[c].finding}
    /\ Goes(c, "t_item")
    /\ Holds(c, [mem[c] EXCEPT !.item = None, !.finding = None])
    /\ UNCHANGED <<store, calls, crashes, drift, places, marks, origin, destroyed, muddled>>

QuarEnd(c) ==
    /\ pc[c] \in {"q_item", "t_item"} /\ mem[c].todo = {}
    /\ Leaves(c)
    /\ UNCHANGED <<store, calls, crashes, drift, quarVars>>

-----------------------------------------------------------------------------
(* Ignored findings: the list is read, changed and written as a whole.      *)

LoadIgnored(c, flow, findings) ==
    /\ Call(c)
    /\ Holds(c, [QuarMem(flow, findings, {}) EXCEPT !.list = ignored])
    /\ Goes(c, "i_save")
    /\ oldList' = oldList \ {c}
    /\ UNCHANGED <<store, crashes, drift, places, items, ignored, wanted, origin, destroyed, muddled,
                   stranded>>

Saves(c, list) ==
    /\ ignored' = list
    /\ oldList' = (oldList \cup {d \in Callers \ {c} : pc[d] = "i_save"}
                           \cup (IF c \in oldList THEN {None} ELSE {})) \ {c}
    /\ Leaves(c)

\* A finding is not ignored twice at a time.
AlreadyIgnored(list) == {m.finding : m \in {n \in list : n.state = "active"}}

Ignore(c) ==
    LET new == mem[c].todo \ AlreadyIgnored(mem[c].list)
        used == {m.id : m \in ignored \cup mem[c].list} IN
    /\ pc[c] = "i_save" /\ mem[c].flow = "ignore"
    /\ \E ids \in [new -> Marks \ used] :
          /\ \A f, g \in new : f # g => ids[f] # ids[g]
          /\ Saves(c, mem[c].list \cup
                      {[id |-> ids[f], finding |-> f, state |-> "active"] : f \in new})
    /\ wanted' = wanted \cup mem[c].todo
    /\ UNCHANGED <<store, calls, crashes, drift, places, items, origin, destroyed, muddled, stranded>>

\* Released entries stay in the list.
Release(c) ==
    /\ pc[c] = "i_save" /\ mem[c].flow = "release"
    /\ Saves(c, {IF m.finding \in mem[c].todo THEN [m EXCEPT !.state = "released"] ELSE m :
                    m \in mem[c].list})
    /\ wanted' = wanted \ mem[c].todo
    /\ UNCHANGED <<store, calls, crashes, drift, places, items, origin, destroyed, muddled, stranded>>

-----------------------------------------------------------------------------
\* Immich writes a new file at a free source path.
FileAppears(f, file) ==
    /\ drift < MaxDrift /\ drift' = drift + 1
    /\ source[f] = None
    /\ origin[file] = None
    /\ source' = [source EXCEPT ![f] = file]
    /\ origin' = [origin EXCEPT ![file] = f]
    /\ muddled' = IF \E c \in Callers : f \in AtWork(c) THEN muddled \cup {f} ELSE muddled
    /\ UNCHANGED <<store, pc, mem, calls, crashes, stored, items, marks, destroyed, stranded>>

QuarCrash ==
    /\ stranded' = stranded \cup UNION {AtWork(c) : c \in Callers}
    /\ oldList' = oldList \cap {None}
    /\ UNCHANGED <<places, items, ignored, wanted, origin, destroyed, muddled>>

QuarNext ==
    \/ \E c \in Callers :
          \/ \E chosen \in (SUBSET Findings) \ {{}} :
                \/ StartQuarantine(c, chosen)
                \/ \E flow \in {"ignore", "release"} : LoadIgnored(c, flow, chosen)
          \/ \E ids \in (SUBSET Items) \ {{}} : \E target \in {"restored", "deleted"} :
                StartTransition(c, target, ids)
          \/ QuarantineRefused(c) \/ QuarantineMove(c) \/ QuarantineAppend(c)
          \/ RestoreCheck(c) \/ RestoreMove(c) \/ DeleteFile(c) \/ TransitionAppend(c)
          \/ QuarEnd(c) \/ Ignore(c) \/ Release(c)
    \/ \E f \in Findings : \E file \in Files : FileAppears(f, file)
    \/ JournalCrash /\ QuarCrash

-----------------------------------------------------------------------------
QuarTypeOK ==
    /\ source \in [Findings -> Files \cup {None}] /\ stored \in [Findings -> Files \cup {None}]
    /\ items \in [Items -> Item \cup {None}] /\ ignored \subseteq Mark

\* A file is at its source path or in the quarantine, whatever was quarantined,
\* restored and crashed, unless a delete was asked for an item made of it.  Set
\* aside are the places two items share: what one of them does to the place is
\* done to the file of the other.
FilesKept ==
    \A g \in Files : origin[g] # None =>
        \/ origin[g] \in muddled
        \/ g \in {source[origin[g]], stored[origin[g]]} \cup destroyed

\* The index and the files agree once nobody is at work: exactly the places with
\* an active item have a file.
FileIndexTrue ==
    \A f \in Findings \ (muddled \cup stranded \cup UNION {AtWork(c) : c \in Callers}) :
        stored[f] # None <=> \E i \in Items : /\ items[i] # None /\ items[i].finding = f
                                              /\ items[i].state = "active"

\* An ignored finding is in the list until it is released, unless a caller has
\* written a list over a newer one.
IgnoredStays ==
    None \notin oldList => wanted = AlreadyIgnored(ignored)
=============================================================================
