--------------------------- MODULE MissingAssets ---------------------------
(***************************************************************************)
(* MissingAssetReferenceService with its restore points, and the repair of *)
(* album links of ConsistencyRepairService: database rows are removed      *)
(* under a plan token, what was removed is kept in a restore point, and a  *)
(* restore inserts it again.                                               *)
(*                                                                         *)
(* The database of Immich holds asset rows, album rows and links between   *)
(* them; links stand for all rows that refer to an asset.  Several reads   *)
(* of one table set are one step, each transaction is one step, and the    *)
(* index of the restore points is read and written in two.                 *)
(***************************************************************************)
EXTENDS RepairJournal

CONSTANTS
    Assets,
    Albums,
    Points,       \* ids a restore point may draw
    PlainAssets   \* assets whose rows hold only values that JSON can hold

VARIABLES
    assetRows,    \* assets with a row
    albumRows,    \* albums with a row
    links,        \* <<album, asset>> of album_asset
    present,      \* assets whose original is on disk
    index,        \* restore points in the index file
    dropped,      \* history: points a user has deleted
    removed,      \* history: asset -> links that went with its row, None
    clashed,      \* history: assets whose rows or file changed under an apply,
                  \*          or whose commit got no answer
    stale,        \* history: callers whose loaded index another has replaced
    overwrote,    \* history: a caller has written such an index
    reapplied     \* history: runs that were applied when they had been before

database == <<assetRows, albumRows, links>>
missVars == <<database, present, index, dropped, removed, clashed, stale, overwrote, reapplied>>

Link == Albums \X Assets
LinksOf(a) == {l \in links : l[2] = a}
Point == [id : Points, asset : Assets, links : SUBSET Link,
          status : {"available", "restored"}]

MissInit ==
    /\ assetRows \in SUBSET Assets
    /\ albumRows = Albums
    /\ links \in SUBSET (Albums \X assetRows)
    /\ present \in SUBSET assetRows
    /\ index \in {{}} \cup {{p} : p \in {q \in Point : q.status = "restored"}}
    /\ dropped = {}
    /\ removed = [a \in Assets |-> None]
    /\ clashed = {}
    /\ stale = {}
    /\ overwrote = FALSE
    /\ reapplied = {}

-----------------------------------------------------------------------------
(* Scan and preview.                                                        *)

AssetStatus(a) == IF a \in present THEN "present" ELSE "missing_on_disk"
Findings == {[asset |-> a, status |-> AssetStatus(a)] : a \in assetRows}
Ready(finding) == finding.status = "missing_on_disk"

\* The findings of the scope, ready or not: what both fingerprints are of.
InScope(findings, scope) == {f \in findings : f.asset \in scope}

Preview(c, r, asked) ==
    LET selected == {f.asset : f \in {g \in InScope(Findings, asked) : Ready(g)}} IN
    /\ Call(c) /\ runs[r] = None
    /\ CreateRun(r, NewRun("remove", "planned", selected, InScope(Findings, selected)))
    /\ UNCHANGED <<journal, pc, mem, crashes, drift, missVars>>

-----------------------------------------------------------------------------
(* Apply.                                                                   *)

MutantApplyToken(token, findings, scope) == token
\* What is compared with the token: the same scope, scanned again.
ApplyToken(token, findings, scope) == InScope(findings, scope)

Idle == [flow |-> "none", run |-> None, todo |-> {}, asset |-> None, links |-> {},
         point |-> None, index |-> {}, done |-> {}]

\* Where an apply and a restore may stand; they journal alike.
Removing == {"apply_item", "point_load", "point_write", "remove_rows", "unpoint_load",
             "unpoint_write", "journal_applied", "journal_failed"}
Restoring == {"restore_item", "restored_load", "restored_write", "journal_applied",
              "journal_failed"}

\* Assets an apply has found missing and may still remove.
UnderApply == {a \in Assets : \E c \in Callers :
                  /\ pc[c] \in Removing /\ mem[c].flow = "apply"
                  /\ (a = mem[c].asset \/ a \in mem[c].todo)}

\* apply loads the run whatever its status, scans and checks the guard.
StartApply(c, r) ==
    /\ Call(c) /\ runs[r] # None /\ runs[r].kind = "remove"
    /\ \/ /\ GuardValid(runs[r].token, ApplyToken(runs[r].token, Findings, runs[r].scope))
          /\ Finish(r, "running")
          /\ Holds(c, [Idle EXCEPT !.flow = "apply", !.run = r, !.todo = runs[r].scope])
          /\ Goes(c, "apply_item")
       \/ /\ Finish(r, "failed")
          /\ UNCHANGED <<pc, mem>>
    /\ reapplied' = IF runs[r].status = "planned" THEN reapplied ELSE reapplied \cup {r}
    /\ UNCHANGED <<journal, crashes, drift, database, present, index, dropped, removed, clashed,
                   stale, overwrote>>

\* A caller works on a restore point, or is to restore it.
Owns(c, p) ==
    /\ pc[c] \in Removing \cup Restoring
    /\ mem[c].point = p \/ (mem[c].flow = "restore" /\ \E q \in mem[c].todo : q.id = p)

\* No row is left to capture.
AlreadyRemoved(c) ==
    /\ pc[c] = "apply_item"
    /\ \E a \in mem[c].todo \ assetRows :
          /\ LinksOf(a) = {}
          /\ Appends(mem[c].run, Entry(a, "skipped", FALSE, None, None))
          /\ Holds(c, [mem[c] EXCEPT !.todo = @ \ {a}, !.done = @ \cup {"skipped"}])
    /\ UNCHANGED <<runs, pc, calls, crashes, drift, missVars>>

MutantAfterCapture == "remove_rows"
\* The restore point is created before the rows are deleted.
AfterCapture == "point_load"

\* The rows are captured; json.dumps refuses ids, times and checksums as the
\* database driver returns them, before anything is written, and no one
\* catches that.
Capture(c) ==
    /\ pc[c] = "apply_item"
    /\ \E a \in mem[c].todo :
          /\ a \in assetRows \/ LinksOf(a) # {}
          /\ IF a \in PlainAssets
             THEN /\ \E p \in Points :
                        /\ \A q \in index : q.id # p
                        /\ p \notin dropped /\ \A d \in Callers : ~Owns(d, p)
                        /\ Holds(c, [mem[c] EXCEPT !.todo = @ \ {a}, !.asset = a,
                                                   !.links = LinksOf(a), !.point = p])
                  /\ Goes(c, AfterCapture)
             ELSE Leaves(c)
    /\ UNCHANGED <<store, calls, crashes, drift, missVars>>

\* The index is read as a whole,
LoadIndex(c) ==
    /\ pc[c] \in {"point_load", "unpoint_load", "restored_load", "delete_load"}
    /\ Holds(c, [mem[c] EXCEPT !.index = index])
    /\ Goes(c, CASE pc[c] = "point_load"    -> "point_write"
                 [] pc[c] = "unpoint_load"  -> "unpoint_write"
                 [] pc[c] = "restored_load" -> "restored_write"
                 [] OTHER                   -> "delete_write")
    /\ stale' = stale \ {c}
    /\ UNCHANGED <<store, calls, crashes, drift, database, present, index, dropped,
                   removed, clashed, overwrote, reapplied>>

Writing == {"point_write", "unpoint_write", "restored_write", "delete_write"}

\* and written as a whole.
WriteIndex(c, points) ==
    /\ index' = points
    /\ stale' = (stale \cup {d \in Callers \ {c} : pc[d] \in Writing}) \ {c}
    /\ overwrote' = (overwrote \/ c \in stale)

With(points, point) == {p \in points : p.id # point.id} \cup {point}
Without(points, ids) == {p \in points : p.id \notin ids}

CreatePoint(c) ==
    /\ pc[c] = "point_write"
    /\ WriteIndex(c, With(mem[c].index, [id |-> mem[c].point, asset |-> mem[c].asset,
                                          links |-> mem[c].links, status |-> "available"]))
    /\ Goes(c, "remove_rows")
    /\ UNCHANGED <<store, mem, calls, crashes, drift, database, present, dropped,
                   removed, clashed, reapplied>>

\* delete_asset_reference_records: one transaction, which fails without a row,
\* on an error, or after it was committed when the answer is lost.
RemoveRows(c) ==
    LET a == mem[c].asset IN
    /\ pc[c] = "remove_rows"
    /\ \/ /\ a \in assetRows
          /\ assetRows' = assetRows \ {a}
          /\ links' = links \ LinksOf(a)
          /\ removed' = [removed EXCEPT ![a] = LinksOf(a)]
          /\ \/ /\ Goes(c, "journal_applied")
                /\ clashed' = IF a \in present THEN clashed \cup {a} ELSE clashed
             \/ /\ Goes(c, "unpoint_load")
                /\ clashed' = clashed \cup {a}
       \/ /\ Goes(c, "unpoint_load")
          /\ UNCHANGED <<assetRows, links, removed, clashed>>
    /\ UNCHANGED <<store, mem, calls, crashes, drift, albumRows, present, index, dropped, stale,
                   overwrote, reapplied>>

\* The deletion failed, so its restore point goes.
DropPoint(c) ==
    /\ pc[c] = "unpoint_write"
    /\ WriteIndex(c, Without(mem[c].index, {mem[c].point}))
    /\ Goes(c, "journal_failed")
    /\ UNCHANGED <<store, mem, calls, crashes, drift, database, present, dropped,
                   removed, clashed, reapplied>>

JournalRemoval(c) ==
    LET status == IF pc[c] = "journal_applied" THEN "applied" ELSE "failed" IN
    /\ pc[c] \in {"journal_applied", "journal_failed"}
    /\ Appends(mem[c].run, Entry(mem[c].asset, status, FALSE, None, None))
    /\ Holds(c, [mem[c] EXCEPT !.done = @ \cup {status}, !.asset = None, !.point = None])
    /\ Goes(c, IF mem[c].flow = "apply" THEN "apply_item" ELSE "restore_item")
    /\ UNCHANGED <<runs, calls, crashes, drift, missVars>>

FinishRun(c) ==
    /\ pc[c] \in {"apply_item", "restore_item"} /\ mem[c].todo = {}
    /\ Finish(mem[c].run, FinalStatus(mem[c].done))
    /\ Leaves(c)
    /\ UNCHANGED <<journal, calls, crashes, drift, missVars>>

-----------------------------------------------------------------------------
(* Restore and deletion of restore points.                                  *)

\* restore works on the points as the index lists them now.
StartRestore(c, r, ids) ==
    /\ Call(c) /\ runs[r] = None
    /\ CreateRun(r, NewRun("restore", "running", ids, ids))
    /\ Holds(c, [Idle EXCEPT !.flow = "restore", !.run = r,
                             !.todo = {p \in index : p.id \in ids}])
    /\ Goes(c, "restore_item")
    /\ UNCHANGED <<journal, crashes, drift, missVars>>

SkipRestored(c) ==
    /\ pc[c] = "restore_item"
    /\ \E p \in mem[c].todo :
          /\ p.status = "restored"
          /\ Appends(mem[c].run, Entry(p.asset, "skipped", FALSE, None, None))
          /\ Holds(c, [mem[c] EXCEPT !.todo = @ \ {p}])
    /\ UNCHANGED <<runs, pc, calls, crashes, drift, missVars>>

\* The keys of the rows are free, and the albums they refer to are there.
Insertable(p) ==
    /\ p.asset \notin assetRows
    /\ \A l \in p.links : l[1] \in albumRows /\ l \notin links

InsertRows(c) ==
    /\ pc[c] = "restore_item"
    /\ \E p \in mem[c].todo :
          /\ p.status # "restored"
          /\ Holds(c, [mem[c] EXCEPT !.todo = @ \ {p}, !.asset = p.asset,
                                     !.links = p.links, !.point = p.id])
          /\ \/ /\ Insertable(p)
                /\ assetRows' = assetRows \cup {p.asset}
                /\ links' = links \cup p.links
                /\ removed' = [removed EXCEPT ![p.asset] = None]
                /\ clashed' = IF p.asset \in UnderApply THEN clashed \cup {p.asset} ELSE clashed
                /\ Goes(c, "restored_load")
             \/ /\ UNCHANGED <<assetRows, links, removed, clashed>>
                /\ Goes(c, "journal_failed")
    /\ UNCHANGED <<store, calls, crashes, drift, albumRows, present, index, dropped,
                   stale, overwrote, reapplied>>

\* update puts the point into the index again, also when it was deleted.
PointRestored(c) ==
    /\ pc[c] = "restored_write"
    /\ WriteIndex(c, With(mem[c].index, [id |-> mem[c].point, asset |-> mem[c].asset,
                                          links |-> mem[c].links, status |-> "restored"]))
    /\ Goes(c, "journal_applied")
    /\ UNCHANGED <<store, mem, calls, crashes, drift, database, present, dropped,
                   removed, clashed, reapplied>>

DeletePoints(c, ids) ==
    /\ Call(c)
    /\ Holds(c, [Idle EXCEPT !.flow = "delete", !.todo = ids])
    /\ Goes(c, "delete_load")
    /\ UNCHANGED <<store, crashes, drift, missVars>>

DeleteWrite(c) ==
    /\ pc[c] = "delete_write"
    /\ WriteIndex(c, Without(mem[c].index, mem[c].todo))
    /\ dropped' = dropped \cup mem[c].todo
    /\ Leaves(c)
    /\ UNCHANGED <<store, calls, crashes, drift, database, present, removed, clashed,
                   reapplied>>

-----------------------------------------------------------------------------
(* Album links whose asset or album is gone (ConsistencyRepairService).     *)

Orphans == {l \in links : l[1] \notin albumRows \/ l[2] \notin assetRows}

CollectOrphans(c) ==
    /\ Call(c) /\ Orphans # {}
    /\ Holds(c, [Idle EXCEPT !.flow = "orphans", !.todo = Orphans])
    /\ Goes(c, "orphans")
    /\ UNCHANGED <<store, crashes, drift, missVars>>

\* The delete statement looks again that the other row does not exist.
StillOrphan(l) == l \in Orphans

DeleteOrphan(c) ==
    /\ pc[c] = "orphans"
    /\ \E l \in mem[c].todo :
          /\ links' = IF StillOrphan(l) THEN links \ {l} ELSE links
          /\ IF mem[c].todo = {l} THEN Leaves(c)
             ELSE Holds(c, [mem[c] EXCEPT !.todo = @ \ {l}]) /\ UNCHANGED pc
    /\ UNCHANGED <<store, calls, crashes, drift, assetRows, albumRows, present, index,
                   dropped, removed, clashed, stale, overwrote, reapplied>>

-----------------------------------------------------------------------------
(* Immich and its users.                                                    *)

Outside == drift < MaxDrift /\ drift' = drift + 1

FileChanges(a) ==
    /\ Outside
    /\ present' = IF a \in present THEN present \ {a} ELSE present \cup {a}
    /\ clashed' = IF a \in UnderApply THEN clashed \cup {a} ELSE clashed
    /\ UNCHANGED <<store, pc, mem, calls, crashes, database, index, dropped, removed,
                   stale, overwrote, reapplied>>

LinkAdded(l) ==
    /\ Outside /\ l \notin links /\ l[1] \in albumRows /\ l[2] \in assetRows
    /\ links' = links \cup {l}
    /\ clashed' = IF l[2] \in UnderApply THEN clashed \cup {l[2]} ELSE clashed
    /\ UNCHANGED <<store, pc, mem, calls, crashes, assetRows, albumRows, present, index,
                   dropped, removed, stale, overwrote, reapplied>>

\* An album goes; without a foreign key its links stay.
AlbumGone(b) ==
    /\ Outside /\ b \in albumRows
    /\ albumRows' = albumRows \ {b}
    /\ UNCHANGED <<store, pc, mem, calls, crashes, assetRows, links, present, index,
                   dropped, removed, clashed, stale, overwrote, reapplied>>

MissCrash ==
    /\ stale' = {}
    /\ UNCHANGED <<database, present, index, dropped, removed, clashed, overwrote, reapplied>>

MissStep(c) ==
    \/ AlreadyRemoved(c) \/ Capture(c) \/ LoadIndex(c) \/ CreatePoint(c) \/ RemoveRows(c)
    \/ DropPoint(c) \/ JournalRemoval(c) \/ FinishRun(c) \/ SkipRestored(c) \/ InsertRows(c)
    \/ PointRestored(c) \/ DeleteWrite(c) \/ DeleteOrphan(c)

MissCall(c) ==
    \/ \E r \in Runs : \/ \E asked \in (SUBSET Assets) \ {{}} : Preview(c, r, asked)
                       \/ StartApply(c, r)
                       \/ \E ids \in (SUBSET Points) \ {{}} : StartRestore(c, r, ids)
    \/ \E ids \in (SUBSET Points) \ {{}} : DeletePoints(c, ids)
    \/ CollectOrphans(c)

MissNext ==
    \/ \E c \in Callers : MissStep(c) \/ MissCall(c)
    \/ \E a \in Assets : FileChanges(a)
    \/ \E l \in Link : LinkAdded(l)
    \/ \E b \in Albums : AlbumGone(b)

-----------------------------------------------------------------------------
MissTypeOK ==
    /\ assetRows \subseteq Assets /\ albumRows \subseteq Albums /\ links \subseteq Link
    /\ present \subseteq Assets
    /\ index \subseteq Point
    /\ \A p, q \in index : p.id = q.id => p = q

\* Whatever an apply has removed can be brought back: while the row is gone, the
\* index has an available restore point with all the links that went with it.
\* It holds through failures and crashes between capture, point, deletion and
\* journal; set aside are points a user deleted, index files written over a
\* newer one, and assets that Immich or a restore changed under the apply.
RemovedRecoverable ==
    \A a \in Assets \ clashed :
        removed[a] # None /\ a \notin assetRows /\ ~overwrote =>
            \/ \E p \in index : p.asset = a /\ p.status = "available" /\ removed[a] \subseteq p.links
            \/ dropped # {}

\* An apply removes no row whose file it could read: one it removed was missing
\* at the guard, unless the file came back under the apply.
PresentKept ==
    [][\A a \in assetRows \ assetRows' :
          \A c \in Callers : pc[c] = "remove_rows" /\ mem[c].asset = a /\ pc'[c] # pc[c] =>
              a \notin present \/ a \in clashed]_<<journalVars, missVars>>

\* A finished run tells what its journal tells: completed without a failure,
\* failed without an applied change, partial with both.  A run that is applied
\* again is set aside: its guard fails and the run is rewritten as failed.
RunTruthful ==
    \A r \in Runs \ reapplied :
        runs[r] # None =>
            /\ runs[r].status = "completed" => Having(r, "failed") = {}
            /\ runs[r].status = "failed" => Having(r, "applied") = {}
            /\ runs[r].status = "partial" => Having(r, "applied") # {} /\ Having(r, "failed") # {}
=============================================================================
