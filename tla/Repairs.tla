------------------------------ MODULE Repairs ------------------------------
(***************************************************************************)
(* The repairs that write repair runs, on one store: permission repair and *)
(* its undo, the removal of missing assets and its restore, and the repair *)
(* of album links.  They share the runs, the journals and the threads that *)
(* serve requests; an undo or an apply may name a run of the other kind.   *)
(***************************************************************************)
EXTENDS PermissionRepair, MissingAssets

\* A diagnostic, a finding, and the entries of a journal.
Diagnostic == [source : Sources,
               cause : {RootCause(status) : status \in ContentStatus \cup {"missing", "permission_denied"}}]
Finding == [asset : Assets, status : {"present", "missing_on_disk"}]
UndoEntry == [item : Sources, status : {"applied"}, undo : {TRUE}, old : Modes, new : Modes]
PlainEntry == [item : Sources \cup Assets, status : EntryStatus, undo : {FALSE},
               old : {None}, new : {None}]

\* The run files of the four kinds, each with what its token is made of.
RunOf(kind, scopes, tokens) ==
    [kind : {kind}, status : RunStatus, scope : scopes, token : tokens, snapshot : BOOLEAN]
FixRun == RunOf("fix", SUBSET Diagnostic, SUBSET Diagnostic)
UndoRun == RunOf("undo", Runs, SUBSET UndoEntry)
RemoveRun == RunOf("remove", SUBSET Assets, SUBSET Finding)
RestoreRun == RunOf("restore", SUBSET Points, SUBSET Points)
ASSUME NoRunAssumption ==
    /\ None \notin FixRun \cup UndoRun \cup RemoveRun \cup RestoreRun
    /\ None \notin Points \cup Assets

vars == <<journalVars, permVars, missVars>>

Init == JournalInit /\ PermInit /\ MissInit

Crash == JournalCrash /\ PermCrash /\ MissCrash

Next ==
    \/ PermNext /\ UNCHANGED missVars
    \/ MissNext /\ UNCHANGED permVars
    \/ Crash

Spec == Init /\ [][Next]_vars

TypeOK == JournalTypeOK /\ PermTypeOK /\ MissTypeOK
=============================================================================
