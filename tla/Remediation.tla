----------------------------- MODULE Remediation -----------------------------
(***************************************************************************)
(* The services of the consistency workspace: catalog remediation, the     *)
(* quarantine of files with the ignored findings, and that of directories. *)
(* They share the threads and no state, so a behaviour is that of one of   *)
(* them.                                                                   *)
(***************************************************************************)
EXTENDS CatalogRemediation, FileQuarantine, EmptyDirs

VARIABLE service

vars == <<journalVars, remVars, quarVars, dirVars, service>>

Init ==
    /\ service \in {"catalog", "files", "directories"}
    /\ JournalInit /\ RemInit /\ QuarInit /\ DirInit

Next ==
    /\ UNCHANGED service
    /\ \/ service = "catalog" /\ RemNext /\ UNCHANGED <<quarVars, dirVars>>
       \/ service = "files" /\ QuarNext /\ UNCHANGED <<remVars, dirVars>>
       \/ service = "directories" /\ DirNext /\ UNCHANGED <<remVars, quarVars>>

Spec == Init /\ [][Next]_vars

-----------------------------------------------------------------------------
\* No file is lost by a quarantine: neither one that was quarantined by itself nor
\* one that was in a directory, as FilesKept and DirFilesKept say.
QuarantineKeeps == FilesKept /\ DirFilesKept

\* The indexes of both quarantines tell what is in them, and the list of ignored
\* findings which of them were not released, as FileIndexTrue, DirIndexTrue and
\* IgnoredStays say.
IndexesTrue == FileIndexTrue /\ DirIndexTrue /\ IgnoredStays
=============================================================================
