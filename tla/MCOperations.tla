---------------------------- MODULE MCOperations ----------------------------
(***************************************************************************)
(* The repair of a corrupted database, the estimate of the backup size and *)
(* the catalog jobs over several roots.  They share the threads and no     *)
(* state, so the run takes each by itself.                                 *)
(***************************************************************************)
EXTENDS DbCorruption, SizeEstimate, CatalogWorkflow, TLC

CONSTANTS
    c1, c2, r1, r2, a1, a2, b1, b2, u1, i1, j1, j2, j3,
    library, profile, old, new, above, beside

CONSTANT Services  \* those a run takes

VARIABLE service

MCKeyOf == [a \in Assets |-> CASE a \in {a1, a2} -> 1 [] a \in {b1, b2} -> 2 [] OTHER -> None]

Asks(asked, text, approval, force) ==
    [asked |-> asked, backup |-> TRUE, maintenance |-> TRUE, text |-> text,
     approval |-> approval, force |-> force]

\* One copy of several, with a row that has no checksum and with the whole repair;
\* all copies of a group beside one of another; a request without a backup.
MCRequests ==
    {request \in {Asks({a1, u1}, TRUE, FALSE, FALSE), Asks({a1}, TRUE, TRUE, TRUE),
                  Asks({a1, a2, b1}, FALSE, FALSE, FALSE),
                  [Asks({a2}, FALSE, FALSE, FALSE) EXCEPT !.backup = FALSE]} :
        request.asked \subseteq Assets}

MCRootOrder == <<library, profile>>
MCBelow == {<<p, p>> : p \in {old, new, above, beside}} \cup {<<above, beside>>}

\* The library is moved, or comes to contain the other root.
MCLayouts ==
    {[r \in {library, profile} |-> IF r = profile THEN beside ELSE place] :
        place \in {old, new, above}}

MCInit ==
    /\ service \in Services
    /\ JournalInit /\ CorrInit /\ EstInit /\ WfInit
    /\ superuser = ~busy /\ badSystem = toast
    /\ IF service = "corruption" THEN assetRows \in {Assets, Assets \ {u1}}
       ELSE assetRows = {} /\ toast = FALSE /\ badUser = {} /\ busy = FALSE
    /\ service # "workflow" => layout[library] = old

MCNext ==
    /\ UNCHANGED service
    /\ \/ service = "corruption" /\ CorrNext /\ UNCHANGED <<estVars, wfVars>>
       \/ service = "estimate" /\ EstNext /\ UNCHANGED <<corrVars, wfVars>>
       \/ service = "workflow" /\ WfNext /\ UNCHANGED <<journalVars, corrVars, estVars>>

MCSpec == MCInit /\ [][MCNext]_<<journalVars, corrVars, estVars, wfVars, service>>

Symm == Permutations(Callers) \cup Permutations(Runs) \cup Permutations(Jobs)
=============================================================================
