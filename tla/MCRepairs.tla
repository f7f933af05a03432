----------------------------- MODULE MCRepairs -----------------------------
(***************************************************************************)
(* Two assets share a file whose content is sound; one of two assets of    *)
(* the album holds only values that JSON can hold.                         *)
(***************************************************************************)
EXTENDS Repairs, TLC

CONSTANTS c1, c2, r1, r2, s1, s2, f1, a1, a2, b1, p1

MCPathOf == (s1 :> f1) @@ (s2 :> f1)
MCContent == f1 :> "ok"
MCFlagSets == {{}}

\* The database has assets that may be missing and perhaps a restore point of
\* an earlier restore, or assets without metadata that cannot be read.
MCInit ==
    /\ Init
    /\ \/ /\ candidates = {} /\ mode = [f \in Files |-> {"r"}] /\ assetRows = Assets
          /\ \A p \in index : p.asset = a1 /\ p.links = {} /\ present = {} /\ links = {}
       \/ /\ candidates \in {Sources, {s1}} /\ mode \in {[f \in Files |-> {}], [f \in Files |-> {"r"}]}
          /\ assetRows = {} /\ index = {}

MCSpec == MCInit /\ [][Next]_vars

Symm == Permutations(Callers) \cup Permutations(Runs)
=============================================================================
