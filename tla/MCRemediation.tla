---------------------------- MODULE MCRemediation ----------------------------
(***************************************************************************)
(* One kind of left-over file, and only the state of the service that is   *)
(* called varies.                                                          *)
(***************************************************************************)
EXTENDS Remediation, TLC

CONSTANTS c1, c2, r1, a1, a2, p1, p2, h1, n1, n2, x, empty, f1, f2, g1, g2, g3, i1, i2, m1, m2,
          d1, d2, s1, s2, x1

MCRootOf == [p \in {p1, p2, h1} |-> "uploads"]
MCNameOf == [i \in {p1, p2, h1, a1, a2} |-> IF i = h1 THEN n2 ELSE n1]
MCChecksum == (a1 :> x) @@ (a2 :> None)
MCDerivative == [a \in {a1, a2} |-> None]
MCListOrder == <<p1, p2, h1>>

\* An asset whose file is there, moved or gone, or a hidden file; the services
\* that are not called stay in one state.
CatalogInit ==
    IF service = "catalog"
    THEN \/ disk[h1] = None /\ tool = "inspects" /\ original = (a1 :> p1) @@ (a2 :> None)
         \/ disk = (p1 :> x) @@ (p2 :> None) @@ (h1 :> x) /\ original = [a \in Assets |-> None]
    ELSE /\ disk = [p \in Paths |-> None] /\ tool = "inspects"
         /\ original = [a \in Assets |-> None]

MCInit ==
    /\ Init
    /\ CatalogInit
    /\ IF service = "files" THEN source[f1] = g1 /\ source[f2] \in {g2, None}
       ELSE source = [f \in Findings |-> None]
    /\ service # "directories" => tree = [d \in Dirs |-> None]

MCSpec == MCInit /\ [][Next]_vars

Symm == Permutations(Callers)
=============================================================================
