--------------------------- MODULE MCCatalogScan ---------------------------
(* Model values and symmetry for TLC runs of CatalogScan.                   *)
EXTENDS CatalogScan, TLC

CONSTANTS w1, w2, i1, i2, i3, i4
TwoWorkers == {w1, w2}
TwoItems == {i1, i2}
ThreeItems == {i1, i2, i3}
FourItems == {i1, i2, i3, i4}
Symmetric == Permutations(TwoWorkers) \cup Permutations(ThreeItems)
=============================================================================
