---------------------------- MODULE MCAssetBackup ----------------------------
(* Model values for TLC runs of AssetBackup.                                *)
EXTENDS AssetBackup

CONSTANTS a1, a2, c1
OneAsset == {a1}
TwoAssets == {a1, a2}
OneCaller == {c1}
=============================================================================
