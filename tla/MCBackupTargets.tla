-------------------------- MODULE MCBackupTargets --------------------------
(* An instance of BackupTargets. *)
EXTENDS BackupTargets, TLC

MCPayload(kind, enabled, secret) ==
    [kind |-> kind, enabled |-> enabled, strict |-> TRUE, secret |-> secret]

CONSTANT s1
MCPayloads ==
    {MCPayload("local", TRUE, "keep"), MCPayload("agent", TRUE, "keep"),
     MCPayload("private_key", TRUE, "new"), MCPayload("private_key", TRUE, "keep"),
     MCPayload("password", FALSE, s1)}

MCSymmetry == Permutations(Callers) \cup Permutations(Targets) \cup Permutations(Jobs)
=============================================================================
