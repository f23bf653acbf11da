----------------------------- MODULE MCRecovery -----------------------------
(* Small instances of RecoveryPage for TLC.                                *)
EXTENDS RecoveryPage

CONSTANTS m1, m2

MCMemos == {m1, m2}
=============================================================================
