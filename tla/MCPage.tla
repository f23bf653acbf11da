------------------------------- MODULE MCPage -------------------------------
(* Small instances of CheckoutPage for TLC.                                *)
EXTENDS CheckoutPage

CONSTANTS m1, m2

MCMemos == {m1, m2}
=============================================================================
