----------------------------- MODULE MCLightning -----------------------------
(* Small instances of LightningPass for TLC.                               *)
EXTENDS LightningPass

CONSTANTS h1, h2, i1, i2

MCHashes == {h1, h2}
MCIds == {i1, i2}
=============================================================================
