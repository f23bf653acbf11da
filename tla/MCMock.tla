------------------------------- MODULE MCMock -------------------------------
(* Small instances of MockServer for TLC.                                  *)
EXTENDS MockServer

CONSTANTS i1, i2, t1, t2

MCIds == {i1, i2}
MCTokens == {t1, t2}
=============================================================================
