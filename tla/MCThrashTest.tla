---------------------------- MODULE MCThrashTest ----------------------------
(***************************************************************************)
(* Small instances of ThrashTest for TLC.                                  *)
(***************************************************************************)
EXTENDS ThrashTest

CONSTANTS t1, t2, t3

MCThreads3 == {t1, t2, t3}
=============================================================================
