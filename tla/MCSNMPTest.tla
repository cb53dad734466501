----------------------------- MODULE MCSNMPTest -----------------------------
(***************************************************************************)
(* SNMPTest for TLC: every second of a period of five minutes as a start.  *)
(***************************************************************************)
EXTENDS SNMPTest

MCStarts == 300..599
=============================================================================
