------------------------------- MODULE MCSite -------------------------------
(***************************************************************************)
(* Small instances of Site for TLC.                                        *)
(***************************************************************************)
EXTENDS Site, TLC

CONSTANTS site1, site2

MCNames2  == {site1, site2}
MCPrefix2 == (site1 :> "127.0.1." @@ site2 :> "127.0.2.")
=============================================================================
