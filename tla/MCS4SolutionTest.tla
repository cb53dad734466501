--------------------------- MODULE MCS4SolutionTest ---------------------------
(***************************************************************************)
(* Small instances of S4SolutionTest for TLC.                              *)
(***************************************************************************)
EXTENDS S4SolutionTest, TLC

CONSTANTS r1, p1, p2, p3, g1, c1, dns1

MCRoots     == {r1}
MCPids      == {r1, p1, p2, p3}
MCInstances == {g1, c1, dns1}

MCNames     == {Site1, Site2}
MCStatics   == MCNames \cup {"dnsmasq"}
MCPrefix    == (Site1 :> "127.0.1." @@ Site2 :> "127.0.2.")

(* A chronos in the site that is killed and a rogers in the other: the     *)
(* servers that read files.                                                *)
MCMemcacheds == [n \in MCNames |-> << >>]
MCRogerses   == (Site1 :> << >> @@ Site2 :> <<g1>>)
MCChronoses  == (Site1 :> <<c1>> @@ Site2 :> << >>)
=============================================================================
