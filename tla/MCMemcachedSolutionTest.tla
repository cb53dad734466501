----------------------- MODULE MCMemcachedSolutionTest -----------------------
(***************************************************************************)
(* Small instances of MemcachedSolutionTest for TLC.                       *)
(***************************************************************************)
EXTENDS MemcachedSolutionTest

CONSTANTS r1, p1, p2, p3, p4, p5, m1, g1, dns

MCRoots     == {r1}
MCMemcached == <<m1>>
MCRogers    == <<g1>>
MCInstances == {m1, g1, dns}

(* One process per instance, and two more for restarts and fixes.          *)
MCPids3 == {r1, p1, p2, p3}
MCPids5 == {r1, p1, p2, p3, p4, p5}
=============================================================================
