-------------------------- MODULE MCProcessInstance --------------------------
(***************************************************************************)
(* Small instances of ProcessInstance for TLC.                             *)
(***************************************************************************)
EXTENDS ProcessInstance, TLC

CONSTANTS r1, r2, p1, p2, p3, mc, ch, none

MCOneRoot  == {r1}
MCTwoRoots == {r1, r2}
MCInstances    == {mc, ch}
MCOneInstance  == {mc}
MCPids2 == {r1, p1, p2}
MCPids3 == {r1, p1, p2, p3}
MCPidsTwoRoots == {r1, r2, p1, p2}

(* The children are interchangeable: no constant names one of them.        *)
MCSymmetry2 == Permutations(MCPids2 \ {r1}) \cup Permutations(MCInstances)
=============================================================================
