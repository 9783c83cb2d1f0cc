---------------------------- MODULE MCNodeSandbox ----------------------------
(* Values of the constants of NodeSandbox for TLC.                         *)
EXTENDS NodeSandbox

CONSTANTS s1, s2

MCSandboxes == {s1, s2}

\* A crashed host takes no step: all its states are one.
WhileUp == IF host = "up" THEN vars ELSE <<host>>
=============================================================================
