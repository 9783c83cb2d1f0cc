------------------------------ MODULE MCTracer ------------------------------
(* Instances of Tracer for TLC. *)
EXTENDS Tracer, TLC

CONSTANTS m, k1, k2

TwoKids == {k1, k2}
NoKids  == {}

AllEvents    == Events
ProgramOnly  == {"signal", "exec", "exit", "write", "other_child"}

ExitOnly     == {"exit"}
WithKill     == {"kill", "signal"}

=============================================================================
