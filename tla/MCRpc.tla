------------------------------- MODULE MCRpc -------------------------------
(* Instances of Rpc for TLC. *)
EXTENDS Rpc, TLC

CONSTANTS c1

OneCaller == {c1}

=============================================================================
