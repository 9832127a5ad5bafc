------------------------------ MODULE MCTunnelFlow ------------------------------
(* TunnelFlow for TLC: requests are interchangeable. *)
EXTENDS TunnelFlow, TLC

Symmetry == Permutations(Requests)
================================================================================
