--------------------------- MODULE MCTunnelLifecycle ---------------------------
(* TunnelLifecycle for TLC: the members of each constant set are interchangeable. *)
EXTENDS TunnelLifecycle, TLC

Symmetry == Permutations(Sessions) \cup Permutations(Agents)
                \cup Permutations(Addresses) \cup Permutations(Tunnels)
================================================================================
