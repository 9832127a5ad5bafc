----------------------------- MODULE MCPublicEntry -----------------------------
(* PublicEntry for TLC: calls and tunnels are interchangeable. *)
EXTENDS PublicEntry, TLC

MCKeys == Tunnels \X (Clients \cup {Proxy})
Symmetry == Permutations(Calls) \cup Permutations(Tunnels)
================================================================================
