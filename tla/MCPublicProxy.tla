----------------------------- MODULE MCPublicProxy -----------------------------
(* PublicProxy for TLC: requests and sessions are interchangeable. *)
EXTENDS PublicProxy, TLC

Symmetry == Permutations(Requests) \cup Permutations(Sessions)
================================================================================
