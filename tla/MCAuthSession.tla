----------------------------- MODULE MCAuthSession -----------------------------
(* AuthSession for TLC: pages, calls and tokens are interchangeable. *)
EXTENDS AuthSession, TLC

Symmetry == Permutations(Pages) \cup Permutations(Calls) \cup Permutations(Tokens)
================================================================================
