---------------------------- MODULE MCRateLimit ----------------------------
(* Instances of RateLimit for TLC. *)
EXTENDS RateLimit, TLC

(* The requests are interchangeable. *)
Symmetry == Permutations(Requests)
============================================================================
