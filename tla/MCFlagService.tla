--------------------------- MODULE MCFlagService ---------------------------
(* Instances of FlagService for TLC.                                        *)
EXTENDS FlagService, TLC

(* Keys are interchangeable.                                                *)
Symmetry == Permutations(Keys)
============================================================================
