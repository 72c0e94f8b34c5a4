---------------------------- MODULE MCFlagCache ----------------------------
(* Instances of FlagCache for TLC; every constant is a set of model values, *)
(* a number or a Boolean that the configurations give directly.             *)
EXTENDS FlagCache
============================================================================
