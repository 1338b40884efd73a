------------------------------- MODULE MCCow -------------------------------
(* Small instances of Cow: the sizes are given by the configurations.      *)
EXTENDS Cow, TLC

AllPages == VPages

(* Neither the slots of the process table nor the pages of memory are told *)
(* apart by Cow: Init lets any slot be the first and any page be anywhere. *)
Symmetry == Permutations(Procs) \cup Permutations(Frames)
=============================================================================
