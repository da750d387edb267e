---------------------------- MODULE MCServiceLb -----------------------------
(***************************************************************************)
(* Instances of ServiceLb for TLC.  Everything but the changes is          *)
(* interchangeable; networks are where all of them are known at the start. *)
(***************************************************************************)
EXTENDS ServiceLb, TLC

Symmetry == Permutations(Calls) \cup Permutations(Containers) \cup Permutations(Vips)
=============================================================================
