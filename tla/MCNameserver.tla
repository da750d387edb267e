---------------------------- MODULE MCNameserver -----------------------------
(***************************************************************************)
(* Instances of Nameserver for TLC.                                        *)
(***************************************************************************)
EXTENDS Nameserver, TLC

\* Everything fails that can.
AllFaults == {"init", "shutdown"}

\* The networks differ in nothing but their name.
Symmetry == Permutations(Networks)
=============================================================================
