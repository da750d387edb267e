----------------------------- MODULE MCFwmarks ------------------------------
(***************************************************************************)
(* Instances of Fwmarks for TLC.                                           *)
(***************************************************************************)
EXTENDS Fwmarks

\* Everything fails that can.
AllFaults == {"etcd", "kernel", "crash", "reboot"}
=============================================================================
