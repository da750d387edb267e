-------------------------- MODULE MCContainerData ---------------------------
(***************************************************************************)
(* Instances of ContainerData for TLC.                                     *)
(***************************************************************************)
EXTENDS ContainerData

\* Everything fails that can.
AllFaults == {"etcd", "docker", "crash"}
=============================================================================
