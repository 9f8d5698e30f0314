------------------------------- MODULE MCDmm -------------------------------
(* Values of the constants of Dmm for TLC. *)
EXTENDS Dmm

CONSTANTS c1, d1, d2

\* Every container mounts all devices.
MCMounts == [c \in Containers |-> Devices]
=============================================================================
