------------------------------ MODULE MC_VmRun ------------------------------
(* Two vCPUs on the TCG thread, -no-shutdown, reboots allowed. *)
EXTENDS VmRun

CONSTANTS c1, c2

MC_CpuList == <<c1, c2>>
=============================================================================
