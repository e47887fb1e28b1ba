---------------------------- MODULE MC_AssignedIrq ----------------------------
(***************************************************************************)
(* One assigned device with a two-vector MSI-X table and two PIRQ lines   *)
(* its INTx pin can be routed to. The GSI pool has either two free GSIs    *)
(* (enough for every vector, so exhaustion only follows a leak) or one,    *)
(* so that programming both vectors runs kvm_get_irq_route_gsi dry.       *)
(***************************************************************************)
EXTENDS AssignedIrq

MC_GuestIrqs == {10, 11}
MC_GSIs == {24, 25}
MC_OneGsi == {24}

(* The PIRQ route never changes: assign_irq always finds girq current. *)
MC_OneGuestIrq == {10}
=============================================================================
