------------------------------ MODULE MC_PCIIrq ------------------------------
(***************************************************************************)
(* Topologies for PCIIrq. The host bus map_irq is the PIIX3 PIRQ swizzle,  *)
(* pci_slot_get_pirq: (pin + slot - 1) & 3; a bridge's secondary bus uses *)
(* the usual bridge swizzle (pin + slot) % 4 (both supplied by the board  *)
(* code that calls pci_register_bus / pci_bridge_init).                   *)
(***************************************************************************)
EXTENDS PCIIrq

PiixMapIrq == [sp \in (0..7) \X (0..3) |-> (sp[2] + sp[1] - 1) % 4]
BridgeMapIrq == [sp \in (0..7) \X (0..3) |-> (sp[2] + sp[1]) % 4]

MC_Buses == {"pci.0", "pci.1"}
MC_RootBus == "pci.0"
MC_MapIrq == [b \in MC_Buses |-> IF b = "pci.0" THEN PiixMapIrq ELSE BridgeMapIrq]
MC_Pins == 0..1
MC_AllPins == 0..3
MC_Lines == 0..3

(* nic on the host bus and a function in slot 0 behind a bridge that sits *)
(* in slot 3 of the host bus; the bridged INTA lands on line 2.           *)
Bridged_Devices == {"nic", "bdev"}
Bridged_BusOf == [d \in Bridged_Devices |-> IF d = "nic" THEN "pci.0" ELSE "pci.1"]
Bridged_SlotOf == [d \in Bridged_Devices |-> IF d = "nic" THEN 1 ELSE 0]
MC_ParentDev == [b \in {"pci.1"} |-> [bus |-> "pci.0", slot |-> 3]]
=============================================================================
