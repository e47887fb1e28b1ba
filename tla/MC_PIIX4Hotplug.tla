---------------------------- MODULE MC_PIIX4Hotplug ----------------------------
(***************************************************************************)
(* The host bus of the PC: the PIIX function in slot 1 (no_hotplug), a    *)
(* cold-plugged hot-pluggable block device in slot 7, and two NICs that   *)
(* may each be hot-added into slot 3, so a slot is reused after an eject.  *)
(* Host-bus map_irq is the PIIX3 swizzle (pin + slot - 1) & 3: the INTA   *)
(* of slot 3 and of slot 7 share line 2; the PIIX's INTA is on line 0.    *)
(***************************************************************************)
EXTENDS PIIX4Hotplug

PiixMapIrq == [sp \in (0..7) \X (0..3) |-> (sp[2] + sp[1] - 1) % 4]

MC_Devices == {"piix", "blk", "nic", "nic2"}
MC_SlotOf == [d \in MC_Devices |->
               CASE d = "piix" -> 1 [] d = "blk" -> 7 [] OTHER -> 3]
MC_BusOf == [d \in MC_Devices |-> "pci.0"]
MC_MapIrq == [b \in {"pci.0"} |-> PiixMapIrq]
MC_ParentDev == [b \in {} |-> [bus |-> "pci.0", slot |-> 0]]
=============================================================================
