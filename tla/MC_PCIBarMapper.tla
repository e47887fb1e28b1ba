--------------------------- MODULE MC_PCIBarMapper ---------------------------
(***************************************************************************)
(* A PC-like topology: an IDE controller and a NIC (expansion ROM) on the  *)
(* host bus, a PCI-to-PCI bridge on the host bus and a display function   *)
(* behind it.                                                              *)
(* Scale: the 32-bit memory space is 0..31, ports 0..15, a bridge memory   *)
(* window unit is 8. The BAR values cover an unmapped 0, two aligned       *)
(* addresses (8 with the ROM enable bit set, 16 without; 16 is beyond the *)
(* 16-bit port space) and the all-ones sizing probe.                     *)
(***************************************************************************)
EXTENDS PCIBarMapper

MC_Devices == {"ide", "nic", "br", "vga"}
MC_Bridges == {"br"}
MC_BusOf == [d \in MC_Devices |-> IF d = "vga" THEN "pci.1" ELSE "pci.0"]
MC_ParentDev == [b \in {"pci.1"} |-> "br"]
MC_Regions == {"ide.io", "nic.rom", "vga.mem"}
MC_RegDev == [r \in MC_Regions |->
                CASE r = "ide.io" -> "ide" [] r = "nic.rom" -> "nic"
                  [] r = "vga.mem" -> "vga"]
MC_RegIdx == [r \in MC_Regions |-> CASE r = "nic.rom" -> 6 [] r = "ide.io" -> 1 [] OTHER -> 0]
MC_RegType == [r \in MC_Regions |-> IF r = "ide.io" THEN "io" ELSE "mem"]
MC_RegSize == [r \in MC_Regions |-> IF r = "ide.io" THEN 4 ELSE 8]
MC_UpdateOrder == <<"ide", "nic", "br", "vga">>
MC_CmdValues == {[io |-> FALSE, mem |-> FALSE], [io |-> TRUE, mem |-> TRUE]}
=============================================================================
