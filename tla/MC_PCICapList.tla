---------------------------- MODULE MC_PCICapList ----------------------------
(* A function with 12 config bytes, a 4-byte header and the list head in  *)
(* byte 1. Three capability kinds of sizes 3, 4 and 2 (MSI, MSI-X and a    *)
(* vendor capability), added at found offsets or at host positions 4 and  *)
(* 6, so explicit adds overlap and found space fragments. MC_EdgeOffsets   *)
(* adds host position 10, two bytes from the end, as a malformed host     *)
(* chain can place a capability (pci_find_cap_offset accepts any pos).    *)
(*                                                                         *)
(* Host devices for assignment, as their config bytes 0..11 (byte 1 the   *)
(* head; at a capability: ID, NEXT and, for a vendor one, its length),    *)
(* with positions aligned to 2 (0x40 and 4 scaled down).                  *)
EXTENDS PCICapList, TLC

MC_CapIds == {5, 9, 17}
MC_CapSize == (5 :> 3) @@ (17 :> 4) @@ (9 :> 2)
MC_Offsets == {0, 4, 6}
MC_EdgeOffsets == {0, 4, 10}
MC_GuestAddrs == {5, 8, 10}
MC_GuestVals == {0, 6}

HostOf(seq, caplist) == [bytes |-> [i \in 0..11 |-> seq[i + 1]], caplist |-> caplist]

MC_HostConfigs == {
  \* MSI at 8, then a vendor capability of length 3 at 4
  HostOf(<<0, 8, 0, 0,   9, 0, 3, 0,   5, 4, 0, 0>>, TRUE),
  \* MSI-X at 4, then MSI at 8
  HostOf(<<0, 4, 0, 0,   17, 8, 0, 0,  5, 0, 0, 0>>, TRUE),
  \* misaligned pointers (9, 5) and a list ending with a pointer into the header
  HostOf(<<0, 9, 0, 0,   9, 2, 3, 0,   5, 5, 0, 0>>, TRUE),
  \* MSI at 4 and an unsupported ID 18 at 8 pointing back to 4
  HostOf(<<0, 4, 0, 0,   5, 8, 0, 0,   18, 4, 0, 0>>, TRUE),
  \* two vendor capabilities pointing at each other
  HostOf(<<0, 4, 0, 0,   9, 8, 3, 0,   9, 4, 3, 0>>, TRUE),
  \* MSI at 4, MSI-X at 6 inside MSI's 3 bytes
  HostOf(<<0, 4, 0, 0,   5, 6, 17, 0,  0, 0, 0, 0>>, TRUE),
  \* an ID of 0xff at the head
  HostOf(<<0, 4, 0, 0,   255, 0, 0, 0, 0, 0, 0, 0>>, TRUE),
  \* a list, but the status bit clear
  HostOf(<<0, 4, 0, 0,   5, 0, 0, 0,   0, 0, 0, 0>>, FALSE),
  \* two MSI capabilities
  HostOf(<<0, 4, 0, 0,   5, 8, 0, 0,   5, 0, 0, 0>>, TRUE)}

(* A vendor capability whose length byte says 1, before an unsupported    *)
(* capability at 10.                                                      *)
MC_ShortVendorHost == {HostOf(<<0, 8, 0, 0,   9, 10, 1, 0,   5, 4, 18, 0>>, TRUE)}

(* A vendor capability of length 0 whose NEXT points at itself. *)
MC_ZeroVendorHost == {HostOf(<<0, 4, 0, 0,   9, 4, 0, 0,   0, 0, 0, 0>>, TRUE)}
=============================================================================
