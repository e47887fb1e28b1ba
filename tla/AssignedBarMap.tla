--------------------------- MODULE AssignedBarMap ---------------------------
(***************************************************************************)
(* How an assigned device's memory BARs reach the guest                   *)
(* (hw/device-assignment.c). A BAR whose host size is a multiple of the   *)
(* page is mapped straight into guest memory as KVM memory slots          *)
(* (assigned_dev_iomem_map, kvm_register_phys_mem / kvm_destroy_phys_mem).*)
(* A smaller BAR is trapped by QEMU (assigned_dev_iomem_map_slow,          *)
(* cpu_register_physical_memory of slow_bar_read/write). In either case   *)
(* the page holding the MSI-X table is trapped by msix_mmio so that QEMU  *)
(* sees the guest's vector writes, and the direct mapping is cut around    *)
(* it. pci_update_mappings (hw/pci.c) drives it: when a region's guest    *)
(* address changes it unassigns the old range and calls the region's      *)
(* map_func for the new one. free_assigned_device undoes it at unplug.    *)
(*                                                                         *)
(* Addresses are scaled: P plays TARGET_PAGE_SIZE (4K) and the host and    *)
(* guest address spaces are small ranges of integers. qmap is QEMU's      *)
(* physical memory map (which handler an address reaches), slots the KVM  *)
(* memory slots (guest start, length and the host address the start maps *)
(* to).                                                                   *)
(***************************************************************************)
EXTENDS Integers, FiniteSets, TLC

CONSTANTS
  Regions,    \* the valid memory BARs of the real device (region numbers)
  IoRegions,  \* its valid I/O-port BARs
  RawIo,      \* the I/O BARs whose sysfs resource file refused the 3-byte
              \* probe read with an error other than EINVAL (resource_fd = -1)
  Ide,        \* the device's class is 0x0101 (IDE)
  Real,       \* [Regions \cup IoRegions -> [base, size]]: real_device.regions
  MsixTable,  \* msix_table_addr: host address of the MSI-X table
  P,          \* TARGET_PAGE_SIZE
  GAddrs,     \* [Regions -> guest addresses] pci_update_mappings may choose
  GTop,       \* the guest addresses modelled are 0..GTop
  PAddrs,     \* [IoRegions -> guest ports] pci_update_mappings may choose
  PTop        \* the guest ports modelled are 0..PTop

Unmapped == -1            \* PCI_BAR_UNMAPPED
None == <<"unassigned">>  \* IO_MEM_UNASSIGNED
Msix == <<"msix_mmio">>   \* r_dev->mmio_index

GAddr == 0..GTop
Port == 0..PTop
Bars == Regions \cup IoRegions

VARIABLES
  addr,     \* [Regions -> GAddr \cup {Unmapped}]: PCIIORegion.addr in pci.c
  eph,      \* [Regions -> ...]: AssignedDevRegion.e_physbase
  esz,      \* [Regions -> ...]: AssignedDevRegion.e_size (0 = never mapped)
  qmap,     \* [GAddr -> handler]: QEMU's physical memory map
  slots,    \* set of [start, len, host]: KVM memory slots of the device
  iomap,    \* [Port -> None or <<"io", r>>]: the ioport handlers registered
  ioperm,   \* host ports KVM lets the vCPUs reach (kvm_add_ioperm_data)
  state     \* "running", "exited" (exit(1) after a failed slot) or "freed"

vars == <<addr, eph, esz, qmap, slots, iomap, ioperm, state>>

PageAlign(x) == ((x + P - 1) \div P) * P   \* TARGET_PAGE_ALIGN

(* cur_region->size & 0xFFF: the BAR is not a multiple of the page. *)
IsSlow(r) == Real[r].size % P /= 0

(* The test both map functions and the teardown use for "the MSI-X table *)
(* is in this BAR".                                                       *)
HoldsTable(r) == Real[r].base <= MsixTable /\ Real[r].base + Real[r].size >= MsixTable
TableOffset(r) == MsixTable - Real[r].base

Range(s, n) == {a \in GAddr : s <= a /\ a < s + n}
PRange(s, n) == {a \in Port : s <= a /\ a < s + n}
HostPorts(r) == Real[r].base .. (Real[r].base + Real[r].size - 1)

(* cpu_register_physical_memory(start, size, handler) *)
Register(m, s, n, h) == [a \in GAddr |-> IF a \in Range(s, n) THEN h ELSE m[a]]

(* kvm_register_phys_mem: a new slot; the kernel refuses one that overlaps *)
(* another, and the caller then exits.                                    *)
SlotOverlaps(sl, s, n) == \E x \in sl : Range(x.start, x.len) \cap Range(s, n) /= {}
AddSlot(sl, s, h, n) == sl \cup {[start |-> s, len |-> n, host |-> h]}

(* kvm_destroy_phys_mem: the slot starting at start goes. *)
DropSlot(sl, s) == {x \in sl : x.start /= s}

(* A map function that forgets to destroy the old slot after the MSI-X  *)
(* page when the BAR moves.                                               *)
FastSlotsKeepTail(r, sl0, old, first, e) ==
  LET size == Real[r].size
      off == TableOffset(r)
      host == Real[r].base
  IN IF HoldsTable(r)
     THEN LET s1 == IF off > 0 /\ ~first THEN DropSlot(sl0, old) ELSE sl0
              f1 == off > 0 /\ SlotOverlaps(s1, e, PageAlign(off))
              s2 == IF off > 0 /\ ~f1 THEN AddSlot(s1, e, host, PageAlign(off)) ELSE s1
              tail == size > off + P
              n == PageAlign(size - off - P)
              f2 == tail /\ ~f1 /\ SlotOverlaps(s2, e + off + P, n)
              s4 == IF tail /\ ~f1 /\ ~f2 THEN AddSlot(s2, e + off + P, host + off + P, n) ELSE s2
          IN [slots |-> s4, failed |-> f1 \/ f2]
     ELSE LET s1 == IF ~first THEN DropSlot(sl0, old) ELSE sl0
              f == SlotOverlaps(s1, e, PageAlign(size))
          IN [slots |-> IF f THEN s1 ELSE AddSlot(s1, e, host, PageAlign(size)), failed |-> f]

(* The slot calls of assigned_dev_iomem_map for region r moved from old   *)
(* (first = no earlier mapping) to e: a record of the new slots and       *)
(* whether a registration failed.                                         *)
FastSlots(r, sl0, old, first, e) ==
  LET size == Real[r].size
      off == TableOffset(r)
      host == Real[r].base
  IN IF HoldsTable(r)
     THEN LET s1 == IF off > 0 /\ ~first THEN DropSlot(sl0, old) ELSE sl0
              f1 == off > 0 /\ SlotOverlaps(s1, e, PageAlign(off))
              s2 == IF off > 0 /\ ~f1 THEN AddSlot(s1, e, host, PageAlign(off)) ELSE s1
              tail == size > off + P
              s3 == IF tail /\ ~f1 /\ ~first THEN DropSlot(s2, old + off + P) ELSE s2
              n == PageAlign(size - off - P)
              f2 == tail /\ ~f1 /\ SlotOverlaps(s3, e + off + P, n)
              s4 == IF tail /\ ~f1 /\ ~f2 THEN AddSlot(s3, e + off + P, host + off + P, n) ELSE s3
          IN [slots |-> s4, failed |-> f1 \/ f2]
     ELSE LET s1 == IF ~first THEN DropSlot(sl0, old) ELSE sl0
              f == SlotOverlaps(s1, e, PageAlign(size))
          IN [slots |-> IF f THEN s1 ELSE AddSlot(s1, e, host, PageAlign(size)), failed |-> f]

(* assigned_dev_iomem_map(r, e, size), on the memory map m that          *)
(* pci_update_mappings left: record the new place; trap the MSI-X page;  *)
(* move the direct slots; exit(1) if a slot was refused.                 *)
IomemMap(r, e, m) ==
  LET res == FastSlots(r, slots, eph[r], esz[r] = 0, e)
  IN /\ eph' = [eph EXCEPT ![r] = e]
     /\ esz' = [esz EXCEPT ![r] = Real[r].size]
     /\ qmap' = IF HoldsTable(r) THEN Register(m, e + TableOffset(r), P, Msix) ELSE m
     /\ slots' = res.slots
     /\ state' = IF res.failed THEN "exited" ELSE state
     /\ UNCHANGED <<iomap, ioperm>>

(* assigned_dev_iomem_map_slow(r, e, size): trap the whole BAR through    *)
(* slow_bar_read/write, then the MSI-X page over it. It leaves            *)
(* e_physbase and e_size alone.                                           *)
IomemMapSlow(r, e, m) ==
  LET m1 == Register(m, e, Real[r].size, <<"slow", r>>)
  IN /\ qmap' = IF Real[r].size > 0 /\ HoldsTable(r)
                  THEN Register(m1, e + TableOffset(r), P, Msix) ELSE m1
     /\ UNCHANGED <<eph, esz, slots, iomap, ioperm, state>>

(* register_ioport_read/write over [a, a + n) for the handlers of r. *)
RegisterPorts(m, a, n, h) == [x \in Port |-> IF x \in PRange(a, n) THEN h ELSE m[x]]

(* assigned_dev_ioport_map(r, e, size): record the new place; on the    *)
(* first map of a BAR without a usable resource file, give the vCPUs    *)
(* access to its host ports (kvm_add_ioperm_data, kvm_ioperm); register *)
(* the assigned_dev_ioport_* handlers over the new range.               *)
IoportMap(r, e, m) ==
  /\ eph' = [eph EXCEPT ![r] = e]
  /\ esz' = [esz EXCEPT ![r] = Real[r].size]
  /\ ioperm' = IF esz[r] = 0 /\ r \in RawIo THEN ioperm \cup HostPorts(r) ELSE ioperm
  /\ iomap' = RegisterPorts(m, e, Real[r].size, <<"io", r>>)
  /\ UNCHANGED <<qmap, slots, state>>

(* The host port assigned_dev_ioport_rw reaches for guest port a of r:  *)
(* the offset from e_physbase, from r_baseport (or the offset into the  *)
(* resource file, which starts at the same port).                       *)
HostPort(r, a) == Real[r].base + (a - eph[r])

-----------------------------------------------------------------------------
(* Actions *)

(* pci_update_mappings for region r, whose new address is new: unassign  *)
(* the old range, then call the map_func assigned_dev_register_regions   *)
(* gave the BAR (the slow one for a BAR smaller than a page).             *)
UpdateRegion(r, new) ==
  /\ state = "running"
  /\ new /= addr[r]
  /\ addr' = [addr EXCEPT ![r] = new]
  /\ LET m == IF addr[r] /= Unmapped THEN Register(qmap, addr[r], Real[r].size, None) ELSE qmap
     IN \/ new /= Unmapped /\ IsSlow(r) /\ IomemMapSlow(r, new, m)
        \/ new /= Unmapped /\ ~IsSlow(r) /\ IomemMap(r, new, m)
        \/ new = Unmapped /\ qmap' = m /\ UNCHANGED <<eph, esz, slots, iomap, ioperm, state>>

(* pci_update_mappings for I/O BAR r: isa_unassign_ioport of the old    *)
(* range (only its third port for a 4-port BAR of an IDE-class device), *)
(* then assigned_dev_ioport_map for a mapped one.                       *)
UpdateIoRegion(r, new) ==
  /\ state = "running"
  /\ new /= addr[r]
  /\ addr' = [addr EXCEPT ![r] = new]
  /\ LET m == IF addr[r] = Unmapped THEN iomap
              ELSE IF Ide /\ Real[r].size = 4 THEN RegisterPorts(iomap, addr[r] + 2, 1, None)
              ELSE RegisterPorts(iomap, addr[r], Real[r].size, None)
     IN \/ new /= Unmapped /\ IoportMap(r, new, m)
        \/ new = Unmapped /\ iomap' = m /\ UNCHANGED <<eph, esz, qmap, slots, ioperm, state>>

(* The slots free_assigned_device destroys for region r: the map         *)
(* function's cut, at e_physbase, for a BAR mapped at least once.        *)
TeardownSlots(sl, r) ==
  LET e == eph[r]
      off == TableOffset(r)
      s1 == IF off > 0 THEN DropSlot(sl, e) ELSE sl
  IN IF esz[r] = 0 THEN sl
     ELSE IF HoldsTable(r)
          THEN IF esz[r] > off + P THEN DropSlot(s1, e + off + P) ELSE s1
          ELSE DropSlot(sl, e)

RECURSIVE TeardownAll(_, _)
TeardownAll(sl, rs) ==
  IF rs = {} THEN sl
  ELSE LET r == CHOOSE x \in rs : TRUE
       IN TeardownAll(TeardownSlots(sl, r), rs \ {r})

(* Hot-unplug. pci_unregister_device calls assigned_exitfn, whose        *)
(* free_assigned_device destroys the slots of each memory BAR,           *)
(* unregisters the slow and MSI-X handlers and unmaps the host memory, *)
(* and withdraws the port access of every raw I/O BAR; then             *)
(* pci_unregister_io_regions unassigns each mapped BAR's range.         *)
Unplug ==
  /\ state = "running"
  /\ slots' = TeardownAll(slots, Regions)
  /\ ioperm' = ioperm \ UNION {HostPorts(r) : r \in RawIo}
  /\ qmap' = [a \in GAddr |->
                IF \E r \in Regions : addr[r] /= Unmapped /\ a \in Range(addr[r], Real[r].size)
                THEN None ELSE qmap[a]]
  /\ iomap' = [a \in Port |->
                IF \E r \in IoRegions : addr[r] /= Unmapped /\ a \in PRange(addr[r], Real[r].size)
                THEN None ELSE iomap[a]]
  /\ state' = "freed"
  /\ UNCHANGED <<addr, eph, esz>>

(* After assigned_dev_register_regions and pci_register_bar: every BAR   *)
(* unmapped, e_physbase the host base, e_size 0, nothing registered.     *)
Init ==
  /\ addr = [r \in Bars |-> Unmapped]
  /\ eph = [r \in Bars |-> Real[r].base]
  /\ esz = [r \in Bars |-> 0]
  /\ qmap = [a \in GAddr |-> None]
  /\ slots = {}
  /\ iomap = [a \in Port |-> None]
  /\ ioperm = {}
  /\ state = "running"

Next ==
  \/ \E r \in Regions : \E new \in GAddrs[r] \cup {Unmapped} : UpdateRegion(r, new)
  \/ \E r \in IoRegions : \E new \in PAddrs[r] \cup {Unmapped} : UpdateIoRegion(r, new)
  \/ Unplug

Spec == Init /\ [][Next]_vars

-----------------------------------------------------------------------------
(* Properties *)

(* The page of the BAR that really contains the MSI-X table, at the      *)
(* BAR's guest address.                                                  *)
Contains(r) == Real[r].base <= MsixTable /\ MsixTable < Real[r].base + Real[r].size
TrapPage(r) ==
  IF Contains(r) /\ addr[r] /= Unmapped THEN Range(addr[r] + TableOffset(r), P) ELSE {}

Covers(x, a) == x.start <= a /\ a < x.start + x.len
HostOf(x, a) == x.host + (a - x.start)
OfBar(x, r) == Real[r].base <= x.host /\ x.host < Real[r].base + Real[r].size

(* A mapped BAR reaches its own host memory and nothing else: each byte  *)
(* but the MSI-X page is in exactly one KVM slot translating it to the   *)
(* same offset of the host BAR (or, for a BAR smaller than a page, goes  *)
(* to its slow handler); the MSI-X page goes to msix_mmio and is in no   *)
(* slot; and no slot of the BAR is left where the BAR used to be.        *)
BarReachesDevice(r) ==
  /\ \A a \in Range(addr[r], Real[r].size) \ TrapPage(r) :
       IF IsSlow(r) THEN qmap[a] = <<"slow", r>>
       ELSE \E x \in slots : /\ Covers(x, a)
                              /\ HostOf(x, a) = Real[r].base + (a - addr[r])
                              /\ \A y \in slots \ {x} : ~Covers(y, a)
  /\ \A a \in TrapPage(r) : qmap[a] = Msix /\ \A x \in slots : ~Covers(x, a)
  /\ \A x \in slots : OfBar(x, r) => Range(x.start, x.len) \subseteq Range(addr[r], Real[r].size)

(* A mapped I/O BAR: each of its guest ports goes to its handlers and   *)
(* reaches the same offset of the host BAR, through a port the vCPUs    *)
(* were given for a raw BAR.                                             *)
PortsReachDevice(r) ==
  \A a \in PRange(addr[r], Real[r].size) :
     /\ iomap[a] = <<"io", r>>
     /\ HostPort(r, a) = Real[r].base + (a - addr[r])
     /\ r \in RawIo => HostPort(r, a) \in ioperm

(* Whatever sequence of BAR moves and unmaps the guest makes             *)
(* (pci_update_mappings into assigned_dev_iomem_map, _map_slow and       *)
(* assigned_dev_ioport_map), every mapped BAR reaches its device as      *)
(* above, msix_mmio traps no address outside the page of the BAR that    *)
(* holds the table, and no port handler left at an old place reaches a   *)
(* host port outside its BAR. After unplug (free_assigned_device, then   *)
(* pci_unregister_io_regions) no slot, handler or port grant is left.    *)
(* Breaks if a move skips a destroy or an unassign, a cut is off by a    *)
(* page, or the "table in this BAR" test matches a neighbouring BAR.     *)
BarsReachDevice ==
  /\ state = "running" =>
       /\ \A r \in Regions : addr[r] /= Unmapped => BarReachesDevice(r)
       /\ \A r \in IoRegions : addr[r] /= Unmapped => PortsReachDevice(r)
       /\ \A a \in GAddr : qmap[a] = Msix => \E r \in Regions : a \in TrapPage(r)
       /\ \A a \in Port, r \in IoRegions : iomap[a] = <<"io", r>> => HostPort(r, a) \in HostPorts(r)
  /\ state = "freed" =>
       /\ slots = {} /\ ioperm = {}
       /\ \A a \in GAddr : qmap[a] = None
       /\ \A a \in Port : iomap[a] = None
====
