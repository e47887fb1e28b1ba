---------------------------- MODULE PCIBarMapper ----------------------------
(***************************************************************************)
(* BAR mapping of the PCI core (hw/pci.c): the guest programs BARs, the    *)
(* command register and the bridge memory window through config writes;   *)
(* after each such write pci_update_mappings recomputes every region of    *)
(* the function (pci_bar_address, then pci_bridge_filter) and, for each    *)
(* region whose (addr, filtered_size) changed, unassigns the old range     *)
(* and calls the device's map_func for the new one.                       *)
(*                                                                         *)
(* Addresses are scaled: the 32-bit memory space and the BAR registers are *)
(* 0..Top (Top plays UINT32_MAX), the port space is 0..IoTop (UINT16_MAX), *)
(* a bridge memory window register counts in units of MemGran (1 MiB).    *)
(* The installed address decode is the variable decode: which region, if  *)
(* any, an access to each address reaches.                                *)
(***************************************************************************)
EXTENDS Integers, FiniteSets, FiniteSetsExt, Sequences

CONSTANTS
  Devices,      \* PCI functions, bridges included
  Bridges,      \* the PCI-to-PCI bridges among them
  RootBus,      \* the host bus
  BusOf,        \* [Devices -> buses]: dev->bus
  ParentDev,    \* [buses other than RootBus -> Bridges]: bus->parent_dev
  Regions,      \* registered regions (pci_register_bar)
  RegDev,       \* [Regions -> Devices]
  RegIdx,       \* [Regions -> 0..6]: region_num, PCI_ROM_SLOT = 6
  RegType,      \* [Regions -> {"io", "mem"}]: PCI_BASE_ADDRESS_SPACE_IO or memory
  RegSize,      \* [Regions -> powers of two]
  IdeDevices,   \* functions of class 0x0101 (IDE controller)
  UpdateOrder,  \* sequence of Devices: pci_for_each_device_under_bus, then child buses
  Top,          \* UINT32_MAX
  IoTop,        \* UINT16_MAX
  MemGran,      \* bridge memory window granularity (0xfffff + 1)
  BarValues,    \* values the guest writes to a BAR dword
  CmdValues,    \* values the guest writes to the command register's IO/MEM bits
  WindowValues  \* values of a bridge memory base/limit register (in MemGran units)

ASSUME Bridges \subseteq Devices /\ RegDev \in [Regions -> Devices \ Bridges]

VARIABLES
  bar,        \* [Regions -> 0..Top]: the BAR dword in config (address bits, ROM enable bit)
  cmd,        \* [Devices -> [io: BOOLEAN, mem: BOOLEAN]]: PCI_COMMAND_IO / _MEMORY
  win,        \* [Bridges -> [base, limit]]: PCI_MEMORY_BASE / PCI_MEMORY_LIMIT registers
  region,     \* [Regions -> [addr, fsize]]: PCIIORegion.addr and .filtered_size
  decode      \* [{"io","mem"} -> [0..Top -> Regions \cup {NoOwner}]]: installed decode

vars == <<bar, cmd, win, region, decode>>

IsRom(r) == RegIdx[r] = 6

Unmapped == -1            \* PCI_BAR_UNMAPPED (~(pcibus_t)0)
NoOwner == "unassigned"   \* IO_MEM_UNASSIGNED / no ioport handler
Spaces == {"io", "mem"}
Addr == 0..Top

-----------------------------------------------------------------------------
(* Guest-visible config effects. *)

(* pci_register_bar's wmask: ~(size-1), plus the enable bit for the ROM;  *)
(* the masked write of pci_default_write_config keeps the other bits.      *)
MaskedBar(r, val) ==
  (val - (val % RegSize[r])) + (IF IsRom(r) THEN val % 2 ELSE 0)

CmdEnabled(c, d, sp) == IF sp = "io" THEN c.cmd[d].io ELSE c.cmd[d].mem

(* pci_bridge_get_base / pci_bridge_get_limit for the memory window: the  *)
(* limit has its low 0xfffff bits forced to one. The IO window registers  *)
(* are never written here and keep their reset value 0: base 0, limit     *)
(* 0xfff (scaled to IoGran - 1 = 0 units).                                *)
WinBase(c, br, sp) == IF sp = "io" THEN 0 ELSE c.win[br].base * MemGran
WinLimit(c, br, sp) == IF sp = "io" THEN 0 ELSE c.win[br].limit * MemGran + MemGran - 1

(* The bridges above a bus, nearest first (the loop over bus->parent_dev). *)
RECURSIVE Ancestors(_)
Ancestors(b) == IF b = RootBus THEN {} ELSE {ParentDev[b]} \cup Ancestors(BusOf[ParentDev[b]])

(* Mutant: the ROM slot's own enable bit is not consulted. *)
BarAddressNoRomEnable(c, r) ==
  LET d    == RegDev[r]
      new  == c.bar[r] - (c.bar[r] % RegSize[r])
      last == new + RegSize[r] - 1
  IN IF RegType[r] = "io"
       THEN IF ~c.cmd[d].io \/ last <= new \/ new = 0 \/ last > IoTop
              THEN Unmapped ELSE new
       ELSE IF ~c.cmd[d].mem \/ last <= new \/ new = 0 \/ last >= Top
              THEN Unmapped ELSE new

(* pci_bar_address: the address the region would decode at, or Unmapped. *)
(* 64-bit BARs are not modelled, so last_addr == PCI_BAR_UNMAPPED and the  *)
(* TARGET_PHYS_ADDR_MAX test (>= UINT32_MAX on x86 targets) cannot fire.  *)
BarAddress(c, r) ==
  LET d    == RegDev[r]
      new  == c.bar[r] - (c.bar[r] % RegSize[r])
      last == new + RegSize[r] - 1
  IN IF RegType[r] = "io"
       THEN IF ~c.cmd[d].io \/ last <= new \/ new = 0 \/ last > IoTop
              THEN Unmapped ELSE new
       ELSE IF ~c.cmd[d].mem \/ (IsRom(r) /\ c.bar[r] % 2 = 0)
                 \/ last <= new \/ new = 0 \/ last >= Top
              THEN Unmapped ELSE new

(* Mutant: the "base > limit" test is dropped. *)
BridgeFilterNoEmptyCheck(c, d, addr, size, sp) ==
  LET brs   == Ancestors(BusOf[d])
      base  == Max({addr} \cup {WinBase(c, br, sp) : br \in brs})
      limit == Min({addr + size - 1} \cup {WinLimit(c, br, sp) : br \in brs})
  IN IF brs /= {} /\ ~CmdEnabled(c, d, sp)
       THEN [addr |-> Unmapped, size |-> 0]
       ELSE [addr |-> base, size |-> limit - base + 1]

(* pci_bridge_filter: clip [addr, addr+size-1] to the window of every      *)
(* bridge above the function; unmapped (size 0) if the enable bit checked  *)
(* is clear or the clipped range is empty. The enable bit checked is read  *)
(* from d->config, the function's own command register, not the bridge's. *)
BridgeFilter(c, d, addr, size, sp) ==
  LET brs   == Ancestors(BusOf[d])
      base  == Max({addr} \cup {WinBase(c, br, sp) : br \in brs})
      limit == Min({addr + size - 1} \cup {WinLimit(c, br, sp) : br \in brs})
  IN IF (brs /= {} /\ ~CmdEnabled(c, d, sp)) \/ base > limit
       THEN [addr |-> Unmapped, size |-> 0]
       ELSE [addr |-> base, size |-> limit - base + 1]

(* The (addr, filtered_size) pci_update_mappings computes for a region. *)
NewMapping(c, r) ==
  LET new == BarAddress(c, r)
  IN IF new = Unmapped THEN [addr |-> Unmapped, size |-> RegSize[r]]
     ELSE BridgeFilter(c, RegDev[r], new, RegSize[r], RegType[r])

(* The ports or addresses a region's map_func claims and the ones          *)
(* pci_update_mappings releases: an IDE function's 4-byte IO BAR decodes   *)
(* only its byte at +2 (ide_map; the "specific hack for IDE").            *)
IdeHack(r) == RegType[r] = "io" /\ RegDev[r] \in IdeDevices /\ RegSize[r] = 4
Claimed(r, addr, fsize) ==
  (IF IdeHack(r) THEN {addr + 2} ELSE addr..(addr + fsize - 1)) \cap Addr

(* Mutant: r->filtered_size is updated before the old range is released. *)
UpdateRegionNewSize(c, st, r) ==
  LET nm  == NewMapping(c, r)
      old == st.reg[r]
      sp  == RegType[r]
      released == IF old.addr = Unmapped THEN {} ELSE Claimed(r, old.addr, nm.size)
      claimed  == IF nm.addr = Unmapped THEN {} ELSE Claimed(r, nm.addr, nm.size)
  IN IF nm.addr = old.addr /\ nm.size = old.fsize
       THEN st
       ELSE [reg |-> [st.reg EXCEPT ![r] = [addr |-> nm.addr, fsize |-> nm.size]],
             dec |-> [st.dec EXCEPT ![sp] =
                        [a \in Addr |-> IF a \in claimed THEN r
                                        ELSE IF a \in released THEN NoOwner
                                        ELSE st.dec[sp][a]]]]

(* One iteration of pci_update_mappings' loop over the regions, on the     *)
(* record st = [reg |-> region, dec |-> decode].                          *)
UpdateRegion(c, st, r) ==
  LET nm  == NewMapping(c, r)
      old == st.reg[r]
      sp  == RegType[r]
      released == IF old.addr = Unmapped THEN {} ELSE Claimed(r, old.addr, old.fsize)
      claimed  == IF nm.addr = Unmapped THEN {} ELSE Claimed(r, nm.addr, nm.size)
  IN IF nm.addr = old.addr /\ nm.size = old.fsize
       THEN st
       ELSE [reg |-> [st.reg EXCEPT ![r] = [addr |-> nm.addr, fsize |-> nm.size]],
             dec |-> [st.dec EXCEPT ![sp] =
                        [a \in Addr |-> IF a \in claimed THEN r
                                        ELSE IF a \in released THEN NoOwner
                                        ELSE st.dec[sp][a]]]]

(* pci_update_mappings(d): the regions of d in region_num order. *)
RECURSIVE UpdateRegions(_, _, _)
UpdateRegions(c, st, rs) ==
  IF rs = {} THEN st
  ELSE LET r == CHOOSE x \in rs : \A y \in rs : RegIdx[x] <= RegIdx[y]
       IN UpdateRegions(c, UpdateRegion(c, st, r), rs \ {r})

Mapper == [reg |-> region, dec |-> decode]

(* The config registers the mapping is computed from. *)
Config == [bar |-> bar, cmd |-> cmd, win |-> win]

UpdateMappings(c, st, d) == UpdateRegions(c, st, {r \in Regions : RegDev[r] = d})

(* pci_bridge_update_mappings(bus): pci_update_mappings of every function  *)
(* under the bus, then the child buses, in UpdateOrder.                    *)
RECURSIVE UpdateAll(_, _, _)
UpdateAll(c, st, ds) ==
  IF ds = <<>> THEN st ELSE UpdateAll(c, UpdateMappings(c, st, Head(ds)), Tail(ds))

CommitMapper(st) == region' = st.reg /\ decode' = st.dec

-----------------------------------------------------------------------------
Init ==
  /\ bar = [r \in Regions |-> 0]
  /\ cmd = [d \in Devices |-> [io |-> FALSE, mem |-> FALSE]]
  /\ win = [br \in Bridges |-> [base |-> 0, limit |-> 0]]
  /\ region = [r \in Regions |-> [addr |-> Unmapped, fsize |-> RegSize[r]]]
  /\ decode = [sp \in Spaces |-> [a \in Addr |-> NoOwner]]

(* pci_default_write_config of a BAR (or ROM) dword: masked write, then    *)
(* pci_update_mappings of the function, as the write overlaps the BARs.   *)
WriteBar(r, val) ==
  /\ bar' = [bar EXCEPT ![r] = MaskedBar(r, val)]
  /\ UNCHANGED <<cmd, win>>
  /\ CommitMapper(UpdateMappings(Config', Mapper, RegDev[r]))

(* A write of the command register: masked write, then pci_update_mappings *)
(* of the function. For a bridge (pci_bridge_write_config) the command     *)
(* byte is outside the window registers, so no bus is recomputed.         *)
WriteCommand(d, io, mem) ==
  /\ cmd' = [cmd EXCEPT ![d] = [io |-> io, mem |-> mem]]
  /\ UNCHANGED <<bar, win>>
  /\ CommitMapper(UpdateMappings(Config', Mapper, d))

(* Mutant: only the bridge's own bus is recomputed, not its child buses. *)
WriteBridgeWindowNoChildren(br, base, limit) ==
  /\ win' = [win EXCEPT ![br] = [base |-> base, limit |-> limit]]
  /\ UNCHANGED <<bar, cmd>>
  /\ CommitMapper(UpdateAll(Config', Mapper, SelectSeq(UpdateOrder, LAMBDA d : BusOf[d] = BusOf[br])))

(* pci_bridge_write_config of the PCI_MEMORY_BASE/LIMIT dword: masked      *)
(* write, pci_update_mappings of the bridge itself (no regions), then      *)
(* pci_bridge_update_mappings(d->bus) recomputes every function below the *)
(* bridge's primary bus.                                                  *)
WriteBridgeWindow(br, base, limit) ==
  /\ win' = [win EXCEPT ![br] = [base |-> base, limit |-> limit]]
  /\ UNCHANGED <<bar, cmd>>
  /\ CommitMapper(UpdateAll(Config', Mapper, UpdateOrder))

(* pci_bus_reset of the host bus, mapping part: pci_device_reset of each   *)
(* function on the host bus clears IO/MEM enables, rewrites each BAR to    *)
(* its type bits and calls pci_update_mappings. Functions behind a bridge *)
(* and the bridge windows are left as they are.                           *)
OnRoot(d) == BusOf[d] = RootBus
RootOrder == SelectSeq(UpdateOrder, OnRoot)
Reset ==
  /\ cmd' = [d \in Devices |-> IF OnRoot(d) THEN [io |-> FALSE, mem |-> FALSE] ELSE cmd[d]]
  /\ bar' = [r \in Regions |-> IF OnRoot(RegDev[r]) THEN 0 ELSE bar[r]]
  /\ UNCHANGED win
  /\ CommitMapper(UpdateAll(Config', Mapper, RootOrder))

Next ==
  \/ \E r \in Regions, val \in BarValues : WriteBar(r, val)
  \/ \E d \in Devices, v \in CmdValues : WriteCommand(d, v.io, v.mem)
  \/ \E br \in Bridges, base, limit \in WindowValues : WriteBridgeWindow(br, base, limit)
  \/ Reset

Spec == Init /\ [][Next]_vars

-----------------------------------------------------------------------------
Owners == Regions \cup {NoOwner}

TypeOK ==
  /\ bar \in [Regions -> 0..Top]
  /\ cmd \in [Devices -> [io : BOOLEAN, mem : BOOLEAN]]
  /\ win \in [Bridges -> [base : WindowValues, limit : WindowValues]]
  /\ region \in [Regions -> [addr : {Unmapped} \cup Addr, fsize : 0..Top + 1]]
  /\ decode \in [Spaces -> [Addr -> Owners]]

Mapped(r) == region[r].addr /= Unmapped
ClaimedNow(r) == IF Mapped(r) THEN Claimed(r, region[r].addr, region[r].fsize) ELSE {}

(* Every region's recorded (addr, filtered_size) is the one its current    *)
(* config gives it: no BAR, command or bridge-window write leaves a        *)
(* function with a mapping computed from registers that have since changed *)
(* (the update triggers of pci_default_write_config and                    *)
(* pci_bridge_write_config cover every register the mapping reads).       *)
MappingDerived ==
  \A r \in Regions : LET nm == NewMapping(Config, r)
                     IN region[r] = [addr |-> nm.addr, fsize |-> nm.size]

(* The installed decode never routes an access to a region at an address  *)
(* the region does not currently claim: pci_update_mappings releases the   *)
(* old range, with the old filtered size, whenever a region moves, shrinks *)
(* or is unmapped.                                                         *)
NoStaleDecode ==
  \A sp \in Spaces, a \in Addr :
    decode[sp][a] /= NoOwner => a \in ClaimedNow(decode[sp][a])

(* Whatever the history of writes, an address decodes to a region only if  *)
(* that function's enable bit for the space is set, the ROM's own enable   *)
(* bit is set, the address is not 0 and lies inside the memory window of   *)
(* every bridge above the function.                                        *)
DecodeRespectsConfig ==
  \A sp \in Spaces, a \in Addr :
    LET r == decode[sp][a]
    IN r /= NoOwner =>
         /\ CmdEnabled(Config, RegDev[r], sp)
         /\ IsRom(r) => bar[r] % 2 = 1
         /\ a /= 0
         /\ \A br \in Ancestors(BusOf[RegDev[r]]) :
              WinBase(Config, br, sp) <= a /\ a <= WinLimit(Config, br, sp)

(* A region behind a bridge whose enable bit for the region's space is     *)
(* clear is unmapped, whatever the function's own command register says.  *)
BridgeDisabledUnmapped ==
  \A r \in Regions :
    Mapped(r) => \A br \in Ancestors(BusOf[RegDev[r]]) : CmdEnabled(Config, br, RegType[r])
=============================================================================
