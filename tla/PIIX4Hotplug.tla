----------------------------- MODULE PIIX4Hotplug -----------------------------
(***************************************************************************)
(* ACPI PCI hot-plug of the PIIX4 power-management function (hw/acpi.c)    *)
(* composed with the PCI core's device registration (hw/pci.c) and its     *)
(* INTx aggregation (module PCIIrq, instantiated on the host bus).          *)
(*                                                                         *)
(* Actors, all of them serialised by the I/O thread's global mutex:        *)
(*  - the monitor: device_add (pci_qdev_init, then bus->hotplug(dev, 1))   *)
(*    and device_del (pci_unplug_device, bus->hotplug(dev, 0));            *)
(*  - the device models, raising and lowering their pins (pci_set_irq);    *)
(*  - the guest: its OSPM runs the DSDT's level-triggered _L01 method on   *)
(*    an SCI with the PCI hot-plug GPE pending (reads PCI_DOWN, queues     *)
(*    eject notifications, then clears the GPE status), ejects a slot by   *)
(*    writing its bit to PCI_EJ, and may write the GPE and PM1 enable and  *)
(*    status registers at any time;                                        *)
(*  - the monitor's system_powerdown (piix4_powerdown);                    *)
(*  - qemu_system_reset: pci_bus_reset then piix4_reset, in the order the  *)
(*    handlers were registered.                                            *)
(*                                                                         *)
(* Registers keep the bits the hot-plug protocol uses: the PCI hot-plug    *)
(* bit of GPE0 status and enable, the power-button bit of PM1 status and   *)
(* enable, and the slot bitmaps as sets of slots. Each slot holds one      *)
(* function (function 0).                                                  *)
(***************************************************************************)
EXTENDS Integers, FiniteSets

CONSTANTS
  Devices, Buses, RootBus, BusOf, SlotOf, ParentDev, MapIrq, Pins, Lines,
  CountBound,
  Fixed,        \* functions whose PCIDeviceInfo has no_hotplug
  ColdPlugged   \* functions created with the machine

ASSUME Fixed \subseteq ColdPlugged /\ ColdPlugged \subseteq Devices

VARIABLES
  irq_state, status_int, irq_count, line,  \* PCIIrq
  registered,   \* the functions in bus->devices[] of the host bus
  present,      \* pci0_slot_device_present, as a set of slots
  down,         \* pci0_status.down, as a set of slots
  gpe_sts,      \* gpe.sts & PIIX4_PCI_HOTPLUG_STATUS
  gpe_en,       \* gpe.en & PIIX4_PCI_HOTPLUG_STATUS
  pmsts,        \* pmsts & PWRBTN_STS
  pmen,         \* pmen & PWRBTN_EN
  sci,          \* the level pm_update_sci last gave qemu_set_irq(s->irq)
  gpc,          \* OSPM: "idle" or "method" (running _L01)
  snap,         \* OSPM: the slots _L01 read from PCI_DOWN
  ejq           \* OSPM: slots notified for eject, _EJ0 not yet run

irqvars == <<irq_state, status_int, irq_count, line>>
acpivars == <<present, down, gpe_sts, gpe_en, pmsts, pmen, sci>>
ospmvars == <<gpc, snap, ejq>>
vars == <<irqvars, registered, acpivars, ospmvars>>

Irq == INSTANCE PCIIrq

Slots == {SlotOf[d] : d \in Devices}
InSlot(s) == {d \in registered : SlotOf[d] = s}

(* pm_update_sci, restricted to the modelled bits. *)
SciLevel(ps, pe, gs, ge) == (ps /\ pe) \/ (gs /\ ge)
UpdateSci(ps, pe, gs, ge) == sci' = SciLevel(ps, pe, gs, ge)

(* piix4_update_hotplug's rebuild of the present bitmap from the bus. *)
PresentOf(regs) == {SlotOf[d] : d \in regs}

Init ==
  /\ Irq!Init
  /\ registered = ColdPlugged
  /\ present = PresentOf(ColdPlugged)
  /\ down = {}
  /\ gpe_sts = FALSE /\ gpe_en = FALSE
  /\ pmsts = FALSE /\ pmen = FALSE
  /\ sci = FALSE
  /\ gpc = "idle" /\ snap = {} /\ ejq = {}

(* do_pci_register_device into the function's devfn: refused when the    *)
(* devfn is taken; otherwise the function gets irq_state 0 and a fresh    *)
(* config space and enters bus->devices[].                                *)
RegisterDevice(d) ==
  /\ InSlot(SlotOf[d]) = {}
  /\ registered' = registered \cup {d}
  /\ irq_state' = [irq_state EXCEPT ![d] = [p \in Pins |-> 0]]
  /\ status_int' = [status_int EXCEPT ![d] = FALSE]

(* enable_device / disable_device: latch the hot-plug GPE status and mark *)
(* the slot present or awaiting removal.                                  *)
EnableDevice(s) == /\ gpe_sts' = TRUE /\ present' = present \cup {s} /\ UNCHANGED down
DisableDevice(s) == /\ gpe_sts' = TRUE /\ down' = down \cup {s} /\ UNCHANGED present

(* piix4_device_hotplug, the bus's hotplug callback, ends with pm_update_sci. *)
Piix4DeviceHotplug(s, state) ==
  /\ IF state THEN EnableDevice(s) ELSE DisableDevice(s)
  /\ UpdateSci(pmsts, pmen, TRUE, gpe_en)

(* device_add: pci_qdev_init registers the function and, as it is         *)
(* hot-plugged, calls bus->hotplug(dev, 1). A no_hotplug device is        *)
(* unregistered again with an error, and a failing init likewise, both    *)
(* leaving nothing changed.                                               *)
DeviceAdd(d) ==
  /\ d \notin registered \cup Fixed
  /\ RegisterDevice(d)
  /\ Piix4DeviceHotplug(SlotOf[d], TRUE)
  /\ UNCHANGED <<irq_count, line, gpe_en, pmsts, pmen, ospmvars>>

(* device_del: pci_unplug_device refuses a no_hotplug device, otherwise   *)
(* bus->hotplug(dev, 0). The device stays on the bus until its slot is    *)
(* ejected.                                                               *)
DeviceDel(d) ==
  /\ d \in registered \ Fixed
  /\ Piix4DeviceHotplug(SlotOf[d], FALSE)
  /\ UNCHANGED <<irqvars, registered, gpe_en, pmsts, pmen, ospmvars>>

(* Mutant: the functions are matched against the slot bitmap written to *)
(* PCI_EJ (1 << slot) instead of the slot number.                        *)
EjectCompareMask(regs, dn, pr, s) ==
  LET gone == {d \in regs \ Fixed : SlotOf[d] = 2^s}
      free == \A d \in regs : SlotOf[d] = 2^s => d \notin Fixed
  IN [regs |-> regs \ gone, down |-> dn \ {s},
      present |-> IF free THEN pr \ {s} ELSE pr]

(* acpi_piix_eject_slot for one slot: clear its down bit, qdev_free every *)
(* hot-pluggable function in it (pci_unregister_device: exit, unmap the  *)
(* BARs, do_pci_unregister_device; nothing lowers the function's pins),  *)
(* and clear the present bit unless a no_hotplug function stays.         *)
Eject(regs, dn, pr, s) ==
  LET gone == {d \in regs \ Fixed : SlotOf[d] = s}
      free == \A d \in regs : SlotOf[d] = s => d \notin Fixed
  IN [regs |-> regs \ gone, down |-> dn \ {s},
      present |-> IF free THEN pr \ {s} ELSE pr]

(* pciej_write(1 << s): the eject, with no pm_update_sci. *)
PciejWrite(s) ==
  LET r == Eject(registered, down, present, s)
  IN /\ registered' = r.regs
     /\ down' = r.down
     /\ present' = r.present

(* pci_set_irq of a function on the bus (its qemu_irq array is freed at  *)
(* unregister, so only registered functions drive pins).                  *)
DevSetIrq(d, p, level) ==
  /\ d \in registered
  /\ Irq!SetIrq(d, p, level)
  /\ UNCHANGED <<registered, acpivars, ospmvars>>

(* The lowest slot of a non-empty set: ffs(slots) - 1. *)
Lowest(S) == CHOOSE s \in S : \A t \in S : s <= t

(* piix4_update_hotplug's loop: eject the lowest pending slot until no    *)
(* removal is pending.                                                    *)
RECURSIVE EjectAll(_)
EjectAll(r) ==
  IF r.down = {} THEN r
  ELSE EjectAll(Eject(r.regs, r.down, r.present, Lowest(r.down)))

(* Mutant: the pending removals are dropped instead of executed. *)
UpdateHotplugNoEject(regs, dn) ==
  [regs |-> regs, down |-> {}, present |-> PresentOf(regs)]

(* piix4_update_hotplug: execute the pending removals, then rebuild the   *)
(* present bitmap from the functions left on the bus.                     *)
UpdateHotplug(regs, dn) ==
  LET r == EjectAll([regs |-> regs, down |-> dn, present |-> PresentOf(regs)])
  IN [regs |-> r.regs, down |-> r.down, present |-> PresentOf(r.regs)]

(* qemu_system_reset: pci_bus_reset (registered by pci_bus_new) runs      *)
(* before piix4_reset (registered by piix4_pm_initfn), which calls        *)
(* piix4_update_hotplug. The GPE and PM1 registers are left alone and no  *)
(* pm_update_sci is made. The guest starts over.                          *)
SystemReset ==
  LET r == UpdateHotplug(registered, down)
  IN /\ Irq!BusReset
     /\ registered' = r.regs
     /\ down' = r.down
     /\ present' = r.present
     /\ gpc' = "idle" /\ snap' = {} /\ ejq' = {}
     /\ UNCHANGED <<gpe_sts, gpe_en, pmsts, pmen, sci>>

(* system_powerdown -> piix4_powerdown: the button is latched only when  *)
(* the guest enabled it; otherwise the request is dropped.               *)
Powerdown ==
  /\ pmen
  /\ pmsts' = TRUE
  /\ UpdateSci(TRUE, pmen, gpe_sts, gpe_en)
  /\ UNCHANGED <<irqvars, registered, present, down, gpe_sts, gpe_en, pmen, ospmvars>>

(* pm_ioport_writew at PMSTS (write 1 to clear) or PMEN (plain write),   *)
(* each followed by pm_update_sci.                                       *)
PmStsWrite(clr) ==
  /\ pmsts' = (pmsts /\ ~clr)
  /\ UpdateSci(pmsts', pmen, gpe_sts, gpe_en)
  /\ UNCHANGED <<irqvars, registered, present, down, gpe_sts, gpe_en, pmen, ospmvars>>

PmEnWrite(v) ==
  /\ pmen' = v
  /\ UpdateSci(pmsts, v, gpe_sts, gpe_en)
  /\ UNCHANGED <<irqvars, registered, present, down, gpe_sts, gpe_en, pmsts, ospmvars>>

(* gpe_writeb at GPE_BASE + 2: gpe_write_val sets the enable byte, then  *)
(* pm_update_sci.                                                         *)
GpeEnWrite(v) ==
  /\ gpe_en' = v
  /\ UpdateSci(pmsts, pmen, gpe_sts, v)
  /\ UNCHANGED <<irqvars, registered, present, down, gpe_sts, pmsts, pmen, ospmvars>>

(* The guest's OSPM dispatches the pending, enabled hot-plug GPE: _L01    *)
(* reads PCI_UP and PCI_DOWN (pci_up_read, pci_down_read: no side effect) *)
(* and notifies the slots it read.                                        *)
OspmMethod ==
  /\ gpc = "idle" /\ sci /\ gpe_sts /\ gpe_en
  /\ gpc' = "method"
  /\ snap' = down
  /\ UNCHANGED <<irqvars, registered, acpivars, ejq>>

(* After _L01 returns, OSPM clears the level GPE's status: gpe_writeb at  *)
(* GPE_BASE, gpe_reset_val, pm_update_sci. The notified slots await _EJ0. *)
OspmDone ==
  /\ gpc = "method"
  /\ gpe_sts' = FALSE
  /\ UpdateSci(pmsts, pmen, FALSE, gpe_en)
  /\ ejq' = ejq \cup snap
  /\ gpc' = "idle" /\ snap' = {}
  /\ UNCHANGED <<irqvars, registered, present, down, gpe_en, pmsts, pmen>>

(* The guest runs _EJ0 of a notified slot: pciej_write(1 << slot). *)
OspmEject(s) ==
  /\ s \in ejq
  /\ PciejWrite(s)
  /\ ejq' = ejq \ {s}
  /\ UNCHANGED <<irqvars, gpe_sts, gpe_en, pmsts, pmen, sci, gpc, snap>>

Next ==
  \/ \E d \in Devices : DeviceAdd(d) \/ DeviceDel(d)
  \/ \E d \in Devices, p \in Pins, level \in {0, 1} : DevSetIrq(d, p, level)
  \/ \E s \in Slots : OspmEject(s)
  \/ OspmMethod \/ OspmDone
  \/ \E v \in BOOLEAN : PmStsWrite(v) \/ PmEnWrite(v) \/ GpeEnWrite(v)
  \/ Powerdown
  \/ SystemReset

Spec == Init /\ [][Next]_vars

(* The guest's OSPM services every SCI it is given, finishes every _L01 it *)
(* starts and runs _EJ0 for each slot it notified (each notification is  *)
(* its own piece of work); the monitor, the devices and the guest's      *)
(* register writes need no fairness.                                     *)
FairSpec ==
  /\ Spec
  /\ WF_vars(OspmMethod) /\ WF_vars(OspmDone)
  /\ \A s \in Slots : WF_vars(OspmEject(s))

-----------------------------------------------------------------------------
TypeOK ==
  /\ Irq!TypeOK
  /\ registered \subseteq Devices
  /\ present \subseteq Slots /\ down \subseteq Slots
  /\ {gpe_sts, gpe_en, pmsts, pmen, sci} \subseteq BOOLEAN
  /\ gpc \in {"idle", "method"} /\ snap \subseteq Slots /\ ejq \subseteq Slots

(* The (function, pin) pairs of functions on the bus asserting line l. *)
AssertingOn(l) ==
  {dp \in registered \X Pins : irq_state[dp[1]][dp[2]] = 1 /\ Irq!LineOf(dp[1], dp[2]) = l}

(* No interrupt is hidden: across hot-add (which gives the function a     *)
(* fresh irq_state), eject, raises and lowers of functions sharing a line *)
(* and resets, a line some function on the bus asserts is asserted at the *)
(* platform.                                                               *)
NoHiddenInterrupt == \A l \in Lines : AssertingOn(l) /= {} => line[l]

(* No line is stuck: a line asserted at the platform is asserted by some  *)
(* function still on the bus, so ejecting a function (qdev_free ->        *)
(* pci_unregister_device) never leaves its interrupt behind.              *)
NoStuckLine == \A l \in Lines : line[l] => AssertingOn(l) /= {}

(* The registers implement the abstract hot-plug contract: the functions  *)
(* on the bus are the plugged devices and those whose slot has its down   *)
(* bit set are the ones awaiting removal, so a down bit is set only by    *)
(* device_del of the function in that slot and is cleared only with its   *)
(* removal, through every interleaving of the monitor, the guest's OSPM   *)
(* and system reset.                                                       *)
Abs == INSTANCE PciHotplugSlots WITH
         plugged <- registered,
         pending <- {d \in registered : SlotOf[d] \in down}

HotplugRefines == Abs!Spec

(* A signalled removal completes: once a function awaits removal while the *)
(* enabled hot-plug GPE is pending and the guest is not inside _L01, the   *)
(* function leaves the bus (or the guest disables the GPE): _L01 reads its *)
(* down bit, OSPM notifies, and _EJ0's PCI_EJ write ejects that slot.     *)
SignalledUnplugCompletes ==
  \A d \in Devices :
    (d \in registered /\ SlotOf[d] \in down /\ gpe_sts /\ gpe_en /\ gpc = "idle")
      ~> (d \notin registered \/ ~gpe_en)

(* device_del completes: a function whose removal was requested leaves the *)
(* bus, as long as the guest keeps the hot-plug GPE enabled.               *)
UnplugCompletes ==
  \A d \in Devices :
    (d \in registered /\ SlotOf[d] \in down) ~> (d \notin registered \/ ~gpe_en)
=============================================================================
