------------------------------- MODULE PCIIrq -------------------------------
(***************************************************************************)
(* Legacy INTx level aggregation of the PCI core (hw/pci.c).               *)
(*                                                                         *)
(* Every PCI function keeps a 4-bit irq_state (one level per pin INTA-D).  *)
(* pci_set_irq turns a level change into +1/-1 on the irq_count of the     *)
(* platform line the pin is routed to: pci_change_irq_level walks from the *)
(* function's bus up through the bridges, translating the pin with each    *)
(* bus's map_irq, until it reaches a bus that has a set_irq (the host      *)
(* bus), and hands the platform controller irq_count[line] != 0.           *)
(* pci_bus_reset, registered for the host bus only, zeroes irq_count and   *)
(* resets every function sitting on that bus.                              *)
(*                                                                         *)
(* The functions are independent actors: each device model raises and     *)
(* lowers its pins whenever its emulation decides to, in any interleaving; *)
(* a system reset may come between any two of those steps.                 *)
(***************************************************************************)
EXTENDS Integers, FiniteSets

CONSTANTS
  Devices,     \* PCI functions that drive INTx pins
  Buses,       \* PCI buses
  RootBus,     \* the host bus: the only one with a set_irq callback
  BusOf,       \* [Devices -> Buses]: pci_dev->bus
  SlotOf,      \* [Devices -> Nat]: PCI_SLOT(pci_dev->devfn)
  ParentDev,   \* [Buses \ {RootBus} -> [bus, slot]]: the bridge, bus->parent_dev
  MapIrq,      \* [Buses -> [Nat \X Pins -> Pins \cup Lines]]: bus->map_irq
  Pins,        \* interrupt pins, 0..3 for INTA..INTD
  Lines,       \* platform lines of the host bus, 0..nirq-1
  CountBound   \* bound on |irq_count[l]| so that the state space is finite

ASSUME RootBus \in Buses
ASSUME BusOf \in [Devices -> Buses]
ASSUME CountBound \in Nat \ {0}

VARIABLES
  irq_state,   \* [Devices -> [Pins -> {0,1}]]: PCIDevice.irq_state
  status_int,  \* [Devices -> BOOLEAN]: PCI_STATUS_INTERRUPT in config[PCI_STATUS]
  irq_count,   \* [Lines -> Int]: PCIBus.irq_count of the host bus
  line         \* [Lines -> BOOLEAN]: the level last handed to bus->set_irq

vars == <<irq_state, status_int, irq_count, line>>

(* pci_change_irq_level's loop: translate the pin through map_irq of every *)
(* bus from the function's own up to the host bus.                        *)
RECURSIVE Route(_, _, _)
Route(bus, slot, pin) ==
  IF bus = RootBus
    THEN MapIrq[bus][<<slot, pin>>]
    ELSE Route(ParentDev[bus].bus, ParentDev[bus].slot, MapIrq[bus][<<slot, pin>>])

LineOf(d, p) == Route(BusOf[d], SlotOf[d], p)

(* pci_update_irq_status: the status bit mirrors "some pin is asserted". *)
IrqStatus(state) == \E p \in Pins : state[p] = 1

(* bus->set_irq(bus->irq_opaque, irq_num, bus->irq_count[irq_num] != 0) *)
PlatformLevel(count) == count /= 0

Init ==
  /\ irq_state = [d \in Devices |-> [p \in Pins |-> 0]]
  /\ status_int = [d \in Devices |-> FALSE]
  /\ irq_count = [l \in Lines |-> 0]
  /\ line = [l \in Lines |-> FALSE]

(* Mutant: hand the platform the function's own level instead of the     *)
(* aggregated count, as a bus without irq_count would.                    *)
SetIrqPassLevel(d, p, level) ==
  LET change == level - irq_state[d][p]
      l      == LineOf(d, p)
      count  == irq_count[l] + change
  IN /\ change /= 0
     /\ count \in -CountBound..CountBound
     /\ irq_state' = [irq_state EXCEPT ![d][p] = level]
     /\ status_int' = [status_int EXCEPT ![d] = IrqStatus(irq_state'[d])]
     /\ irq_count' = [irq_count EXCEPT ![l] = count]
     /\ line' = [line EXCEPT ![l] = (level = 1)]

(* Mutant: the new level is taken for the delta, ignoring irq_state. *)
SetIrqLevelAsChange(d, p, level) ==
  LET change == IF level = 1 THEN 1 ELSE -1
      l      == LineOf(d, p)
      count  == irq_count[l] + change
  IN /\ count \in -CountBound..CountBound
     /\ irq_state' = [irq_state EXCEPT ![d][p] = level]
     /\ status_int' = [status_int EXCEPT ![d] = IrqStatus(irq_state'[d])]
     /\ irq_count' = [irq_count EXCEPT ![l] = count]
     /\ line' = [line EXCEPT ![l] = PlatformLevel(count)]

(* pci_set_irq(d, p, level): a no-op when the level is unchanged, else     *)
(* record the level, refresh the status bit and propagate the change.     *)
SetIrq(d, p, level) ==
  LET change == level - irq_state[d][p]
      l      == LineOf(d, p)
      count  == irq_count[l] + change
  IN /\ change /= 0
     /\ count \in -CountBound..CountBound
     /\ irq_state' = [irq_state EXCEPT ![d][p] = level]
     /\ status_int' = [status_int EXCEPT ![d] = IrqStatus(irq_state'[d])]
     /\ irq_count' = [irq_count EXCEPT ![l] = count]
     /\ line' = [line EXCEPT ![l] = PlatformLevel(count)]

(* pci_bus_reset on the host bus: irq_count := 0 and pci_device_reset of  *)
(* every function in bus->devices, i.e. of the functions on the host bus  *)
(* only; functions behind a bridge keep their irq_state. The platform      *)
(* interrupt controllers are reset by their own handlers of the same      *)
(* system reset, which drops every line.                                  *)
BusReset ==
  /\ irq_count' = [l \in Lines |-> 0]
  /\ irq_state' = [d \in Devices |->
                    IF BusOf[d] = RootBus THEN [p \in Pins |-> 0] ELSE irq_state[d]]
  /\ status_int' = [d \in Devices |->
                     IF BusOf[d] = RootBus THEN FALSE ELSE status_int[d]]
  /\ line' = [l \in Lines |-> FALSE]

Next ==
  \/ \E d \in Devices, p \in Pins, level \in {0, 1} : SetIrq(d, p, level)
  \/ BusReset

Spec == Init /\ [][Next]_vars

-----------------------------------------------------------------------------
(* The (function, pin) pairs currently asserting a pin routed to line l. *)
AssertingOn(l) == {dp \in Devices \X Pins : irq_state[dp[1]][dp[2]] = 1 /\ LineOf(dp[1], dp[2]) = l}

TypeOK ==
  /\ irq_state \in [Devices -> [Pins -> {0, 1}]]
  /\ status_int \in [Devices -> BOOLEAN]
  /\ irq_count \in [Lines -> 0..CountBound]
  /\ line \in [Lines -> BOOLEAN]

(* The platform sees each line as the OR of the pins routed to it: a line  *)
(* is asserted exactly when some function asserts a pin that maps to it,   *)
(* so one function lowering never hides another's interrupt and no line    *)
(* stays up once nobody asserts it.                                        *)
LineIsOr == \A l \in Lines : line[l] <=> AssertingOn(l) /= {}
=============================================================================
