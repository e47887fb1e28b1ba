--------------------------- MODULE PciHotplugSlots ---------------------------
(***************************************************************************)
(* What ACPI PCI hot-plug promises about the devices on the host bus,      *)
(* stated without registers: a device is plugged only into a free slot; a  *)
(* device is awaiting removal only after its removal was requested; an     *)
(* eject takes away the hot-pluggable devices of one slot; a system reset  *)
(* completes every removal that was awaiting the guest. Devices that are   *)
(* not hot-pluggable never come or go.                                     *)
(***************************************************************************)
CONSTANTS
  Devices,      \* every PCI function that may sit on the host bus
  SlotOf,       \* [Devices -> slots]
  Fixed,        \* the functions whose device model says no_hotplug
  ColdPlugged   \* the functions present when the machine is created

VARIABLES
  plugged,      \* the functions on the bus
  pending       \* the functions whose removal was requested and not done

vars == <<plugged, pending>>

SlotFree(s) == \A e \in plugged : SlotOf[e] /= s

Init ==
  /\ plugged = ColdPlugged
  /\ pending = {}

Plug(d) ==
  /\ d \notin plugged \cup Fixed
  /\ SlotFree(SlotOf[d])
  /\ plugged' = plugged \cup {d}
  /\ UNCHANGED pending

Request(d) ==
  /\ d \in plugged \ Fixed
  /\ pending' = pending \cup {d}
  /\ UNCHANGED plugged

Remove(s) ==
  LET gone == {d \in plugged \ Fixed : SlotOf[d] = s}
  IN /\ plugged' = plugged \ gone
     /\ pending' = pending \ gone

ResetRemove ==
  /\ plugged' = plugged \ pending
  /\ pending' = {}

Next ==
  \/ \E d \in Devices : Plug(d) \/ Request(d)
  \/ \E s \in {SlotOf[d] : d \in Devices} : Remove(s)
  \/ ResetRemove

Spec == Init /\ [][Next]_vars
=============================================================================
