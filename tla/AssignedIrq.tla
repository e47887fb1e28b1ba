----------------------------- MODULE AssignedIrq -----------------------------
(***************************************************************************)
(* Interrupt routing of an assigned (passthrough) device,                 *)
(* hw/device-assignment.c. QEMU keeps irq_requested_type (the interrupt    *)
(* kind it asked KVM to deliver), girq (the guest INTx line it was          *)
(* assigned on) and entry[0..irq_entries_nr-1] (the GSI routes it added to  *)
(* KVM's routing table). The guest drives it through the PIIX PIRQ route   *)
(* registers, the MSI and MSI-X enable bits, the MSI-X vector table and    *)
(* device reset; hot-plug runs assigned_initfn and assigned_exitfn.        *)
(*                                                                         *)
(* The host side (KVM) is modelled by what the calls do to it: kroutes is  *)
(* the set of GSIs in the routing table (kvm_add/del_routing_entry), kirq   *)
(* the interrupt kind KVM currently delivers for the device                 *)
(* (kvm_assign_irq / kvm_deassign_irq; a second assign while one is active *)
(* fails with -EEXIST). Any host call that can fail may fail: the action's  *)
(* input fail names the step that fails, counted in faults.               *)
(* A message (address and data) is a value of Msgs, or 0 where the guest  *)
(* left it zero (msix_skipped). The routing table lives in the KVM library *)
(* (kroutes, with kmsg the message of each GSI's entry), which finds an    *)
(* entry to update or delete by comparing its GSI, type and message with   *)
(* the copy QEMU passes.                                                   *)
(***************************************************************************)
EXTENDS Integers, FiniteSets, FiniteSetsExt

CONSTANTS
  MsixMax,     \* adev->msix_max, vectors in the MSI-X table
  GSIs,        \* free GSIs kvm_get_irq_route_gsi can hand out
  GuestIrqs,   \* values of the PIIX PIRQ route register of the device's pin
  Faults,      \* the host calls that may fail, a subset of FailSteps
  MaxFaults,   \* bound on the number of failed host calls
  Msgs         \* non-zero MSI / MSI-X messages the guest programs

NONE == "none"
INTX == "intx"    \* KVM_DEV_IRQ_HOST_INTX | KVM_DEV_IRQ_GUEST_INTX
MSI == "msi"      \* KVM_DEV_IRQ_HOST_MSI | KVM_DEV_IRQ_GUEST_MSI
MSIX == "msix"    \* KVM_DEV_IRQ_HOST_MSIX | KVM_DEV_IRQ_GUEST_MSIX
Kinds == {NONE, INTX, MSI, MSIX}
Vectors == 0..(MsixMax - 1)
Messages == Msgs \cup {0}

(* assign_device, kvm_assign_irq, kvm_commit_irq_routes,                  *)
(* kvm_assign_set_msix_nr, kvm_assign_set_msix_entry, the MSI-X table mmap *)
FailSteps == {"assign_dev", "assign", "commit", "msix_nr", "msix_entry", "msix_mmio"}

ASSUME Faults \subseteq FailSteps /\ MaxFaults \in Nat

VARIABLES
  present,     \* the device is in the devs list (initfn done, exitfn not yet)
  msi_en,      \* PCI_MSI_FLAGS_ENABLE in the emulated MSI capability
  msix_en,     \* PCI_MSIX_ENABLE in the emulated MSI-X capability
  table,       \* [Vectors -> [data: Messages, masked: BOOLEAN]]: adev->msix_table
  msimsg,      \* address and data of the emulated MSI capability
  route,       \* the PIIX PIRQ route of the device's pin (piix_get_irq)
  girq,        \* dev->girq, -1 when none
  requested,   \* dev->irq_requested_type
  entries,     \* [Vectors -> GSIs \cup {0}]: dev->entry[i].gsi, 0 when type is 0
  emsg,        \* [Vectors -> Messages]: dev->entry[i].u.msi
  nr,          \* dev->irq_entries_nr
  unplug_req,  \* qdev_unplug was asked for the device
  kirq,        \* the interrupt kind KVM delivers for the device
  kroutes,     \* GSIs in KVM's routing table
  kmsg,        \* [GSIs -> Messages]: the message of each GSI's table entry
  faults,      \* host calls that failed so far
  dual         \* history: both enable bits were set together while present

vars == <<present, msi_en, msix_en, table, msimsg, route, girq, requested, entries,
          emsg, nr, unplug_req, kirq, kroutes, kmsg, faults, dual>>

(* The state as a record, so that the C functions, which call each other, *)
(* can be written as operators from state to state.                       *)
St == [present |-> present, msi_en |-> msi_en, msix_en |-> msix_en, table |-> table,
       msimsg |-> msimsg, route |-> route, girq |-> girq, requested |-> requested,
       entries |-> entries, emsg |-> emsg, nr |-> nr, unplug_req |-> unplug_req,
       kirq |-> kirq, kroutes |-> kroutes, kmsg |-> kmsg, faults |-> faults]

Commit(s) ==
  /\ present' = s.present /\ msi_en' = s.msi_en /\ msix_en' = s.msix_en
  /\ table' = s.table /\ msimsg' = s.msimsg /\ route' = s.route /\ girq' = s.girq
  /\ requested' = s.requested /\ entries' = s.entries /\ emsg' = s.emsg /\ nr' = s.nr
  /\ unplug_req' = s.unplug_req /\ kirq' = s.kirq /\ kroutes' = s.kroutes
  /\ kmsg' = s.kmsg /\ faults' = s.faults
  /\ dual' = (s.present /\ (dual \/ (s.msi_en /\ s.msix_en)))

Failed(s) == [s EXCEPT !.faults = @ + 1]

(* The entries QEMU will delete: entry[i] with i < irq_entries_nr and a  *)
(* type, and their GSIs.                                                   *)
TrackedIdx(s) == {j \in Vectors : j < s.nr /\ s.entries[j] /= 0}
Tracked(s) == {s.entries[i] : i \in TrackedIdx(s)}

(* The library's lookup of QEMU's copy of entry i: the table has an entry *)
(* with its GSI and message.                                              *)
InTable(s, i) == s.entries[i] \in s.kroutes /\ s.kmsg[s.entries[i]] = s.emsg[i]

(* free_dev_irq_entries: kvm_del_routing_entry of each typed entry, which *)
(* deletes the table entry matching it (-ESRCH, ignored, when none does),  *)
(* then free the array.                                                    *)
FreeDevIrqEntries(s) ==
  LET gone == {s.entries[i] : i \in {j \in TrackedIdx(s) : InTable(s, j)}}
  IN [s EXCEPT !.kroutes = @ \ gone,
               !.kmsg = [g \in GSIs |-> IF g \in gone THEN 0 ELSE @[g]],
               !.entries = [i \in Vectors |-> 0], !.emsg = [i \in Vectors |-> 0], !.nr = 0]

(* kvm_deassign_irq with the given flags; -ENXIO (nothing of that kind     *)
(* assigned) is tolerated by every caller.                                *)
KvmDeassignIrq(s, flags) ==
  IF flags /= NONE /\ s.kirq = flags THEN [s EXCEPT !.kirq = NONE] ELSE s

(* kvm_get_irq_route_gsi: the lowest GSI not in the routing table. *)
FreeGsis(s) == GSIs \ s.kroutes

(* deassign_device: KVM drops the device and whatever irq it had. *)
DeassignDevice(s) == [s EXCEPT !.kirq = NONE]

(* assign_irq: nothing to do when the PIRQ route still gives girq; else    *)
(* deassign the previous kind, then assign INTx on the new line. Result:   *)
(* [st |-> state, ok |-> whether it returned 0]. The interrupt pin of the  *)
(* device is non-zero (a device without one returns at once).             *)
AssignIrq(s, fail) ==
  IF s.girq = s.route THEN [st |-> s, ok |-> TRUE]
  ELSE LET s1 == KvmDeassignIrq(s, s.requested)
       IN IF fail = "assign" THEN [st |-> Failed(s1), ok |-> FALSE]
          ELSE IF s1.kirq /= NONE THEN [st |-> s1, ok |-> FALSE]
          ELSE [st |-> [s1 EXCEPT !.kirq = INTX, !.girq = s.route, !.requested = INTX],
                ok |-> TRUE]

(* Mutant: the request is forgotten without kvm_deassign_irq. *)
TeardownNoDeassign(s, kind, enabling) ==
  IF s.requested = kind \/ enabling
    THEN [FreeDevIrqEntries(s) EXCEPT !.requested = NONE]
    ELSE s

(* The "deassign if the guest is using it or intends to start" prologue of *)
(* assigned_dev_update_msi / _msix.                                        *)
Teardown(s, kind, enabling) ==
  IF s.requested = kind \/ enabling
    THEN [KvmDeassignIrq(FreeDevIrqEntries(s), s.requested) EXCEPT !.requested = NONE]
    ELSE s

(* assigned_dev_update_msi, after the enable bit was written. On a commit  *)
(* failure it returns with the route added but irq_entries_nr still 0; a   *)
(* failed kvm_assign_irq still records the MSI request.                    *)
UpdateMsi(s, fail) ==
  LET s1 == Teardown(s, MSI, s.msi_en)
  IN IF ~s.msi_en THEN s1
     ELSE IF FreeGsis(s1) = {} THEN s1
     ELSE LET g  == Min(FreeGsis(s1))
              s2 == [s1 EXCEPT !.entries[0] = g, !.emsg[0] = s1.msimsg,
                           !.kroutes = @ \cup {g}, !.kmsg[g] = s1.msimsg]
          IN IF fail = "commit" THEN Failed(s2)
             ELSE IF fail = "assign" THEN [Failed(s2) EXCEPT !.nr = 1, !.requested = MSI]
             ELSE [s2 EXCEPT !.nr = 1, !.requested = MSI,
                             !.kirq = IF s2.kirq = NONE THEN MSI ELSE @]

(* Mutant: the error kvm_get_irq_route_gsi returns is used as a GSI. *)
RECURSIVE RegisterVectorsNoGsiCheck(_, _, _)
RegisterVectorsNoGsiCheck(s, i, fail) ==
  IF i >= MsixMax THEN [st |-> s, ok |-> TRUE]
  ELSE IF s.table[i].data = 0 THEN RegisterVectorsNoGsiCheck(s, i + 1, fail)
  ELSE LET g  == IF FreeGsis(s) = {} THEN -1 ELSE Min(FreeGsis(s))
           s1 == [s EXCEPT !.entries[i] = g, !.emsg[i] = s.table[i].data,
                           !.kroutes = @ \cup {g}]
       IN IF fail = "msix_entry" THEN [st |-> Failed(s1), ok |-> FALSE]
          ELSE RegisterVectorsNoGsiCheck(s1, i + 1, fail)

(* The loop of assigned_dev_update_msix_mmio registering vectors from i on: *)
(* skip a vector whose data is 0, else take a GSI, add the route, set the  *)
(* MSI-X entry; a failure returns (gsi) or breaks (set entry) with r < 0.  *)
RECURSIVE RegisterVectors(_, _, _)
RegisterVectors(s, i, fail) ==
  IF i >= MsixMax THEN [st |-> s, ok |-> TRUE]
  ELSE IF s.table[i].data = 0 THEN RegisterVectors(s, i + 1, fail)
  ELSE IF FreeGsis(s) = {} THEN [st |-> s, ok |-> FALSE]
  ELSE LET g  == Min(FreeGsis(s))
           s1 == [s EXCEPT !.entries[i] = g, !.emsg[i] = s.table[i].data,
                           !.kroutes = @ \cup {g}, !.kmsg[g] = s.table[i].data]
       IN IF fail = "msix_entry" THEN [st |-> Failed(s1), ok |-> FALSE]
          ELSE RegisterVectors(s1, i + 1, fail)

(* Mutant: irq_entries_nr set to the number of programmed vectors rather  *)
(* than msix_max, although entries are indexed by vector number.          *)
UpdateMsixMmioNrCount(s, fail) ==
  IF \A i \in Vectors : s.table[i].data = 0 THEN [st |-> s, ok |-> TRUE]
  ELSE IF fail = "msix_nr" THEN [st |-> Failed(s), ok |-> FALSE]
  ELSE LET reg == RegisterVectors([FreeDevIrqEntries(s) EXCEPT
                                     !.nr = Cardinality({i \in Vectors : s.table[i].data /= 0})], 0, fail)
       IN IF reg.ok /\ fail = "commit" THEN [st |-> Failed(reg.st), ok |-> FALSE]
          ELSE reg

(* assigned_dev_update_msix_mmio: nothing when every vector's data is 0;  *)
(* else set the vector count, free the old entries, size the entry array   *)
(* to msix_max, register the vectors and commit.                           *)
UpdateMsixMmio(s, fail) ==
  IF \A i \in Vectors : s.table[i].data = 0 THEN [st |-> s, ok |-> TRUE]
  ELSE IF fail = "msix_nr" THEN [st |-> Failed(s), ok |-> FALSE]
  ELSE LET reg == RegisterVectors([FreeDevIrqEntries(s) EXCEPT !.nr = MsixMax], 0, fail)
       IN IF reg.ok /\ fail = "commit" THEN [st |-> Failed(reg.st), ok |-> FALSE]
          ELSE reg

(* assigned_dev_update_msix, after the enable bit was written: the MSI-X  *)
(* request is recorded even when no vector was registered.                 *)
UpdateMsix(s, fail) ==
  LET s1 == Teardown(s, MSIX, s.msix_en)
  IN IF ~s.msix_en THEN s1
     ELSE LET m == UpdateMsixMmio(s1, fail)
          IN IF ~m.ok THEN m.st
             ELSE IF m.st.nr = 0 THEN [m.st EXCEPT !.requested = MSIX]
             ELSE IF fail = "assign" THEN Failed(m.st)
             ELSE IF m.st.kirq /= NONE THEN m.st
             ELSE [m.st EXCEPT !.kirq = MSIX, !.requested = MSIX]

-----------------------------------------------------------------------------
(* The failure inputs of one step: a step fails only while faults remain. *)
FailChoices == IF faults < MaxFaults THEN Faults \cup {"none"} ELSE {"none"}

Init ==
  /\ present = FALSE
  /\ msi_en = FALSE
  /\ msix_en = FALSE
  /\ table = [i \in Vectors |-> [data |-> 0, masked |-> TRUE]]
  /\ msimsg = 0
  /\ route \in GuestIrqs
  /\ girq = -1
  /\ requested = NONE
  /\ entries = [i \in Vectors |-> 0]
  /\ emsg = [i \in Vectors |-> 0]
  /\ nr = 0
  /\ unplug_req = FALSE
  /\ kirq = NONE
  /\ kroutes = {}
  /\ kmsg = [g \in GSIs |-> 0]
  /\ faults = 0
  /\ dual = FALSE

(* assigned_initfn, interrupt part, on a freshly zeroed AssignedDevice:   *)
(* girq = -1, assign_device, assign_irq, then the MSI-X table page        *)
(* (register_msix_mmio: msix_reset masks every vector). A failure after   *)
(* assign_device goes to assigned_out (deassign_device) and out           *)
(* (free_assigned_device). assigned_device_pci_cap_init zeroes the MSI    *)
(* address and data.                                                      *)
Fresh(s) == [s EXCEPT !.msi_en = FALSE, !.msix_en = FALSE, !.msimsg = 0, !.girq = -1,
                      !.requested = NONE, !.entries = [i \in Vectors |-> 0],
                      !.emsg = [i \in Vectors |-> 0], !.nr = 0, !.unplug_req = FALSE,
                      !.table = [i \in Vectors |-> [data |-> 0, masked |-> TRUE]]]
Initfn(fail) ==
  /\ ~present
  /\ LET s0 == Fresh(St)
         a  == AssignIrq(s0, fail)
     IN Commit(CASE fail = "assign_dev" -> Failed(s0)
               [] ~a.ok                  -> DeassignDevice(a.st)
               [] fail = "msix_mmio"     -> Failed(DeassignDevice(a.st))
               [] OTHER                  -> [a.st EXCEPT !.present = TRUE])

(* free_assigned_device: what it releases besides the irq entries (BAR   *)
(* mappings and ioperm, the MSI-X table page, the config and resource     *)
(* fds) is host state outside the model; it ends with free_dev_irq_entries. *)
FreeAssignedDevice(s) == FreeDevIrqEntries(s)

(* assigned_exitfn: deassign_device, then free_assigned_device. *)
Exitfn ==
  /\ present
  /\ Commit([FreeAssignedDevice(DeassignDevice(St)) EXCEPT !.present = FALSE])

(* pci_default_write_config of the PIIX PIRQ route register:              *)
(* assigned_dev_update_irqs runs assign_irq and asks for the device to be  *)
(* unplugged when it fails.                                               *)
WritePiixRoute(irq, fail) ==
  LET a == AssignIrq([St EXCEPT !.route = irq], fail)
  IN IF present
       THEN Commit(IF a.ok THEN a.st ELSE [a.st EXCEPT !.unplug_req = TRUE])
       ELSE Commit([St EXCEPT !.route = irq])

(* Mutant: the message is checked against the request but not the enable *)
(* bit, and QEMU's entry is replaced without the library's.               *)
UpdateMsiMsgCopyOnly(s) ==
  IF s.requested /= MSI THEN s
  ELSE [s EXCEPT !.emsg[0] = s.msimsg]

(* assigned_dev_update_msi_msg, after the message was written: nothing     *)
(* unless MSI is requested and enabled; else kvm_update_routing_entry      *)
(* replaces the table entry matching QEMU's entry by one with the same GSI *)
(* and the new message, and QEMU's entry follows; on failure QEMU keeps   *)
(* the old one. The commit that follows changes neither copy.             *)
UpdateMsiMsg(s) ==
  IF s.requested /= MSI \/ ~s.msi_en THEN s
  ELSE IF ~InTable(s, 0) THEN s
  ELSE [s EXCEPT !.emsg[0] = s.msimsg, !.kmsg[s.entries[0]] = s.msimsg]

(* A guest config write to the MSI message (address or data):            *)
(* assigned_dev_pci_write_config hands bytes config_map owns to          *)
(* assigned_device_pci_cap_write_config, which stores them through wmask *)
(* and, the flags byte untouched, runs assigned_dev_update_msi_msg.      *)
WriteMsiMsg(m) ==
  /\ present
  /\ Commit(UpdateMsiMsg([St EXCEPT !.msimsg = m]))

(* assigned_device_pci_cap_write_config on the MSI flags byte. *)
WriteMsiFlags(en, fail) ==
  /\ present
  /\ Commit(UpdateMsi([St EXCEPT !.msi_en = en], fail))

(* assigned_device_pci_cap_write_config on the MSI-X control's high byte. *)
WriteMsixFlags(en, fail) ==
  /\ present
  /\ Commit(UpdateMsix([St EXCEPT !.msix_en = en], fail))

(* msix_mmio_writel on the data dword of vector i. The guest changes a     *)
(* vector's message only while it is masked or MSI-X is off (PCI: changing *)
(* an unmasked entry is undefined). No mask transition: nothing else runs. *)
MsixWriteData(i, data) ==
  /\ present
  /\ table[i].masked \/ ~msix_en
  /\ table' = [table EXCEPT ![i].data = data]
  /\ UNCHANGED <<present, msi_en, msix_en, msimsg, route, girq, requested, entries,
                 emsg, nr, unplug_req, kirq, kroutes, kmsg, faults, dual>>

(* Mutant: QEMU's entry takes the new message but the library's is never *)
(* updated.                                                              *)
UpdateEntryCopyOnly(s, i) == [s EXCEPT !.emsg[i] = s.table[i].data]

(* The "update an existing, previously masked vector" branch of           *)
(* msix_mmio_writel: entry[i] takes the table's message; if that changed  *)
(* it, kvm_update_routing_entry replaces the table entry matching the old *)
(* copy, and on failure returns with entry[i] keeping the new message.    *)
(* The commit that follows changes neither copy.                          *)
UpdateEntry(s, i) ==
  LET g == s.entries[i]
  IN IF s.table[i].data = s.emsg[i] THEN s
     ELSE [s EXCEPT !.emsg[i] = s.table[i].data,
                    !.kmsg = IF InTable(s, i) THEN [@ EXCEPT ![g] = s.table[i].data] ELSE @]

(* Mutant: only i >= irq_entries_nr counts as "previously unassigned". *)
MsixWriteCtrlIndexOnly(i, masked, fail) ==
  /\ present
  /\ LET s1 == [St EXCEPT !.table[i].masked = masked]
     IN Commit(IF msix_en /\ table[i].masked /\ ~masked
                 THEN IF i >= nr THEN UpdateMsix(s1, fail) ELSE UpdateEntry(s1, i)
                 ELSE s1)

(* msix_mmio_writel on the vector-control dword of vector i. With MSI-X    *)
(* on, an unmask of a vector with no entry starts over with                *)
(* assigned_dev_update_msix; an unmask of a vector with an entry updates   *)
(* that route in place; a mask does nothing.                              *)
MsixWriteCtrl(i, masked, fail) ==
  /\ present
  /\ LET s1 == [St EXCEPT !.table[i].masked = masked]
     IN Commit(IF msix_en /\ table[i].masked /\ ~masked
                 THEN IF i >= nr \/ entries[i] = 0 THEN UpdateMsix(s1, fail)
                      ELSE UpdateEntry(s1, i)
                 ELSE s1)

(* reset_assigned_device: clear the enable bit of MSI-X, else of MSI, if   *)
(* the guest was using it, and run the update; the sysfs reset and the     *)
(* command write that follow do not touch interrupt routing.              *)
Reset(fail) ==
  /\ present
  /\ Commit(CASE requested = MSIX -> UpdateMsix([St EXCEPT !.msix_en = FALSE], fail)
              [] requested = MSI  -> UpdateMsi([St EXCEPT !.msi_en = FALSE], fail)
              [] OTHER            -> St)

Next ==
  \/ \E fail \in FailChoices : Initfn(fail)
  \/ Exitfn
  \/ \E irq \in GuestIrqs, fail \in FailChoices : WritePiixRoute(irq, fail)
  \/ \E en \in BOOLEAN, fail \in FailChoices : WriteMsiFlags(en, fail)
  \/ \E m \in Messages : WriteMsiMsg(m)
  \/ \E en \in BOOLEAN, fail \in FailChoices : WriteMsixFlags(en, fail)
  \/ \E i \in Vectors, data \in Messages : MsixWriteData(i, data)
  \/ \E i \in Vectors, masked \in BOOLEAN, fail \in FailChoices : MsixWriteCtrl(i, masked, fail)
  \/ \E fail \in FailChoices : Reset(fail)

Spec == Init /\ [][Next]_vars

-----------------------------------------------------------------------------
TypeOK ==
  /\ present \in BOOLEAN /\ msi_en \in BOOLEAN /\ msix_en \in BOOLEAN
  /\ table \in [Vectors -> [data : Messages, masked : BOOLEAN]] /\ msimsg \in Messages
  /\ route \in GuestIrqs /\ girq \in GuestIrqs \cup {-1}
  /\ requested \in Kinds /\ kirq \in Kinds
  /\ entries \in [Vectors -> GSIs \cup {0}] /\ emsg \in [Vectors -> Messages]
  /\ nr \in 0..MsixMax /\ kmsg \in [GSIs -> Messages]
  /\ unplug_req \in BOOLEAN /\ kroutes \subseteq GSIs /\ faults \in 0..MaxFaults
  /\ dual \in BOOLEAN

(* Every GSI route in KVM's table is one QEMU tracks in                    *)
(* entry[0..irq_entries_nr-1], each under one vector only and with the     *)
(* message QEMU's copy holds, so that free_dev_irq_entries (on a mode       *)
(* change, reset or exitfn), whose deletes match by contents, removes      *)
(* exactly the routes the device added and the GSI pool never leaks.       *)
RoutesTracked ==
  /\ kroutes = Tracked(St)
  /\ \A i \in TrackedIdx(St) : kmsg[entries[i]] = emsg[i]
  /\ \A i, j \in Vectors : i < nr /\ j < nr /\ entries[i] /= 0 /\ entries[i] = entries[j] => i = j

(* Whatever KVM delivers for the device is what irq_requested_type says:   *)
(* the flags QEMU passes to kvm_deassign_irq always name the active        *)
(* interrupt, so a later mode change can tear it down.                    *)
KernelIrqTracked == kirq /= NONE => requested = kirq

(* With MSI-X on and no host call failed, every unmasked vector whose      *)
(* message is programmed has a GSI route: enabling registers the vectors   *)
(* with non-zero data, and unmasking a vector that had none starts over.   *)
MsixVectorsRouted ==
  (present /\ faults = 0 /\ msix_en /\ requested = MSIX) =>
    \A i \in Vectors : table[i].data /= 0 /\ ~table[i].masked => i < nr /\ entries[i] /= 0

(* Interrupts go where the guest last pointed them: while MSI is requested *)
(* and enabled, its route carries the capability's current message, and   *)
(* while MSI-X is, the route of every unmasked vector carries that        *)
(* vector's message.                                                       *)
RoutesFollowAnyGuest ==
  /\ (requested = MSI /\ msi_en /\ 0 < nr) => kmsg[entries[0]] = msimsg
  /\ (requested = MSIX /\ msix_en) =>
       \A i \in TrackedIdx(St) : ~table[i].masked => kmsg[entries[i]] = table[i].data

(* The same for a guest that never sets the MSI and MSI-X enable bits      *)
(* together (dual), as the PCI rules require, whatever order it writes     *)
(* messages, masks and enable bits in (update_msi_msg, the in-place update *)
(* on unmask, the start-over paths), with host calls failing.              *)
(* msix_mmio_writel does not look at the requested mode: with both bits    *)
(* set an MSI-X unmask rewrites the MSI route entry[0] with the vector's   *)
(* message, and the route stays wrong after MSI-X is turned off.           *)
RoutesFollowGuest == ~dual => RoutesFollowAnyGuest

(* With no host call failed, KVM delivers the device's interrupts the way  *)
(* the guest configured it: MSI when the MSI enable bit is set, INTx when  *)
(* neither MSI nor MSI-X is on.                                           *)
DeliveryMatchesGuest ==
  (present /\ faults = 0 /\ ~msix_en) => kirq = (IF msi_en THEN MSI ELSE INTX)
=============================================================================
