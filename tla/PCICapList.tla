------------------------------ MODULE PCICapList ------------------------------
(***************************************************************************)
(* The capability list of one PCI function (hw/pci.c): the linked list    *)
(* kept inside config space, head in config[PCI_CAPABILITY_LIST], each     *)
(* node an ID byte and a NEXT byte, with config_map recording which        *)
(* capability owns each byte and wmask which bytes the guest may write.    *)
(*                                                                         *)
(* Device code adds and removes capabilities (pci_add_capability,          *)
(* pci_del_capability); device assignment adds each capability it mirrors *)
(* from the host at the host's offset, with the host's length for vendor   *)
(* capabilities. The guest writes config bytes above the header through    *)
(* pci_default_write_config, masked by wmask.                              *)
(*                                                                         *)
(* An assigned device (hw/device-assignment.c) starts from a copy of the   *)
(* host's config space: assigned_device_pci_cap_init walks the host's own *)
(* chain with pci_find_cap_offset and re-adds each capability it supports *)
(* at the host's offset. The guest's config reads then come from the       *)
(* emulated bytes or from the host's, byte by byte, through                *)
(* assigned_dev_pci_read_config. The host's chain bytes are read-only      *)
(* (hardware), so host is fixed once the device exists.                   *)
(*                                                                         *)
(* Config space is scaled down: Size bytes, the first HeaderSize of them   *)
(* the standard header (0x40). Values stored in config stay bytes.        *)
(* live is the capability set the calls so far have created (every        *)
(* successful add, minus what each delete unlinked): what the byte-level  *)
(* structure is supposed to represent.                                    *)
(***************************************************************************)
EXTENDS Integers, Sequences, FiniteSets

CONSTANTS
  Size,        \* pci_config_size(): PCI_CONFIG_SPACE_SIZE, scaled
  HeaderSize,  \* PCI_CONFIG_HEADER_SIZE, scaled
  CapPtr,      \* PCI_CAPABILITY_LIST: the head byte, inside the header
  CapIds,      \* capability IDs device code adds (PCI_CAP_ID_*)
  CapSize,     \* [CapIds -> Nat]: the size each caller passes for an ID
  Offsets,     \* offsets callers pass: 0 (find space) or a host position
  GuestAddrs,  \* config bytes above the header the guest writes
  GuestVals,   \* values the guest writes to them
  CapAlign,    \* the alignment pci_find_cap_offset forces (pos &= ~3), scaled
  HostConfigs, \* host devices: [bytes: [Idx -> 0..255], caplist: BOOLEAN]
  NoHost       \* host of an emulated device

ASSUME CapPtr \in 0..(HeaderSize - 1) /\ HeaderSize < Size /\ CapAlign > 0

Idx == 0..(Size - 1)
Hdr == 255                  \* config_map value of the header bytes (0xff)
PCI_CAP_LIST_ID == 0
PCI_CAP_LIST_NEXT == 1
PCI_CAP_FLAGS == 2          \* the vendor capability's length byte
PCI_CAP_ID_MSI == 5
PCI_CAP_ID_MSIX == 17
PCI_CAP_ID_VNDR == 9
PCI_CAP_ID_VPD == 3
(* The IDs assigned_device_pci_cap_init mirrors before the vendor ones, in *)
(* its order: MSI, MSI-X, PM, PCI Express, PCI-X, VPD; sizes from CapSize.  *)
InitOrder == SelectSeq(<<5, 17, 1, 16, 7, 3>>, LAMBDA id : id \in CapIds)
(* max_cap = 48: the aligned positions above the header. *)
MaxCap == (Size - HeaderSize) \div CapAlign

VARIABLES
  config,      \* [Idx -> Nat]: pdev->config
  cmap,        \* [Idx -> CapIds \cup {0, Hdr}]: pdev->config_map
  wmask,       \* [Idx -> BOOLEAN]: pdev->wmask, writable (0xff) or not (0)
  status_cap,  \* PCI_STATUS_CAP_LIST in config[PCI_STATUS]
  live,        \* set of [id, off, size]: the capabilities the calls created
  beyond,      \* bytes past the end of config space that were written
  host,        \* the host device an assigned device mirrors, or NoHost
  phase        \* "ready"; "absent": no assigned device yet; "hung": in initfn for ever

vars == <<config, cmap, wmask, status_cap, live, beyond, host, phase>>

St == [config |-> config, cmap |-> cmap, wmask |-> wmask, status_cap |-> status_cap,
       live |-> live, beyond |-> beyond]
Commit(s) ==
  /\ config' = s.config /\ cmap' = s.cmap /\ wmask' = s.wmask
  /\ status_cap' = s.status_cap /\ live' = s.live /\ beyond' = s.beyond

Range(a, n) == a..(a + n - 1)

(* pci_find_space: the first run of size free bytes after the header, or 0. *)
RECURSIVE FindSpaceFrom(_, _, _)
FindSpaceFrom(i, offset, size) ==
  IF i >= Size THEN 0
  ELSE IF cmap[i] /= 0 THEN FindSpaceFrom(i + 1, i + 1, size)
  ELSE IF i - offset + 1 = size THEN offset
  ELSE FindSpaceFrom(i + 1, offset, size)
FindSpace(size) == FindSpaceFrom(HeaderSize, HeaderSize, size)

(* pci_find_capability_list: walk from PCI_CAPABILITY_LIST to the first    *)
(* node with the ID; [next |-> 0] when absent or the status bit is clear.  *)
(* The walk is cut after Size steps, which only a cyclic list reaches.     *)
RECURSIVE FindFrom(_, _, _)
FindFrom(prev, id, fuel) ==
  LET next == config[prev]
  IN IF next = 0 \/ fuel = 0 \/ next + PCI_CAP_LIST_NEXT >= Size
       THEN [next |-> 0, prev |-> prev]
     ELSE IF config[next + PCI_CAP_LIST_ID] = id THEN [next |-> next, prev |-> prev]
     ELSE FindFrom(next + PCI_CAP_LIST_NEXT, id, fuel - 1)
FindCapabilityList(id) ==
  IF ~status_cap THEN [next |-> 0, prev |-> CapPtr] ELSE FindFrom(CapPtr, id, Size)

(* pci_config_alloc and pci_init_wmask: nothing owned above the header, *)
(* all of it writable.                                                    *)
Fresh(bytes, caplist) ==
  [config |-> bytes, cmap |-> [i \in Idx |-> IF i < HeaderSize THEN Hdr ELSE 0],
   wmask |-> [i \in Idx |-> i >= HeaderSize], status_cap |-> caplist,
   live |-> {}, beyond |-> FALSE]

(* An emulated function (ready, no host), or the slot an assigned device  *)
(* will be added to.                                                       *)
Init ==
  /\ LET f == Fresh([i \in Idx |-> 0], FALSE)
     IN /\ config = f.config /\ cmap = f.cmap /\ wmask = f.wmask
        /\ status_cap = f.status_cap /\ live = f.live /\ beyond = f.beyond
  /\ host = NoHost
  /\ phase \in {"ready", "absent"}

Emulated == host = NoHost /\ phase = "ready"

(* Mutant: config_map is filled with the offset instead of the ID. *)
LinkCapabilityMapOffset(id, off, size) ==
  /\ config' = [i \in Idx |-> CASE i = off + PCI_CAP_LIST_ID   -> id
                                [] i = off + PCI_CAP_LIST_NEXT -> config[CapPtr]
                                [] i = CapPtr                  -> off
                                [] OTHER                       -> config[i]]
  /\ cmap' = [i \in Idx |-> IF i \in Range(off, size) THEN off ELSE cmap[i]]
  /\ wmask' = [i \in Idx |-> IF i \in Range(off, size) THEN FALSE ELSE wmask[i]]
  /\ status_cap' = TRUE
  /\ live' = live \cup {[id |-> id, off |-> off, size |-> size]}
  /\ beyond' = (beyond \/ off + size > Size)
  /\ UNCHANGED <<host, phase>>

(* The linking and claiming half of pci_add_capability, at offset off. *)
Linked(s, id, off, size) ==
  [s EXCEPT !.config = [i \in Idx |-> CASE i = off + PCI_CAP_LIST_ID   -> id
                                       [] i = off + PCI_CAP_LIST_NEXT -> s.config[CapPtr]
                                       [] i = CapPtr                  -> off
                                       [] OTHER                       -> s.config[i]],
            !.cmap = [i \in Idx |-> IF i \in Range(off, size) THEN id ELSE s.cmap[i]],
            !.wmask = [i \in Idx |-> IF i \in Range(off, size) THEN FALSE ELSE s.wmask[i]],
            !.status_cap = TRUE,
            !.live = @ \cup {[id |-> id, off |-> off, size |-> size]},
            !.beyond = @ \/ off + size > Size]
LinkCapability(id, off, size) ==
  /\ Commit(Linked(St, id, off, size))
  /\ UNCHANGED <<host, phase>>

(* pci_add_capability at an explicit offset, as a state function: -EFAULT *)
(* (ok false, nothing changed) when a byte of the range is owned.         *)
AddAt(s, id, off, size) ==
  IF \E i \in Range(off, size) \cap Idx : s.cmap[i] /= 0
    THEN [ok |-> FALSE, s |-> s]
    ELSE [ok |-> TRUE, s |-> Linked(s, id, off, size)]

(* Mutant: the overlap scan stops one byte short of the end of the range. *)
AddCapabilityShortScan(id, off) ==
  LET size == CapSize[id]
  IN IF off = 0
       THEN LET o == FindSpace(size) IN o /= 0 /\ LinkCapability(id, o, size)
       ELSE /\ \A i \in Range(off, size - 1) \cap Idx : cmap[i] = 0
            /\ LinkCapability(id, off, size)

(* pci_add_capability(pdev, id, off, CapSize[id]). With off = 0 the space  *)
(* comes from pci_find_space (-ENOSPC when there is none); otherwise every *)
(* byte of the range is checked against config_map (-EFAULT on overlap).   *)
(* The check reads config_map[i] for i up to off + size - 1 with no bound  *)
(* against the config size: past the end it reads whatever the heap holds  *)
(* there. A nonzero heap byte makes the add return -EFAULT with nothing    *)
(* changed, a stutter; the action is the outcome where the heap reads 0,   *)
(* and the memsets then write past the end of the arrays (beyond).         *)
AddCapability(id, off) ==
  LET size == CapSize[id]
  IN IF off = 0
       THEN LET o == FindSpace(size) IN o /= 0 /\ LinkCapability(id, o, size)
       ELSE /\ \A i \in Range(off, size) \cap Idx : cmap[i] = 0
            /\ LinkCapability(id, off, size)

(* Mutant: the status bit is left set when the list becomes empty. *)
DelCapabilityKeepStatus(id) ==
  LET f    == FindCapabilityList(id)
      size == CapSize[id]
  IN /\ f.next /= 0
     /\ config' = [config EXCEPT ![f.prev] = config[f.next + PCI_CAP_LIST_NEXT]]
     /\ wmask' = [i \in Idx |-> IF i \in Range(f.next, size) THEN TRUE ELSE wmask[i]]
     /\ cmap' = [i \in Idx |-> IF i \in Range(f.next, size) THEN 0 ELSE cmap[i]]
     /\ UNCHANGED status_cap
     /\ live' = {c \in live : c.off /= f.next}
     /\ UNCHANGED <<beyond, host, phase>>

(* pci_del_capability(pdev, id, CapSize[id]): unlink the first node with  *)
(* the ID, make its bytes writable and unowned again, and clear the status *)
(* bit when the list is left empty.                                        *)
DelCapability(id) ==
  LET f    == FindCapabilityList(id)
      size == CapSize[id]
  IN /\ f.next /= 0
     /\ config' = [config EXCEPT ![f.prev] = config[f.next + PCI_CAP_LIST_NEXT]]
     /\ wmask' = [i \in Idx |-> IF i \in Range(f.next, size) THEN TRUE ELSE wmask[i]]
     /\ cmap' = [i \in Idx |-> IF i \in Range(f.next, size) THEN 0 ELSE cmap[i]]
     /\ status_cap' = (config'[CapPtr] /= 0)
     /\ live' = {c \in live : c.off /= f.next}
     /\ UNCHANGED <<beyond, host, phase>>

(* pci_default_write_config of one byte above the header: only the bits   *)
(* wmask allows change; nothing else there triggers a side effect.        *)
WriteConfig(a, v) ==
  /\ config' = [config EXCEPT ![a] = IF wmask[a] THEN v ELSE @]
  /\ UNCHANGED <<cmap, wmask, status_cap, live, beyond, host, phase>>

-----------------------------------------------------------------------------
(* Device assignment. A host byte past the scaled config space reads 0;   *)
(* at full size every position pci_find_cap_offset reaches is inside it.  *)
HostByte(h, i) == IF i \in Idx THEN h.bytes[i] ELSE 0

(* Mutant: the pointer is used without aligning it down. *)
RECURSIVE HostWalkNoAlign(_, _, _, _)
HostWalkNoAlign(h, cap, pos, n) ==
  LET q == HostByte(h, pos)
  IN IF n = 0 \/ q < HeaderSize \/ HostByte(h, q + PCI_CAP_LIST_ID) = 255 THEN 0
     ELSE IF HostByte(h, q + PCI_CAP_LIST_ID) = cap THEN q
     ELSE HostWalkNoAlign(h, cap, q + PCI_CAP_LIST_NEXT, n - 1)

(* pci_find_cap_offset: 0 unless the host's status has the list bit; else *)
(* follow the host's pointers from start (PCI_CAPABILITY_LIST when 0), at  *)
(* most max_cap of them, stopping at a pointer into the header or an ID of *)
(* 0xff; each pointer is aligned down before its ID is read.              *)
RECURSIVE HostWalk(_, _, _, _)
HostWalk(h, cap, pos, n) ==
  LET p == HostByte(h, pos)
      q == p - (p % CapAlign)
  IN IF n = 0 \/ p < HeaderSize \/ HostByte(h, q + PCI_CAP_LIST_ID) = 255 THEN 0
     ELSE IF HostByte(h, q + PCI_CAP_LIST_ID) = cap THEN q
     ELSE HostWalk(h, cap, q + PCI_CAP_LIST_NEXT, n - 1)
FindCapOffset(h, cap, start) ==
  IF ~h.caplist THEN 0 ELSE HostWalk(h, cap, IF start = 0 THEN CapPtr ELSE start, MaxCap)

(* The fields cap_init makes guest-writable after adding a capability     *)
(* (MSI flags/address/data, MSI-X flags, the PCIe device control); the    *)
(* values it masks or zeroes are data the model does not keep.            *)
RegsWritable(id, pos) == IF id \in {PCI_CAP_ID_MSI, PCI_CAP_ID_MSIX, 16} THEN {pos + 2} ELSE {}

(* The fixed-ID part of cap_init: for each ID in order, find it in the    *)
(* host chain and add it at the host's offset; the first failing add      *)
(* fails the whole init.                                                  *)
RECURSIVE MirrorIds(_, _, _)
MirrorIds(s, h, ids) ==
  IF ids = <<>> THEN [res |-> "ok", s |-> s]
  ELSE LET id  == Head(ids)
           pos == FindCapOffset(h, id, 0)
           r   == AddAt(s, id, pos, CapSize[id])
       IN IF pos = 0 THEN MirrorIds(s, h, Tail(ids))
          ELSE IF ~r.ok THEN [res |-> "fail", s |-> r.s]
          ELSE MirrorIds([r.s EXCEPT !.wmask = [i \in Idx |-> @[i] \/ i \in RegsWritable(id, pos)]],
                         h, Tail(ids))

(* The vendor loop of cap_init: every vendor capability the host chain    *)
(* holds, each searched for from the NEXT byte of the previous one, added *)
(* with the length the host's flags byte gives. The loop has no bound of  *)
(* its own: the search for the same host capability again ends it only    *)
(* through the add's overlap check. Once more rounds than aligned         *)
(* positions have succeeded, one position repeats and, the host being     *)
(* fixed, the loop never ends ("hung").                                   *)
RECURSIVE VndrLoop(_, _, _, _)
VndrLoop(s, h, start, fuel) ==
  LET pos == FindCapOffset(h, PCI_CAP_ID_VNDR, start)
      r   == AddAt(s, PCI_CAP_ID_VNDR, pos, HostByte(h, pos + PCI_CAP_FLAGS))
  IN IF pos = 0 THEN [res |-> "ok", s |-> s]
     ELSE IF fuel = 0 THEN [res |-> "hung", s |-> s]
     ELSE IF ~r.ok THEN [res |-> "fail", s |-> r.s]
     ELSE VndrLoop(r.s, h, pos + PCI_CAP_LIST_NEXT, fuel - 1)

(* assigned_device_pci_cap_init: clear the copied list head and status    *)
(* bit, mirror the fixed IDs, then the vendor capabilities.               *)
CapInit(s, h) ==
  LET s0 == [s EXCEPT !.config[CapPtr] = 0, !.status_cap = FALSE]
      r1 == MirrorIds(s0, h, InitOrder)
  IN IF r1.res /= "ok" THEN r1 ELSE VndrLoop(r1.s, h, 0, MaxCap + 1)

(* assigned_initfn of a device mirroring host h: get_real_device reads   *)
(* the host's config space into dev->config, then cap_init runs. When it  *)
(* fails, free_assigned_device frees the device and the slot is empty     *)
(* again (the host resources in between are not modelled here).           *)
AssignedInitfn(h) ==
  /\ phase = "absent"
  /\ LET r == CapInit(Fresh(h.bytes, h.caplist), h)
     IN CASE r.res = "ok"   -> Commit(r.s) /\ host' = h /\ phase' = "ready"
          [] r.res = "hung" -> Commit(r.s) /\ host' = h /\ phase' = "hung"
          [] OTHER          -> UNCHANGED vars

(* A guest config write to an assigned device above the header:         *)
(* assigned_dev_pci_write_config hands bytes a capability owns to        *)
(* assigned_device_pci_cap_write_config (pci_default_write_config, then   *)
(* the MSI/MSI-X handlers, or the host write for VPD and vendor bytes);  *)
(* any other byte goes to the host alone. The host's chain bytes are     *)
(* read-only hardware.                                                    *)
AssignedWriteConfig(a, v) ==
  /\ host /= NoHost /\ phase = "ready"
  /\ config' = [config EXCEPT ![a] = IF cmap[a] /= 0 /\ wmask[a] THEN v ELSE @]
  /\ UNCHANGED <<cmap, wmask, status_cap, live, beyond, host, phase>>

(* find_vndr_start: the last host vendor capability at or below address. *)
RECURSIVE VndrStartFrom(_, _, _, _)
VndrStartFrom(address, start, cap, fuel) ==
  LET pos == FindCapOffset(host, PCI_CAP_ID_VNDR, start)
  IN IF pos = 0 \/ fuel = 0 THEN cap
     ELSE VndrStartFrom(address, pos + PCI_CAP_LIST_NEXT,
                        IF pos <= address /\ pos > cap THEN pos ELSE cap, fuel - 1)
FindVndrStart(address) == VndrStartFrom(address, 0, 0, MaxCap + 1)

(* merge_bits with mask 0xff at pos + PCI_CAP_LIST_NEXT: the NEXT byte of *)
(* the capability comes from the emulated config, the rest from the host. *)
MergeNext(address, pos) ==
  IF address = pos + PCI_CAP_LIST_NEXT THEN config[address] ELSE HostByte(host, address)

(* Mutant: vendor bytes are passed through with no merge. *)
CapReadConfigNoMerge(address) ==
  CASE cmap[address] = PCI_CAP_ID_VPD  -> MergeNext(address, FindCapabilityList(PCI_CAP_ID_VPD).next)
    [] cmap[address] = PCI_CAP_ID_VNDR -> HostByte(host, address)
    [] OTHER                          -> config[address]

(* assigned_device_pci_cap_read_config: VPD and vendor bytes from the     *)
(* host with the emulated NEXT byte merged in; the rest emulated.         *)
CapReadConfig(address) ==
  CASE cmap[address] = PCI_CAP_ID_VPD  -> MergeNext(address, FindCapabilityList(PCI_CAP_ID_VPD).next)
    [] cmap[address] = PCI_CAP_ID_VNDR -> MergeNext(address, FindVndrStart(address))
    [] OTHER                          -> config[address]

(* assigned_dev_pci_read_config of one byte: bytes a capability owns by   *)
(* the capability handler, the list head (0x34) emulated, the rest from   *)
(* the host.                                                              *)
GuestByte(address) ==
  IF address >= HeaderSize /\ cmap[address] /= 0 THEN CapReadConfig(address)
  ELSE IF address = CapPtr THEN config[address]
  ELSE HostByte(host, address)

(* dev->cap.available: MSI or MSI-X was found. *)
CapAvailable == \E c \in live : c.id \in {PCI_CAP_ID_MSI, PCI_CAP_ID_MSIX}

(* The status word comes from the host, with PCI_STATUS_CAP_LIST killed   *)
(* unless cap.available.                                                  *)
GuestStatusCap == host.caplist /\ CapAvailable

Next ==
  \/ Emulated /\ \E id \in CapIds, off \in Offsets : AddCapability(id, off)
  \/ Emulated /\ \E id \in CapIds : DelCapability(id)
  \/ Emulated /\ \E a \in GuestAddrs, v \in GuestVals : WriteConfig(a, v)
  \/ \E h \in HostConfigs : AssignedInitfn(h)
  \/ \E a \in GuestAddrs, v \in GuestVals : AssignedWriteConfig(a, v)

Spec == Init /\ [][Next]_vars

-----------------------------------------------------------------------------
(* The offsets met walking the list from the head, -1 marking a walk that  *)
(* leaves config space or does not end within Size steps.                  *)
RECURSIVE Chain(_, _)
Chain(o, fuel) ==
  IF o = 0 THEN <<>>
  ELSE IF fuel = 0 \/ o + PCI_CAP_LIST_NEXT >= Size THEN <<-1>>
  ELSE <<o>> \o Chain(config[o + PCI_CAP_LIST_NEXT], fuel - 1)

ListOffsets == LET ch == Chain(config[CapPtr], Size) IN {ch[k] : k \in 1..Len(ch)}

TypeOK ==
  /\ config \in [Idx -> 0..255]
  /\ cmap \in [Idx -> CapIds \cup {0, Hdr}]
  /\ wmask \in [Idx -> BOOLEAN]
  /\ status_cap \in BOOLEAN
  /\ beyond \in BOOLEAN
  /\ live \subseteq [id : CapIds, off : HeaderSize..(Size - 1), size : Nat]
  /\ host \in HostConfigs \cup {NoHost}
  /\ phase \in {"ready", "absent", "hung"}

(* The list in config space is exactly the capabilities device code has   *)
(* created and not deleted: walking it from PCI_CAPABILITY_LIST ends, meets *)
(* each live capability once at its offset with its ID, the status bit says *)
(* whether the list is non-empty, every byte of a live capability is owned *)
(* by it, its ID and NEXT bytes are read-only to the guest, and no other   *)
(* byte above the header is owned. A guest write, an add at a chosen or    *)
(* found offset, and a delete may come in any order; an assigned device's  *)
(* list is built by cap_init from the host's.                              *)
CapListSound ==
  LET ch == Chain(config[CapPtr], Size)
  IN /\ Len(ch) = Cardinality(live)
     /\ ListOffsets = {c.off : c \in live}
     /\ status_cap = (config[CapPtr] /= 0)
     /\ \A c \in live : config[c.off + PCI_CAP_LIST_ID] = c.id
     /\ \A c \in live : \A i \in Range(c.off, c.size) \cap Idx : cmap[i] = c.id
     /\ \A c \in live : \A i \in Range(c.off, 2) \cap Range(c.off, c.size) : ~wmask[i]
     /\ \A i \in HeaderSize..(Size - 1) :
          cmap[i] /= 0 => \E c \in live : i \in Range(c.off, c.size)

(* No two live capabilities claim a common byte (section 8 of the         *)
(* specification: capability non-overlap).                                 *)
CapsDisjoint ==
  \A c, d \in live : c /= d => Range(c.off, c.size) \cap Range(d.off, d.size) = {}

(* Every live capability lies inside config space, and nothing was written *)
(* past its end (section 4.2: the list never points outside config space). *)
CapsInBounds == ~beyond /\ \A c \in live : c.off + c.size <= Size
(* The host's list as one walk under pci_find_cap_offset's rules: the    *)
(* aligned positions met from the head, at most max_cap of them.          *)
RECURSIVE HostChain(_, _, _)
HostChain(h, pos, n) ==
  LET p == HostByte(h, pos)
      q == p - (p % CapAlign)
  IN IF n = 0 \/ p < HeaderSize \/ HostByte(h, q) = 255 THEN <<>>
     ELSE <<q>> \o HostChain(h, q + PCI_CAP_LIST_NEXT, n - 1)

(* What mirroring the host should expose: the first capability of each    *)
(* mirrored ID on the host's list and every vendor capability, each at    *)
(* the host's offset.                                                      *)
HostExposed(h) ==
  LET ch == IF h.caplist THEN HostChain(h, CapPtr, MaxCap) ELSE <<>>
      id(k) == HostByte(h, ch[k])
      first(k) == \A j \in 1..(k - 1) : id(j) /= id(k)
  IN {[id |-> id(k), off |-> ch[k]] :
        k \in {k \in 1..Len(ch) : (id(k) \in {InitOrder[j] : j \in DOMAIN InitOrder} /\ first(k))
                                  \/ id(k) = PCI_CAP_ID_VNDR}}

(* A device whose assignment succeeded exposes exactly the host           *)
(* capabilities it supports, at their host offsets: cap_init's searches,  *)
(* each restarted from the head or from the previous vendor capability    *)
(* with its own max_cap budget, find the same capabilities as one walk of *)
(* the host's list, whether that list is misaligned, points into the      *)
(* header, ends in 0xff or loops.                                          *)
CapInitMirrorsHost ==
  (host /= NoHost /\ phase = "ready") =>
    {[id |-> c.id, off |-> c.off] : c \in live} = HostExposed(host)

(* The list as the guest walks it, reading each byte through             *)
(* assigned_dev_pci_read_config; -1 for a walk that leaves config space   *)
(* or does not end.                                                        *)
RECURSIVE GuestChain(_, _)
GuestChain(o, fuel) ==
  IF o = 0 THEN <<>>
  ELSE IF fuel = 0 \/ o + PCI_CAP_LIST_NEXT >= Size THEN <<-1>>
  ELSE <<o>> \o GuestChain(GuestByte(o + PCI_CAP_LIST_NEXT), fuel - 1)

(* The guest of an assigned device sees the list QEMU built: when the    *)
(* status word it reads announces a list, walking it byte by byte through *)
(* the read dispatch (emulated head, capability bytes emulated, vendor    *)
(* and VPD bytes from the host with the emulated NEXT merged in, all else *)
(* from the host) meets exactly the live capabilities, each with its ID,  *)
(* and never a host capability QEMU did not mirror.                       *)
GuestSeesCapList ==
  (host /= NoHost /\ phase = "ready" /\ GuestStatusCap) =>
    LET ch == GuestChain(GuestByte(CapPtr), Size)
    IN /\ Len(ch) = Cardinality(live)
       /\ {[id |-> IF ch[k] = -1 THEN -1 ELSE GuestByte(ch[k]), off |-> ch[k]] : k \in 1..Len(ch)}
            = {[id |-> c.id, off |-> c.off] : c \in live}

(* Assigning a device returns: cap_init's vendor loop ends on the host    *)
(* (the specification asks for a malformed host chain to be rejected).    *)
(* Checked by PCICapList_vndr_hang.cfg, whose host has a zero-length      *)
(* vendor capability, the only case on which the loop can fail to end.   *)
CapInitReturns == phase /= "hung"
=============================================================================
