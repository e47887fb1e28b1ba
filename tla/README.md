# TLA+ models of qemu-kvm 0.12.1.2: the PCI core, device assignment, and more

This directory holds TLA+ specifications of parts of the qemu-kvm 0.12.1.2 sources in
`src/qemu-kvm-0.12.1.2/`, together with the TLC configurations that check them.
`PROJECT.json` has the machine-readable version of this document:
- the component inventory;
- every run and its properties;
- the mutants;
- the map from each definition to the source lines it translates;
- the findings;
- the hazard list.

## The system and its parts

| Part | Source | What it does |
|---|---|---|
| PCI core | `hw/pci.c`, `hw/pci.h` | Buses, bridges, config space, BAR mapping, INTx aggregation, capabilities, config migration |
| Device assignment | `hw/device-assignment.c` | Passes a host PCI function to the guest through KVM: config pass-through, BARs, and interrupts (INTx through the PIIX PIRQ routers, MSI, MSI-X through KVM GSI routes) |
| ACPI PIIX4 | `hw/acpi.c` | PM timer and SCI, GPE block, SMBus host, PCI hot-plug registers |
| Main program | `vl.c` | Option parsing, timers and the host alarm, bottom halves, the run state and reset/shutdown requests, vCPU threads, RAM live migration |
| COW image format | `block/cow.c` | The COW image driver: a header, a bitmap of written sectors, and the data area; reads fall through to the backing image |
| Helpers | `cutils.c` | String and I/O vector helpers |
| USB | `hw/usb-desc.c` | USB descriptor serialisation |
| Tool stubs | `qemu-tool.c` | Stubs for the tools build |

How these parts interact, in the modelled parts:
- Device models raise and lower INTx pins through `pci_set_irq`. The PCI core routes each pin up through the bridges to a platform line.
- Guest config writes go through `pci_default_write_config` (or `pci_bridge_write_config`), which recomputes the BAR mappings.
- A write of the PIIX PIRQ route register calls `assigned_dev_update_irqs`, so every assigned device re-assigns its INTx.
- An assigned device's own capability writes and MSI-X table writes drive the KVM routing table.
- The monitor's `device_add` registers a function (`pci_qdev_init`) and calls the host bus's hot-plug callback, `piix4_device_hotplug` in `hw/acpi.c`. It latches the PCI hot-plug GPE status, marks the slot present or awaiting removal, and raises the SCI. The guest's ACPI code reads the up/down registers and writes a slot bit to `PCI_EJ`. `acpi_piix_eject_slot` then frees the slot's functions through `qdev_free`, which calls `pci_unregister_device`. A system reset executes the removals still pending.
- RAM live migration (`vl.c`): the migration driver, which is not in this tree, calls `ram_save_live` in stages 1, 2 (repeatedly) and 3 (with the VM stopped). Each stage sends dirty pages chosen by `ram_save_block`. The vCPUs keep writing guest RAM while stages 1 and 2 run, and KVM logs those writes in its dirty log. The destination's `ram_load` reads the stream and writes its own RAM.
- Timers (`vl.c`): device models, the guest's register writes and timer callbacks arm timers on `vm_clock` (which stops while the VM is stopped) or `rt_clock` with `qemu_mod_timer`. Each clock keeps a sorted list. The dynticks host alarm is a one-shot POSIX timer armed for the nearest deadline; its signal handler sets `ALARM_FLAG_EXPIRED` and wakes the I/O thread, whose `main_loop_wait` re-arms it and runs the due timers. The ACPI PM timer (`hw/acpi.c`) is such a client: `pm_update_sci` arms it for the counter's overflow, and its callback raises the SCI.
- In `vl.c` the I/O thread and the TCG thread share `qemu_global_mutex`. Monitor commands and device models raise requests (reset, shutdown, suspend, wakeup, vmstop). `main_loop` serves them and calls `pause_all_vcpus`, which waits until the TCG thread has marked every vCPU stopped.

## Modules

| Module | Models | State | Actions |
|---|---|---|---|
| `PCIIrq` | INTx aggregation in `hw/pci.c` | `irq_state` and the `PCI_STATUS_INTERRUPT` bit per function; `irq_count` per host line; the level last handed to the platform | `SetIrq` (`pci_set_irq` with `pci_change_irq_level`), `BusReset` (`pci_bus_reset`) |
| `PIIX4Hotplug` | PIIX4 ACPI hot-plug and SCI (`hw/acpi.c`), device registration and unplug (`hw/pci.c`), composed with `PCIIrq` on the host bus (`INSTANCE PCIIrq`) | `PCIIrq`'s variables; `registered` (the functions in `bus->devices[]`); `present` and `down` (the slot bitmaps); the hot-plug bit of GPE0 status/enable; the power-button bit of PM1 status/enable; `sci`; the guest's OSPM place (`gpc`), the slots its `_L01` read (`snap`) and the slots awaiting `_EJ0` (`ejq`) | `DeviceAdd` (`pci_qdev_init`: `RegisterDevice`, `Piix4DeviceHotplug`), `DeviceDel` (`pci_unplug_device`), `DevSetIrq` (`pci_set_irq`), `OspmMethod`, `OspmDone` (the GPE status clear through `gpe_writeb`), `OspmEject` (`pciej_write`: `Eject`), `PmStsWrite`, `PmEnWrite` (`pm_ioport_writew`), `GpeEnWrite` (`gpe_writeb`), `Powerdown` (`piix4_powerdown`), `SystemReset` (`qemu_system_reset`: `pci_bus_reset`, then `piix4_reset` with `UpdateHotplug`) |
| `PciHotplugSlots` | The abstract hot-plug contract | `plugged` (functions on the bus), `pending` (functions whose removal was requested) | `Plug`, `Request`, `Remove` (one slot), `ResetRemove` |
| `PCIBarMapper` | BAR mapping in `hw/pci.c` | BAR dwords, command IO/MEM bits, bridge memory windows, each region's `addr`/`filtered_size`, and the installed decode (which region an access to each address reaches) | `WriteBar`, `WriteCommand` (`pci_default_write_config`), `WriteBridgeWindow` (`pci_bridge_write_config`), `Reset` (`pci_device_reset` of the host-bus functions) |
| `PCICapList` | The capability list in config space, `hw/pci.c`, and an assigned device's list, `hw/device-assignment.c` | `config` bytes, `config_map`, `wmask`, the `PCI_STATUS_CAP_LIST` bit; ghost `live` (the capabilities the calls created) and `beyond` (a write past the arrays); `host` (the assigned host device's config, or none) and `phase` (`absent`, `ready`, `hung`) | `AddCapability` (`pci_add_capability`), `DelCapability` (`pci_del_capability`), `WriteConfig` (`pci_default_write_config` of one byte), `AssignedInitfn` (`assigned_initfn` with `assigned_device_pci_cap_init`), `AssignedWriteConfig` (`assigned_dev_pci_write_config` of one byte) |
| `CowStreak` | The read-side bitmap lookup of `block/cow.c` | `bitmap`: the set of sectors whose bit is set | `Write` (`cow_update_bitmap`); the operators `FindStreak`, `IsAllocated`, `CowRead` |
| `CowImage` | The write path of `block/cow.c` over a cached host file | bitmap and data area in the host cache and on disk; the CoMutex; each coroutine's place in `cow_write` and its locals; a ghost set of sectors of completed writes | `CoWrite`, `WriteData`, `SetBitRead`, `SetBitWrite` (the two halves of `cow_set_bit`), `CoFlush`; host `WritebackByte`, `WritebackSector`, `Crash` |
| `VmRun` | Run control of `vl.c` in the I/O-thread TCG build | `current_run_state`; each vCPU's `stop` and `stopped`; the request flags; `is_suspended`; `timer_alarm_pending`; `next_cpu`/`cur_cpu`; the mutex holder; where each thread is; ghosts `ran` (the vCPU that ran guest code in the last step) and `held` (paused by the I/O thread, not yet resumed) | TCG thread: `TcgStart`, `TcgStep` (one visit of `tcg_cpu_exec`'s loop, guest events included), `TcgWaitIo`, `TcgHaltWake`, `TcgRelock` (`qemu_wait_io_event`). I/O thread: `IoPoll`, `IoDispatch` (one event of `main_loop_wait`), `IoCheck`, `IoPauseCheck`, `IoPauseWake` (`pause_all_vcpus`), `HDebug` … `HVmstop` (`main_loop`'s handlers). `AlarmFires` (`host_alarm_handler`) |
| `RamMigration` | RAM live migration in `vl.c` (KVM build): `ram_save_live`, `ram_save_block`, `ram_load` | source RAM; QEMU's migration dirty bits; KVM's dirty log; whether tracking is on; `last_block`/`last_offset`; where the I/O thread is in `ram_save_live`; the stage; the driver's state; the file's error flag (`ferr`); the stream; the page `ram_save_block` is putting on the stream (`pend`); destination RAM; `host_from_stream_offset`'s static block; ghosts `nullcur`/`dcrash` (a NULL block followed) | `SaveBlock`, `PutPage`, `LoopExit`, `Flush` (`ram_save_live`'s loops with `ram_save_block`), `RamLoad` (`ram_load` of one record); the driver `Stage1`, `Stage2`, `Stage3`, `Cancel`, `Fail` (the stages beginning with `LiveBegin`); the environment `GuestWrite`, `DmaWrite` |
| `QemuTimer` | Timers of `vl.c` with the dynticks alarm, and the ACPI PM timer of `hw/acpi.c` | the host time `now`; whether the VM runs and `vm_clock`'s offset; each clock's active list and each timer's expiry; `ALARM_FLAG_EXPIRED`; when the host timer fires; where the I/O thread is in `main_loop_wait` and the clock reading of the current pass; PM1 `TMROF_STS`/`TMROF_EN`, `tmr_overflow_time` and the SCI level; `is_suspended`, `suspend_requested`, `wakeup_requested`, and whether the vCPU is stopped | `Tick` (host time, with `HostAlarmHandler`), `MlWake`, `RunTimer`, `EndTimers` (`main_loop_wait`, `qemu_run_timers`), `HandleRequests` (`main_loop`'s suspend and wakeup handlers), `VmStop`/`VmStart` (`do_vm_stop`/`vm_start`), `GuestPmSts`/`GuestPmEn`/`GuestSleep` (`pm_ioport_writew`), `GuestPmRead` (`pm_ioport_readw`), `DevMod`/`DevDel` (a device model's `qemu_mod_timer`/`qemu_del_timer`) |
| `AssignedIrq` | Interrupt routing of one assigned device in `hw/device-assignment.c` | MSI/MSI-X enables and the MSI message, the MSI-X table (message, mask bit), the PIRQ route, `girq`, `irq_requested_type`, `entry[]` (GSI and message)/`irq_entries_nr`, the unplug request; on KVM's side the assigned irq kind and the GSI routes with their messages; a history variable `dual` | `Initfn`, `Exitfn`, `WritePiixRoute`, `WriteMsiFlags`, `WriteMsiMsg`, `WriteMsixFlags`, `MsixWriteData`, `MsixWriteCtrl`, `Reset` |
| `AssignedBarMap` | BAR mapping of an assigned device: `assigned_dev_iomem_map`, `assigned_dev_iomem_map_slow`, `assigned_dev_ioport_map` (`hw/device-assignment.c`) driven by `pci_update_mappings` (`hw/pci.c`), and the unplug teardown | each BAR's guest `addr`, its mapped address and size as the handlers last saw them; the physical-memory map (`qmap`, per guest page: a KVM slot, the slow handler, the MSI-X trap or unassigned); the KVM memory slots; the port map (`iomap`); the host ports granted by `ioperm`; running or freed | `UpdateRegion` (a memory BAR moved, unmapped or mapped), `UpdateIoRegion` (an I/O BAR, with the IDE-class hack), `Unplug` (`assigned_exitfn` with `free_assigned_device`) |
| `PciDevAddr` | The PCI address parsers of `hw/pci.c`: `pci_parse_devaddr`, `pci_parse_host_devaddr`, `pci_read_devaddr`, `pci_get_bus_devfn` with `pci_find_bus`/`pci_find_root_bus` | none: pure operators over token sequences and a bus tree | `Strtoul` (glibc `strtoul` in base 16), `FindBus`, the four parsers |
| `CUtils` | `cutils.c`: `QEMUIOVector` building, copy, concat, to/from buffer and memset; `pstrcpy`, `pstrcat`, `strstart`, `stristart`, `qemu_strnlen`; `mktimegm` | the vector (`qv`: its `iov`, `nalloc`, `size`) and whether an `assert` aborted | `IovecInit`, `IovecInitExternal`, `IovecAdd`, `IovecCopy`, `IovecConcatIov`, `IovecReset`, `IovecDestroy`; the byte and string helpers as operators |
| `UsbDesc` | `hw/usb-desc.c`: descriptor serialisation and the standard control requests | the device's phase, speed and speed mask, the current descriptor table and configuration, address, remote-wakeup flag, string table, MS OS flag, and the last control reply | `UsbDescInit`, `CreateSerial`, `UsbDescAttach`, and one action per request of `usb_desc_handle_control` (`SetAddress`, `GetDescriptorReq`, `GetConfiguration`, `SetConfiguration`, `GetStatus`, `Feature`, `VendorQ`) |

Each `MC_*` module instantiates its module with small topologies. `CowStreak` and `RamMigration` need only integers and a model value, so their configurations run the modules themselves.

### PCIIrq

- `Route` is the loop of `pci_change_irq_level`: it applies each bus's `map_irq` (the PIIX swizzle on the host bus, the bridge swizzle below) until it reaches the host bus.
- `SetIrq` is the whole of `pci_set_irq`:
  - no-op when the level is unchanged;
  - otherwise: record the level, refresh the status bit, add ±1 to `irq_count`, and set the line to `irq_count != 0`.
- `BusReset` is `pci_bus_reset`: it zeroes `irq_count` and resets the functions on the host bus only.

### PIIX4Hotplug and PciHotplugSlots

- The registers keep only the bits the hot-plug protocol uses: GPE0's PCI hot-plug bit (`PIIX4_PCI_HOTPLUG_STATUS`) and PM1's power button. The slot bitmaps are sets of slots. Each slot holds one function. The PM timer, RTC and sleep bits are left out.
- `RegisterDevice` is `do_pci_register_device`: refused when the devfn is taken; otherwise the function gets `irq_state = 0`. `Eject` is `acpi_piix_eject_slot`: it clears the down bit, frees the hot-pluggable functions of the slot, and clears the present bit unless a `no_hotplug` function stays. Nothing on that path lowers the freed function's pins, and the model, like the code, leaves `irq_count` alone.
- `SystemReset` follows the order of the reset handlers: `pci_bus_reset` was registered by `pci_bus_new` before `piix4_pm_initfn` registered `piix4_reset`. So the pins are lowered before `piix4_update_hotplug` ejects (`EjectAll`, lowest slot first, as `ffs` does).
- The guest is not in this repository. It is modelled as ACPI's OSPM running the DSDT's level-triggered `_L01`: on an SCI with the enabled hot-plug GPE pending, it reads `PCI_DOWN` (`OspmMethod`). When `_L01` returns, OSPM clears the GPE status (`OspmDone`), because level-triggered GPEs are cleared after their method runs. Later it runs `_EJ0` for each notified slot (`OspmEject`). The guest may also write the enable registers at any time.
- `HotplugRefines` checks `PIIX4Hotplug` against `PciHotplugSlots` through `Abs == INSTANCE PciHotplugSlots WITH plugged <- registered, pending <- {d \in registered : SlotOf[d] \in down}`.

### PCIBarMapper

Addresses are scaled down:
- `Top` plays `UINT32_MAX`, and `IoTop` plays `UINT16_MAX`.
- A window unit (`MemGran`) plays 1 MiB.

The mapping computation:
- `BarAddress` is `pci_bar_address`.
- `BridgeFilter` is `pci_bridge_filter`. It reads the enable bit from the function's own command register, as the code does.
- `UpdateRegion` and `UpdateRegions` are `pci_update_mappings`, including the unassign of the old range with the old `filtered_size` and the IDE one-byte hack.
- `UpdateAll` is `pci_bridge_update_mappings`.

The mapping operators take the configuration as an explicit record, so that an action can apply them to the primed registers.

### PCICapList

- Config space is scaled to 12 bytes with a 4-byte header, and the list head is in byte 1.
- `FindSpaceFrom` is the loop of `pci_find_space`. `FindFrom` is the walk of `pci_find_capability_list`.
- `AddCapability` is the whole of `pci_add_capability`: find space or check the explicit range, then link at the head, claim the bytes in `config_map`, clear `wmask` and set the status bit.
- The overlap check of an explicit offset reads `config_map` past its end when the range does. A nonzero heap byte there rejects the add, which changes nothing. The model keeps the outcome where the heap reads zero and the memsets run past the arrays, and records that in `beyond`.
- `cmask` only matters to migration, so it is left out.
- Device assignment adds each capability at the host's position. `Offsets` therefore holds explicit positions as well as 0 (find space).
- A function is either emulated (`host = NoHost`, `phase = "ready"`, the three actions above) or an assigned device not yet initialised (`phase = "absent"`). `AssignedInitfn(h)` picks one host device from `HostConfigs`: `Fresh` is the config `get_real_device` reads (host bytes, all `config_map` free, no `wmask`), and `CapInit` is `assigned_device_pci_cap_init`. It clears the head and the status bit, then for MSI, MSI-X and VPD in that order calls `FindCapOffset` (`pci_find_cap_offset`) and `AddAt` at the host position, setting the writable bytes (`RegsWritable`, one per capability at this scale). It then runs the vendor loop `VndrLoop`, which restarts the walk after each vendor capability and adds it with the host's length byte. A failed add fails the assignment (`phase` stays `absent`, nothing changes). A loop that never ends is `phase = "hung"`.
- `HostWalk` is the loop of `pci_find_cap_offset`: read the pointer, stop below the header, align down (`CapAlign` is 2 here for 4), stop at ID `0xff`, and give up after `MaxCap` steps (48 in the code, the number of aligned slots past the header).
- Guest reads of an assigned device go through `GuestByte` (`assigned_dev_pci_read_config`). Bytes claimed by a capability go to `CapReadConfig` (`assigned_device_pci_cap_read_config`). It returns emulated bytes, but a vendor capability is read from the host, with its NEXT byte merged from the emulated one (`FindVndrStart`, `MergeNext`). The status byte keeps `PCI_STATUS_CAP_LIST` only when MSI or MSI-X was found (`CapAvailable`, `GuestStatusCap`). All other bytes come from the host. `AssignedWriteConfig` changes only writable bytes a capability claims; the rest go to the host, and the model keeps the host's bytes constant.

### CowStreak and CowImage

`CowStreak` checks the read algorithm. The parts are `cow_test_bit`, the loop of `cow_find_streak`, `cow_co_is_allocated` (which reads the bitmap's file sector holding the bit) and `cow_read`'s loop. Each is an operator over the bitmap, compared in every reachable bitmap with the bit-by-bit reference. Bytes keep 8 bits. The 1044-byte header is scaled to 1 byte and the 512-byte bitmap sector to 2 bytes, keeping the header unaligned and the bitmap sector a power of two, as the code's masks need. `BufAt` is the buffer `bdrv_pread` fills, `Allocated` the test of the first bit and the streak count, and `CowReadFrom` one turn of `cow_read`'s loop.

`CowImage` splits `cow_co_write` at the points where the coroutine yields with something at stake:
- `WriteData` is the data `bdrv_pwrite`. A failed write may have written any part.
- `SetBitRead` is `cow_set_bit`'s `bdrv_pread`, which may find the bit already set.
- `SetBitWrite` is the rest: the flush before the request's first new bit, then the `bdrv_pwrite` of the byte. Either may fail.

The host cache is explicit. `WritebackByte` and `WritebackSector` are the host persisting one cached unit, in any order. `Crash` drops the cache and every request. `CoFlush` is `cow_co_flush`, which takes no lock. Data is abstracted to written or `Hole`.

### VmRun

The model follows the two threads of the `CONFIG_IOTHREAD` build without KVM. The KVM build's `kvm_main_loop` is not in this tree.
- The TCG thread: `TcgStep` is one iteration of `tcg_cpu_exec`'s `for` loop. It leaves the loop (keeping `next_cpu`) when the VM is not running or the alarm is pending. Otherwise it runs the vCPU if `cpu_can_run` allows. Guest code may raise a request as the device models it reaches do: `qemu_system_reset_request`, the ACPI soft-off and S3 writes, `EXCP_DEBUG`, or `vm_stop(RUN_STATE_IO_ERROR)` from the vCPU thread, which sets that vCPU's `stop`.
- `TcgWaitIo`, `TcgHaltWake` and `TcgRelock` are `qemu_wait_io_event(cur_cpu)`. It waits on `halt_cond` while no vCPU has work, releases the mutex, retakes it, and turns `stop` into `stopped` for `cur_cpu` only.
- The I/O thread: `IoPoll` retakes the mutex after `g_poll`. `IoDispatch(ev)` is one monitor command or device event: `system_reset`, a shutdown, `system_powerdown`, `stop` (`do_vm_stop(RUN_STATE_PAUSED)`), `cont` (`vm_start`), a PM-timer wakeup, or nothing (the poll timeout). Then `main_loop`'s `do … while (vm_can_run())` test decides whether to serve requests. `HDebug` … `HVmstop` are its handlers, in the code's order.
- `pause_all_vcpus` is `StartPause` (set every `stop` and kick), then `IoPauseCheck`/`IoPauseWake`, waiting on `qemu_pause_cond` with the mutex released. `ret` records what the caller does once it returns.
- Abstractions:
  - vCPUs never halt, so `cpu_has_work` reads only `stop` and `stopped`;
  - device reset handlers and the monitor events are left out;
  - `cont` is assumed to be refused in a state that needs a reset, because the monitor is not in this tree;
  - the run states are those these paths reach.

### RamMigration

- A page is `<<block, index>>`. Its content is a fill byte, which `is_dup_page` sends compressed, or the model value `Mixed`.
- `ScanFrom` is `ram_save_block`'s do-while loop, written recursively. It starts at the page after the last one sent, and merges KVM's log into the dirty bits when it passes RAM address 0 (`kvm_update_dirty_pages_log`). It stops at the first dirty page. It records in `nullcur` whether it moved on from the first page while `last_block` was still NULL, because the loop condition then reads `last_block->offset`.
- `LogUpdateFails` is the failure of `kvm_update_dirty_pages_log` when the scan reaches RAM address 0 (vl.c:2839-2844). `ram_save_block` sets the file's error (`ferr`) and returns 0, with the bits, the log and the cursor untouched. `ram_save_live`'s loop then breaks as if nothing were dirty (`LoopBreak`). In stage 3 the flush ends and the EOS is still written. The driver, which is not in this tree, checks the file's error after each stage: it stops calling stage 2 or 3 and cancels, and after a failed stage 3 it marks the migration `failed` and starts the VM again (`Fail`).
- The `ret < 0` return after the loop (vl.c:2992) depends on `qemu_file_rate_limit` returning an error, which happens in the buffered file outside this tree. It is not modelled: after an error the loop may go on calling `ram_save_block` or stop on the rate limit.
- `SendPage` takes `RAM_SAVE_FLAG_CONTINUE` (the page is in the block of the previous page), clears the page's bit and tests `is_dup_page`. `PutPage` is the rest of the call: it puts the page on the stream and moves the cursor. The two are separate steps because the vCPUs run outside the global mutex, so a guest write can land between the clear and the copy (vl.c:2851-2873). A compressed record then carries the page's first byte as the copy reads it, which is any fill byte when the write made the page `Mixed`.
- `NoLostWrite` is stated between calls of `ram_save_block` (`pend = NoSend`). Inside a call, the page whose bit was just cleared is on its way to the stream.
- `LiveBegin` is the start of `ram_save_live`: `cpu_physical_sync_dirty_bitmap`, and for stage 1 the cursor reset, marking every page dirty, turning tracking on and sending the size record. A failed sync returns `-EINVAL`, and the driver cancels.
- `LiveEnd` is its end. Stage 3 turns tracking off, and stage 2 reports convergence. The bandwidth-based convergence test is a free choice, except that no remaining pages always converges.
- `HostFromStreamOffset` keeps the destination's static block across calls, as the code does. `RamLoad` reads one record.
- The driver (`Stage1` … `Cancel`) and the writers (`GuestWrite`, `DmaWrite`) are environment actions with no source lines. A guest write is logged by KVM while tracking is on. A DMA write sets QEMU's dirty bits directly. Device models run under the global mutex, which the I/O thread holds through each call of `ram_save_live`, so `DmaWrite` happens only between calls (`sv = "idle"`).

### QemuTimer

- Time is counted in ns. `rt_clock` reads it in ms (`ClockNow`), and `vm_clock` is `now + voff` while the VM runs and `voff` while it is stopped (`CpuGetClock`, `CpuEnableTicks`, `CpuDisableTicks`). The scale constants (`NsPerUs`, `UsPerMs`) are small, so the conversions in `qemu_next_deadline_dyntick` still truncate and round up as the code's do.
- As in `AssignedIrq`, the C functions are operators on a state record (`St`, `Commit`), so a callback can call `qemu_mod_timer`, which calls `dynticks_rearm_timer`, in one step.
- `ModTimer` is `qemu_mod_timer`: `DelTimer`, insertion before the first later timer (`InsertPos`, so equal expiries stay in FIFO order), and the re-arm when the timer became the head and `ALARM_FLAG_EXPIRED` is clear.
- `DynticksRearm` returns when no list has a timer, keeps a host timer whose remaining time (`timer_gettime`, in us) is non-zero and no later than the deadline, and otherwise arms it relative to now.
- `Tick` advances the host clock; reaching the armed time delivers the signal (`HostAlarmHandler`) in the same step.
- `MlWake` is `main_loop_wait` up to the timers: the poll returns at any time (an event, a descriptor, or `qemu_calculate_timeout`'s 1 s), the flag is cleared and the alarm re-armed, and the pass reads its clock. `RunTimer` is one iteration of `qemu_run_timers`: the head is unlinked, then its callback runs. `EndTimers` ends a pass; the vm_clock pass is skipped while the VM is stopped. `host_clock` has no timers in this tree; the bottom halves (`async.c`) are not in it either.
- Callbacks: `PmTmrTimer` (`pm_tmr_timer`; the wakeup request does nothing to a running guest), `GuiUpdate` (`gui_update`, every `GUI_REFRESH_INTERVAL` ms) and the environment's device timer, which re-arms itself or not.
- S3: the guest's PM1 control write with `SUS_EN` (`GuestSleep`) is `qemu_system_suspend_request`: it stops the vCPU and requests the suspend, unless `is_suspended` is already set. `EndTimers` ends `main_loop_wait`; if `vm_can_run` (`VmCanRun`) then says a request is pending, `HandleRequests` runs `main_loop`'s handlers in one pass: `qemu_system_suspend`, then the wakeup handler's silent reset and `resume_all_vcpus`. `PmTmrTimer` calls `qemu_system_wakeup_request` (`WakeupRequest`), which, for a suspended guest with `TMROF_EN` set, sets the overflow status (`AcpiNotifyWakeup`), `wakeup_requested`, and clears `is_suspended`. The suspended VM keeps its run state, so `vm_clock` runs on. The other requests (reset, shutdown, powerdown) are `VmRun`'s.
- PM timer: `PmCount` is `get_pmtmr`, `GetPmsts` latches the overflow status, `PmUpdateSci` sets the SCI and arms the PM timer at the overflow's `vm_clock` time (rounded down by `muldiv64`), or cancels it. `PmStsWrite` moves the overflow time to the next `0x800000` boundary when the guest clears the status.

### AssignedIrq

The C functions call each other and return early. To translate them, each one is an operator from a state record to a state record (`St`, `Commit`).
- KVM ioctls can fail. `Faults`/`MaxFaults` choose which calls may fail, and how often.
- A message (MSI address and data, or an MSI-X table entry's) is a value of `Msgs`, or 0 where the guest left it zero (`msix_skipped`).
- The routing table lives in the KVM library, outside the tree. `kvm_update_routing_entry` and `kvm_del_routing_entry` find an entry by its GSI, type and message, so the model keeps the message of each route (`kmsg`) beside QEMU's copy (`emsg`). An update or delete whose copy differs from the table's fails (`InTable`).
- `dual` records that the guest set the MSI and MSI-X enable bits together while the device was present. The PCI rules forbid this; `RoutesFollowGuest` assumes it does not happen, and `AssignedIrq_dual.cfg` shows what happens when it does.
- The PCI rule that an unmasked entry is not rewritten is an assumption on the guest (`MsixWriteData`).

### AssignedBarMap

- Guest addresses are scaled to small integers, and a page is `P` units. `Real` gives each host region's base and size. `GAddrs` and `PAddrs` are the guest addresses each memory BAR and each I/O BAR may be moved to.
- `UpdateRegion(r, new)` is one BAR's part of `pci_update_mappings`. It unassigns the old range, then calls the region's map function. `IomemMap` is `assigned_dev_iomem_map`: a BAR that is not page-aligned (`IsSlow`) goes to `IomemMapSlow`, and the others get KVM slots (`FastSlots`: the range before the MSI-X page, the MSI-X page trapped, and the range after it). The MSI-X page test `HoldsTable` keeps the code's `>=`.
- `UpdateIoRegion(r, new)` is the same for an I/O BAR. When `Ide` is set, the old range is unassigned with the IDE-class hack (only `addr + 2`). `IoportMap` registers the port handlers and, on a raw-I/O BAR's first map, grants the host ports through `ioperm`. `HostPort` is the translation in `assigned_dev_ioport_rw`.
- `Unplug` is `assigned_exitfn`: `free_assigned_device` tears the slots down (`TeardownAll`), revokes the granted ports, and `pci_unregister_device` unassigns every mapped BAR.
- The data path of the slow handler (`slow_bar_*`) goes through `exec.c`, which is not in this tree, so `qmap` records only which handler a page reaches.

### PciDevAddr, CUtils and UsbDesc

- `PciDevAddr` models a string as a sequence of tokens from `Tokens`, each with the value `strtoul` gives it; separators are the characters `:` and `.`. `Strtoul` reads hex digits after optional spaces, and stands for an `unsigned long` past `LONG_MAX` by a negative value, as the code's `int` assignment then sees it. `FindBus` is `pci_find_bus`. The reference grammars (`RefDevAddr`, `RefHostDevAddr`) are built from each function's comment: `[[<domain>:]<bus>:]<slot>` and `[<domain>:]<bus>:<slot>.<func>`, with numbers in hex and no trailing text. The parsers are staged (`Fields` reads the strtoul fields, `DevAddr` and `HostDevAddr` check them), so that each result is computed once. `AddrParsersMatchGrammar` is stated in `MC_CUtils`, beside the tree and tokens. The parsers read no state, so it is checked in the initial state (`qv = NoVec`).
- `CUtils` checks each helper against a flat reference: a vector is flattened to the bytes it names (`Flat`), and copies, concats and buffer transfers must equal slices of that. The string helpers are checked against a character-array reference with the NUL terminator and the truncation `pstrcpy` specifies. `mktimegm` is checked against a calendar count.
- `UsbDesc` builds descriptors as byte sequences from the device tables, so a `GET_DESCRIPTOR` reply is checked byte by byte against the table's fields (`Chain` checks that each descriptor's length byte fits).

## Runs

| Run | Expect | What it shows |
|---|---|---|
| `hotplug` | pass | A fixed PIIX function, a cold-plugged block device in slot 7, and two NICs competing for slot 3, whose INTA shares line 2 with slot 7. Hot-add, `device_del`, the guest's `_L01`/`_EJ0`, raises and lowers, power-button and enable writes, and resets run in any order. A line that some function on the bus asserts is asserted (`NoHiddenInterrupt`). The registers refine `PciHotplugSlots` (`HotplugRefines`). A removal signalled to an idle guest completes, under the guest fairness below (`SignalledUnplugCompletes`). |
| `bar_map` | pass | After any sequence of BAR, ROM, command and window writes and resets: each region's mapping is the one its registers give (`MappingDerived`); the decode is exactly what the mapped regions claim (`NoStaleDecode`); nothing decodes with its enable bit (or ROM enable) clear (`DecodeRespectsConfig`). |
| `cap_list` | pass | Adds at found and explicit offsets, deletes and guest writes run in any order. The list walked from the head stays acyclic and equal to the capabilities created (`CapListSound`), each with its ID, owned in `config_map`, its ID and NEXT bytes read-only to the guest, with the status bit set exactly when the list is non-empty. No two capabilities overlap (`CapsDisjoint`). For nine host devices, assignment either fails or mirrors exactly the supported host capabilities that `pci_find_cap_offset` reaches, at their host offsets (`CapInitMirrorsHost`, against the reference walk `HostChain`). The guest, walking the list byte by byte through the assigned-device read dispatch, sees exactly the mirrored list (`GuestSeesCapList`). |
| `cow_read` | pass | Every bitmap of 17 sectors with at most two runs of set sectors (`ReadFromBitmap`). For every request, `cow_read` ends and reads each sector from the COW file exactly when its bit is set. This holds across unaligned starts, whole-byte skips for both values, byte boundaries inside a buffer, and the cut at the end of a bitmap sector with the next read at the following file sector. |
| `cow_crash` | pass | Two writing coroutines, unlocked flushes, one I/O error anywhere, write-back in any order and one crash. A durable bit never points at unwritten data (`BitImpliesData`). No completed write loses a bit (`NoLostBit`). |
| `assigned_irq` | pass | One injected KVM failure of any kind (`MaxFaults = 1`) and a one-GSI pool. Every route in KVM's table is tracked by `entry[0..irq_entries_nr-1]`; a kernel irq is always recorded in `irq_requested_type`; every unmasked vector with a programmed message has a route while MSI-X is on. QEMU's copy of each tracked route's message equals the table's, so the content-matched deletes and updates never miss. For a guest that never enables both modes (`RoutesFollowGuest`), the MSI route carries the capability's current message and every unmasked MSI-X vector's route carries its table message, through `update_msi_msg`, the in-place update on unmask and the start-over paths. |
| `vm_run` | pass | Two vCPUs on the TCG thread, every monitor command and guest event, and every interleaving of the two threads around the global mutex. Guest code runs only while the run state is running and the I/O thread has not paused the vCPUs without resuming them (`GuestOnlyWhileRunning`). Every run-state change is in `runstate_transitions_def` (`RunstateTransitionsValid`). |
| `ram_migration` | pass | Two blocks of two pages, with the block at RAM address 0 last in the list, so the log is merged in the middle of a pass. Guest writes interleave with every step of every stage, including between the clearing of a page's bit and its copy onto the stream. DMA writes fall between calls of `ram_save_live`, and a migration may be cancelled and started again. No write is lost: every page the destination will not have is still marked dirty, in QEMU's bits or in KVM's log (`NoLostWrite`). Neither side follows a NULL block (`NoNullBlock`). Once the VM is stopped for stage 3, the migration completes with the destination equal to the source, or fails when the KVM log update failed during the flush (`MigrationConverges`). |
| `timers` | pass | Three timers (the PM timer and a device timer on `vm_clock`, the display refresh on `rt_clock`) armed, cancelled and re-armed by callbacks, device models and the guest's PM1 writes, in every interleaving with the host alarm, `main_loop_wait`'s passes and VM stop/cont. Each list stays sorted and duplicate-free (`TimerListsSorted`). Unless the alarm fired unseen, the host timer fires by the time the first timer of each running clock is due, up to rounding and `MIN_TIMER_REARM_US` (`AlarmCovers`). An enabled PM overflow has raised the SCI or has a due PM timer (`PmOverflowSignalled`). Every due timer of a running clock eventually runs or is moved (`DueTimersRun`). |
| `cutils` | pass | The `QEMUIOVector` helpers, over vectors of up to three segments of a three-byte memory, with external arrays and overlapping segments: `qemu_iovec_copy` and `qemu_iovec_concat_iov` append exactly the requested slice of the source's bytes (`CopyAppendsSlice`); `iov_to_buf`, `iov_from_buf` and `qemu_iovec_memset_skip` read or write exactly the bytes the flat view places there (`ByteOpsMatchFlat`); `pstrcpy`, `pstrcat`, `strstart`, `stristart` and `qemu_strnlen` match the reference on every string of up to two characters and every buffer size (`StringsMatchReference`). The PCI address parsers accept exactly their grammars and `pci_get_bus_devfn` finds the bus each address names, on a bridge chain of three buses (`AddrParsersMatchGrammar`). |
| `usb_desc` | pass | A composite device with a full-speed table of two configurations (one with an interface association) and a high-speed table. Across init, serial creation, re-attach at either speed and every standard request with short and long lengths, each reply of `usb_desc_handle_control` is the requested descriptor of the current speed, truncated to the length asked, the configuration the host set, or the status bits the host set (`ControlRepliesDescribeDevice`). |
| `assigned_bar` | pass | Three memory BARs (one page-aligned, one sub-page and therefore slow, and a larger one holding the MSI-X table) and two I/O BARs (one raw), each moved, unmapped and remapped in any order, then hot-unplug. Every mapped memory BAR reaches its host memory through a KVM slot or the slow handler, the MSI-X page is trapped and nothing else is, every mapped I/O BAR's ports translate into its own host ports, and unplug leaves no slot, port, grant or map entry behind (`BarsReachDevice`). |

The reproductions kept beside the runs, each with its own `.cfg` and each finding its property violated, are listed under Findings and in Running.

Every property of a passing run has a mutant in `PROJECT.json`: a plausible bug in a mapped definition that TLC finds under the same configuration. Examples:
- handing the platform the function's own level instead of the count;
- matching the ejected functions against the slot bitmap instead of the slot number;
- dropping the pending removals at reset instead of executing them;
- unassigning with the new size;
- recomputing only the bridge's own bus after a window write;
- testing only the index on an MSI-X unmask;
- using the error of `kvm_get_irq_route_gsi` as a GSI;
- stage 1 not marking every page dirty, or keeping the cursor of a cancelled migration;
- the destination reusing its cached block for a record that names one;
- `qemu_mod_timer` inserting without unlinking; a disarmed host timer read as "fires in time"; the PM timer armed one ns late; no `rt_clock` pass while the VM is stopped.

### Findings

1. **`pci.c:183`** (kept as a reproduction, not in the run list): `pci_bus_reset` does not reset functions behind bridges, although the specification says a bus reset resets every attached function. A function behind a bridge raises its pin and the system resets: its `irq_state` survives while `irq_count` is zeroed, so its interrupt is lost. `tlc -config PCIIrq_bridge_reset.cfg MC_PCIIrq` finds this.
2. **`pci.c:951`** (kept as a reproduction, not in the run list): `pci_bridge_filter` tests `d->config` rather than the bridge's command register, so a region behind a bridge whose memory enable is off is mapped. `tlc -config PCIBarMapper_bridge_cmd.cfg MC_PCIBarMapper` finds `BridgeDisabledUnmapped` violated.
3. **`device-assignment.c:1097`** (and the reset path): turning MSI off leaves the device with no interrupt at all. The `girq == irq` early return in `assign_irq` keeps it that way. A reproduction, not in the run list: `tlc -config AssignedIrq_intx_lost.cfg MC_AssignedIrq` finds `DeliveryMatchesGuest` violated.
4. **`device-assignment.c:1129`** (kept as a reproduction, not in the run list): a commit failure leaks a GSI route. `tlc -config AssignedIrq_route_leak.cfg MC_AssignedIrq` finds `RoutesTracked` violated.
5. **`vl.c:3811`** (kept as a reproduction, not in the run list; `tlc -config VmRun_pause.cfg MC_VmRun` finds `PauseReturns` violated): the TCG thread calls `qemu_wait_io_event(cur_cpu)`, which marks only `cur_cpu` stopped. When the VM is not running, `tcg_cpu_exec` breaks at the same `next_cpu` every time. So with two or more vCPUs, `pause_all_vcpus` never returns in prelaunch or shutdown: for example in the reset of `main_loop`, after `-S` or after a guest shutdown under `-no-shutdown`. The counterexample holds under strong fairness of the I/O thread. While the VM is running, the pause completes only because the alarm breaks the loop at the first vCPU.
6. **`pci.c:1863`** (kept as a reproduction, not in the run list): `pci_add_capability` never checks an explicit offset plus size against the config size. `assigned_device_pci_cap_init` passes host positions up to `0xfc`, with sizes up to `0x3c` or a host-supplied length. The specification says malformed host chains are rejected. `tlc -config PCICapList_edge.cfg MC_PCICapList` finds `CapsInBounds` violated: a capability two bytes from the end of config space is accepted and its memsets write past the arrays.

7. **`pci.c:815`:** ejecting a function that asserts a pin leaves it counted. `pci_unregister_device` and `do_pci_unregister_device` free the function's `qemu_irq`s and its `bus->devices[]` entry without lowering its pins. `irq_count[line]` then stays 1 for ever, and the line stays asserted, also for every function that later shares it. The specification says `irq_count[i]` equals the number of functions currently asserting line `i`. A reproduction, not in the run list: `tlc -config PIIX4Hotplug_leak.cfg MC_PIIX4Hotplug` finds `NoStuckLine` violated in 6 steps.
8. **`acpi.c:1037`** (kept as a reproduction, not in the run list): a `device_del` can be lost until the next hot-plug event. Suppose it arrives while the guest is inside `_L01`, after `PCI_DOWN` was read. `disable_device` sets the GPE status bit, which is already set, and OSPM then clears it. No SCI reports the new down bit. `tlc -config PIIX4Hotplug_notify.cfg MC_PIIX4Hotplug` finds `UnplugCompletes` violated: the function stays on the bus while the guest keeps the GPE enabled and serves every SCI. This depends on the guest clearing the status after the method, which ACPI prescribes for level-triggered GPEs.

9. **`vl.c:1494`** (kept as a reproduction, not in the run list): while the VM is stopped, `qemu_next_deadline` still measures the first `vm_clock` timer against the frozen clock. A timer a device arms 2 ns ahead of the frozen `vm_clock` makes `dynticks_rearm_timer` arm the host alarm 2 ns ahead; when it fires, `main_loop_wait` re-arms it for the same delta, and so on for the whole pause (every 250 us at worst, for a timer that was due when the VM stopped), though no `vm_clock` timer can run. `tlc -config QemuTimer_pause_spin.cfg MC_QemuTimer` finds `PausedAlarmIdle` violated in 8 steps. It wastes wakeups; no result is wrong.

10. **`vl.c:4251`:** a wakeup from S3 is never served. `pm_tmr_timer` calls `qemu_system_wakeup_request`, which sets `wakeup_requested` and clears `is_suspended`. But `vm_can_run` does not test `wakeup_requested`, so `main_loop` keeps calling `main_loop_wait` and never reaches the wakeup handler, the only place that resumes the vCPUs. The guest sleeps on until some other request breaks the loop. A reproduction, not in the run list: `tlc -config QemuTimer_wakeup.cfg MC_QemuTimer` finds `WakeupResumes` violated in 22 steps. `vm_can_run` ignores `vmstop_requested` too, so a `vm_stop` from a vCPU waits in the same way (not modelled).
11. **`vl.c:3443`** (kept as a reproduction, not in the run list): `is_suspended` is cleared only by a wakeup. A `stop` and `cont` of a suspended guest resume its vCPU through `vm_start`'s `resume_all_vcpus` (a reset does the same, through `main_loop`'s reset handler), and `is_suspended` stays set, so the guest's next S3 request is ignored. `tlc -config QemuTimer_suspended.cfg MC_QemuTimer` finds `AwakeWhileRunning` violated in 8 steps.
12. **`device-assignment.c:1762`** (kept as a reproduction, not in the run list): `msix_mmio_writel` never looks at `irq_requested_type`. Suppose a guest sets the MSI and MSI-X enable bits together, which PCI forbids, and then unmasks MSI-X vector 0. The "existing vector" branch then rewrites `entry[0]`, which is the MSI route, with the vector's message, and KVM updates the route to match. The MSI interrupt keeps going to the MSI-X address after MSI-X is turned off, until MSI is set up again. `tlc -config AssignedIrq_dual.cfg MC_AssignedIrq` finds `RoutesFollowAnyGuest` violated in 5 steps. `RoutesFollowGuest`, checked in `assigned_irq`, excludes such guests.
13. **`device-assignment.c:1685`** (a reproduction, not in the run list): the vendor loop of `assigned_device_pci_cap_init` restarts `pci_find_cap_offset` from each vendor capability with a fresh step budget. It ends only when the walk ends or when an add fails. A host vendor capability of length 0 whose NEXT points at itself is therefore added again and again, because a zero-length add never overlaps, and the assignment never returns. The specification says malformed host chains are rejected. `tlc -config PCICapList_vndr_hang.cfg MC_PCICapList` finds `CapInitReturns` violated.
14. **`device-assignment.c:1687`** (a reproduction, not in the run list): the vendor length comes from the host unchecked. With a length of 1, `pci_add_capability` claims only the ID byte, so the NEXT byte is not in `config_map`. `assigned_dev_pci_read_config` then returns the host's pointer instead of the emulated one, and the guest walks into a host capability that QEMU did not mirror (here an unsupported ID 18). `tlc -config PCICapList_shortvndr.cfg MC_PCICapList` finds `GuestSeesCapList` violated.

15. **`device-assignment.c:287`** (a reproduction): the test whether a BAR holds the MSI-X table, `real_region->base_addr + real_region->size >= r_dev->msix_table_addr`, is off by one: a table at `base_addr + size` lies outside the BAR, yet passes. With the table at the first byte after a BAR, as when the next host BAR starts with it, `assigned_dev_iomem_map` registers the MSI-X trap page for the guest page right after the BAR, outside it, and nothing unassigns that page when the BAR moves or the device is unplugged. `tlc -config AssignedBarMap_adjacent.cfg MC_AssignedBarMap` finds `BarsReachDevice` violated in one step.
16. **`pci.c:1072`** (a reproduction): the IDE-class hack in `pci_update_mappings` unassigns only `addr + 2` of a 4-port I/O BAR, because the IDE controllers register that one byte. An assigned device of class IDE registers all four ports through `assigned_dev_ioport_map`, so a guest move leaves three old ports bound to the device, where `assigned_dev_ioport_rw` translates them to host ports outside the BAR. `tlc -config AssignedBarMap_ide.cfg MC_AssignedBarMap` finds `BarsReachDevice` violated.
17. **`pci.c:552`** (a reproduction): `pci_parse_host_devaddr` stores `strtoul`'s result in an `int` and checks only the upper bounds. `strtoul` accepts a leading minus sign, so `-1:0.0` is accepted as bus -1, against the grammar its comment gives (hex numbers). `tlc -config PciDevAddr_negative.cfg MC_CUtils` finds `AddrParsersMatchGrammar` violated.
18. **`pci.c:1569`** (a reproduction): `pci_find_bus` descends only into the first child of the host bus, and below a bridge it tests the subordinate bus number for non-zero instead of comparing it with the bus sought. On a host bus with two bridges, an address on the bridge registered first is refused (`pci_get_bus_devfn` returns NULL), although the bus exists. `tlc -config PciDevAddr_two_bridges.cfg MC_CUtils` finds `AddrParsersMatchGrammar` violated.
19. **`cutils.c:109`** (a reproduction): `mktimegm` multiplies the day count by 86400 as an `int` before it is widened to `time_t`, so every date from 2038-01-19 on wraps to a negative time. `tlc -config CUtils_y2038.cfg MC_CUtils` finds `MktimegmMatchesCalendar` violated.
20. **`cutils.c:243`** (a reproduction): `qemu_iovec_concat_iov`'s final `assert(soffset == 0)`, commented "offset beyond end of src", also fires for a request of zero bytes at an offset inside the source, because the loop does not run when `sbytes` is 0. `tlc -config CUtils_concat_zero.cfg MC_CUtils` finds `ConcatIovAssertOnlyPastEnd` violated.

A related observation, which no property checks: `assigned_dev_pci_read_config` (`device-assignment.c:563`) clears `PCI_STATUS_CAP_LIST` unless MSI or MSI-X was found. A host with only VPD or vendor capabilities has them mirrored, but the guest never sees the list. `GuestSeesCapList` states this case as the code behaves: an empty list.

## Bounds

**`hotplug` (and `PIIX4Hotplug_leak.cfg`)**
- Functions: the PIIX (slot 1, `no_hotplug`); a hot-pluggable block device in slot 7, present at start; two NICs that may each be added into slot 3. So a slot is reused after an eject, and a `device_add` into an occupied slot is refused.
- Pins: INTA only. With the PIIX swizzle, slots 3 and 7 share line 2, which is what an interrupt leak needs to be visible to a later function.
- `CountBound`: 2. A leaked count plus one raise reaches it.
- Result: 55296 states, depth 27. The leak takes 6 steps, and the lost removal takes 10.

**`PCIIrq_bridge_reset.cfg`** (reproduction)
- Uses a bridge on slot 3 of the host bus, with one function behind it.

**`bar_map`**
- Regions: an IDE 4-byte IO BAR, a ROM on the host bus, and a memory BAR behind a bridge.
- BAR values:
  - 0 (unmapped);
  - 9 (ROM enable set, the IDE byte at 10);
  - 16 (overlaps the bridge window only for some window values);
  - 31 (last byte at `Top`, the `>= UINT32_MAX` edge).
- Window values: 0..2, which places the window below, at, and above the region.
- Result: 10816 states.

**`cap_list`**
- Capabilities: three kinds, of sizes 3, 4 and 2.
- Offsets: 0 (found), plus the explicit 4 and 6, so explicit ranges collide with each other and with found space.
- Guest writes: to bytes 5 and 8, which lie inside and outside capabilities over time.
- Host devices (`MC_HostConfigs`, 12 bytes with positions aligned to 2): nine devices. Seven assign successfully:
  - MSI and a vendor capability;
  - MSI-X then MSI, so the add order differs from the list order;
  - misaligned pointers and a pointer into the header;
  - an unsupported ID on a cycle;
  - an `0xff` ID;
  - the status bit clear;
  - two MSI capabilities.
  Two fail: two vendor capabilities pointing at each other, where the second add overlaps, and MSI-X inside MSI's bytes.
- The guest reads bytes 5, 8 and 10 and writes 0 or 6 to them, through both dispatches.
- Result: 197966 states, depth 28, about 55 s.
- `PCICapList_edge.cfg` replaces offset 6 by 10.
- `PCICapList_shortvndr.cfg` and `PCICapList_vndr_hang.cfg` assign one host each (findings 14 and 13). No host of the run has a vendor capability shorter than 2 bytes; those hosts are only in the two reproductions. So the run does not ask whether `cap_init` returns, which is only in doubt on such a host (`CapInitReturns`, checked by `PCICapList_vndr_hang.cfg`).

**`cow_read`**
- 17 sectors, the fewest for which both cases happen. Sectors 0..7 fill byte 1 of the first bitmap sector (bits 8..15), so a streak from them is cut by the `MIN(start + nb_sectors, BITS_PER_BITMAP_SECTOR)` clamp. Sectors 8..16 lie in the second bitmap sector, read at file offset 2, where a streak crosses from byte 2 to byte 3.
- Bound `MaxRuns = 2`: writes are explored while the bitmap holds at most two runs of set sectors. All 17 sectors remain writable. The bitmaps include a full byte of ones and one of zeros in each buffer, and runs that end mid-byte on either side of each boundary.
- Result: 3214 states, every request of 153 start/length pairs checked in each, in about 75 s with coverage. The mutant `IsAllocatedFirstSector` always reads the first bitmap sector; the check finds it at once.

**`cow_crash`**
- Sectors: three, sharing one bitmap byte.
- Coroutines: two (with symmetry), with requests of one or two sectors.
- Bounds: one I/O error, one crash.
- Result: 5708 states.

**`assigned_irq`**
- Vectors: two.
- PIRQ lines: two, so `assign_irq`'s girq check both passes and fails.
- GSIs: one, so registering both vectors exhausts the pool.
- Faults: any one of the six KVM calls may fail, once.
- Messages: two, so a rewrite to a different message (the in-place update paths) happens.
- Result: 110416 states in 18 s.

**`vm_run` (and `VmRun_pause.cfg`)**
- vCPUs: two, the fewest for which `cur_cpu` and the vCPU to be stopped differ.
- Constants: `-no-shutdown` on, so a shutdown stops the VM in RUN_STATE_SHUTDOWN. Reboots are allowed.
- Initial state: the VM starts running or in prelaunch (`-S`).
- Bounds: none are needed. Every counter in the code is a flag, and the request flags are idempotent.
- `vm_run` result: 124551 states, depth 73.

**`ram_migration`**
- RAM: two blocks of two pages. The block at RAM address 0 is second in `ram_list`, as `qemu_ram_alloc` inserts at the head, so the log merge happens in the middle of a pass and `RAM_SAVE_FLAG_CONTINUE` is both set and clear.
- Contents: the fill byte 0 and `Mixed`, so both the compressed and the full page record occur.
- `RateCap`: 2 records on the stream, so a stage's loop stops on the rate limit as well as when nothing is dirty.
- `MaxWrites`: 3 guest or DMA writes, enough for a write between the scan passing a page and the page being sent, during each of two stages.
- Result: 183686 states, about 50 s with coverage.

**`timers`**
- Timers: three, two on `vm_clock` (so the PM timer and the device timer reorder) and one on `rt_clock`.
- Scales: 1 ns per us and 2 us per ms, so `rt_clock`'s reading truncates; `MIN_TIMER_REARM_US` 1; `INT32_MAX` 100, beyond the horizon.
- PM timer: 2 counts per 3 ns, overflow every 2 counts. The constants are chosen so that the overflow's `vm_clock` time `ovf*3/2` is exact. With real constants `muldiv64` rounds down by up to one PM tick, so the callback finds no overflow and re-arms for the same time until the tick passes; with a host clock that stops at `MaxNow` that would be an artificial livelock, not a behaviour of the code.
- Display refresh every 2 ms (4 ns); device timer re-armed 2 ns ahead.
- `MaxNow`: 4 ns, enough for the display timer to run twice, and for a PM overflow at 3 ns after a status clear at time 0, with a sleep, a stop or a cont before it. One more ns multiplies the state space by four and adds no new case.
- Result: 168224 states, depth 31. The reproductions, `QemuTimer_wakeup.cfg` included, use the same constants.

**`assigned_bar` (and `AssignedBarMap_adjacent.cfg`, `AssignedBarMap_ide.cfg`)**
- Pages of 2 units (`P`). Memory BARs: one of 4 units (two pages), one of 1 unit (sub-page, so the slow path), and one of 8 units holding the MSI-X table at host address 10, so the trap page splits its KVM slots into a range before, the page, and a range after.
- Guest addresses: two per memory BAR (0 or 4, 8 or 9, 16 or 24): region 0's two places are adjacent, region 1's second is not page-aligned, region 2's are a BAR's size apart. Each BAR may also be unmapped and mapped again at its old place. `GTop` 31 is the last address.
- I/O BARs: a raw 4-port BAR (so `ioperm` is granted on the first map and revoked at unplug) and a 2-port BAR, each movable between two port bases below `PTop` 11.
- Result: 3750 states, depth 11. The adjacent layout puts host region 1 right after region 0 with the table at its start; the IDE layout sets `Ide`.

**`cutils` (and `CUtils_y2038.cfg`, `CUtils_concat_zero.cfg`, `PciDevAddr_negative.cfg`, `PciDevAddr_two_bridges.cfg`)**
- Vectors: a three-byte memory, segments of up to two bytes, up to three segments, allocation hints 0 and 1 (so `qemu_iovec_add` grows the array), and external arrays. Skips and counts run past the vector's size.
- Strings: up to two characters from one upper- and one lower-case letter, buffers of every size up to 6.
- Dates: the epoch, a leap day, month boundaries; `CUtils_y2038.cfg` adds two dates past 2038-01-19.
- Addresses: every sequence of up to four fields from eight tokens (decimal-looking, hex, `0x`-prefixed, leading space, empty and invalid), with every separator. The bus tree is a chain `pci.0`, `pci.1`, `pci.2`; `PciDevAddr_two_bridges.cfg` puts both bridges on the host bus, and `PciDevAddr_negative.cfg` adds the token `-1`.
- Result: 1195 states, about 6 s. The parsers are checked once, at the constant level.

**`usb_desc`**
- One composite device: a full-speed table with two configurations (the first an interface association of two interfaces with class descriptors, self-powered with remote wakeup; the second bus-powered) and a high-speed table with one, so `GET_DESCRIPTOR(OTHER_SPEED_CONFIG)` and re-attach at the other speed change the answers.
- Lengths 2, 9 and 300, so replies are truncated in the header, in the body, and not at all (300 is longer than any descriptor). String indices 0 to 3 and the MS OS index 238.
- Result: 4162 states.

## Fairness

The `hotplug` run checks `SignalledUnplugCompletes` under `FairSpec` of `PIIX4Hotplug`:
- **The guest's OSPM: weak fairness.** This applies to each of running `_L01`, finishing it, and running `_EJ0` for each notified slot. A guest that keeps its ACPI interrupt enabled serves each SCI and each queued eject notification.
- **Everything else: no fairness.** This covers the monitor, the device models, resets and the guest's register writes.

The `ram_migration` run checks `MigrationConverges` under `FairSpec` of `RamMigration`:
- **The I/O thread's migration steps (`SaveBlock`, `PutPage`, `LoopExit`, `Flush`): weak fairness.** Once a stage has begun, the buffered file's callback keeps calling the loop.
- **The destination's `ram_load`: weak fairness.** The destination reads the socket.
- **The driver, the guest and the devices: no fairness.** The driver's decision to stop the VM is the antecedent of the property. Its handling of a failed stage 3 (`Fail`) has no fairness either, which is why `mig = "failed"` ends the property.

The `timers` run checks `DueTimersRun` under `FairSpec` of `QemuTimer`:
- **The I/O thread (`IoThread`: `MlWake`, `RunTimer`, `EndTimers`, `HandleRequests`): weak fairness.** It is one sequential thread, and its place `ml` enables exactly one of these at a time. `main_loop` calls `main_loop_wait` for ever, its poll returns within `qemu_calculate_timeout`'s 1000 ms in the I/O-thread build whether or not the alarm fires, a timer pass runs to its end under the global mutex, and pending requests are then served.
- **Host time (`Tick`): no fairness**, so the property must hold through the passes of `main_loop_wait` that a fixed clock reading allows. A due timer is due at the current time.
- **Device models, the guest and VM stop/cont: no fairness.**

`QemuTimer_wakeup.cfg` (finding 10) checks `WakeupResumes` under the same `FairSpec`. The violation needs no unfair scheduling: the I/O thread goes round its loop, and the loop never reaches the wakeup handler.

The other passing runs check safety properties only and assume no fairness.

`VmRun_pause.cfg` (finding 5) checks the liveness property `PauseReturns` under `FairSpec`:
- **The TCG thread: weak fairness.** The host schedules it.
- **The I/O thread: strong fairness.** It takes the global mutex through `qemu_fair_mutex` (`qemu_signal_lock`, `vl.c:3875`), which the TCG thread passes in every `qemu_wait_io_event`. The pause wait retakes the mutex without that scheme, so strong fairness there is more than the code guarantees. That only makes the violation more certain.
- **`AlarmFires`: weak fairness.** The alarm timer is periodic.
- **Monitor commands and device events: no fairness.** They are not assumed to happen.

## Not modelled (yet) and the plan

Left out for good, with the reason:
- **Device-assignment sysfs and MMIO data paths:** host I/O with no control of its own. The config dispatch is modelled in `PCICapList`, with the host's bytes constant, and the BAR mapping in `AssignedBarMap`. The slow BAR handlers (`slow_bar_*`) are reached through `exec.c`, which is not in this tree.
- **`vl.c` option parsing and machine set-up:** run once, sequentially.
- **USB descriptor byte layout:** formatting.
- **Tool stubs and headers:** no behaviour of their own.

Planned for the next sittings:
1. **Config migration:** `cmask` and `get_pci_config_device` (the `(new^old)&cmask&~wmask` check), added to `PCICapList`.
2. **`PIIX4Hotplug` extensions:** multi-function slots (the per-slot down bit), and the sleep-control write feeding `VmRun`'s requests. The PM timer is modelled in `QemuTimer`; its wakeup request from S3 (`pm_tmr_timer`) would join it to `VmRun`.
3. **Migration order:** `get_pci_config_device` ordering against bridge windows.
4. **`cow_open` layout:** the `int bitmap_size` computation (`cow.c:97`) at its width.
5. **`vl.c` timers:** the other alarm kinds (`hpet`, `rtc`, the periodic `unix` timer) and icount are not modelled.
6. **`vl.c` request liveness:** `vmstop_requested` (`vl.c:4251`, like the wakeup of finding 10), and joining `QemuTimer`'s suspend path with `VmRun`'s other requests.
7. **`AssignedBarMap`:** an MSI-X table at an offset that is not page-aligned (the trap page registered at `e_phys + offset` at `device-assignment.c:292` then straddles two guest pages), and the `msix_mmio_*` handlers' reads of the table.
8. **`PciDevAddr`:** `strtoul`'s `ERANGE` and the truncation of values past 2^32 into the `int`; `pci_parse_devaddr`'s callers in the monitor.
9. **`cutils.c` size parsing:** `strtosz_suffix` and `strtosz` (`cutils.c:398`), against a reference over suffixes and overflow.

## Running

Every configuration, the runs of `PROJECT.json` and the reproductions:

```
cd tla
tlc -workers 2 -config AssignedBarMap.cfg MC_AssignedBarMap
tlc -workers 2 -config AssignedBarMap_adjacent.cfg MC_AssignedBarMap
tlc -workers 2 -config AssignedBarMap_ide.cfg MC_AssignedBarMap
tlc -workers 2 -config AssignedIrq.cfg MC_AssignedIrq
tlc -workers 2 -config AssignedIrq_dual.cfg MC_AssignedIrq
tlc -workers 2 -config AssignedIrq_intx_lost.cfg MC_AssignedIrq
tlc -workers 2 -config AssignedIrq_route_leak.cfg MC_AssignedIrq
tlc -workers 2 -config CUtils.cfg MC_CUtils
tlc -workers 2 -config CUtils_concat_zero.cfg MC_CUtils
tlc -workers 2 -config CUtils_y2038.cfg MC_CUtils
tlc -workers 2 -config CowImage.cfg MC_CowImage
tlc -workers 2 -config CowStreak.cfg CowStreak
tlc -workers 2 -config PCIBarMapper.cfg MC_PCIBarMapper
tlc -workers 2 -config PCIBarMapper_bridge_cmd.cfg MC_PCIBarMapper
tlc -workers 2 -config PCICapList.cfg MC_PCICapList
tlc -workers 2 -config PCICapList_edge.cfg MC_PCICapList
tlc -workers 2 -config PCICapList_shortvndr.cfg MC_PCICapList
tlc -workers 2 -config PCICapList_vndr_hang.cfg MC_PCICapList
tlc -workers 2 -config PCIIrq_bridge_reset.cfg MC_PCIIrq
tlc -workers 2 -config PIIX4Hotplug.cfg MC_PIIX4Hotplug
tlc -workers 2 -config PIIX4Hotplug_leak.cfg MC_PIIX4Hotplug
tlc -workers 2 -config PIIX4Hotplug_notify.cfg MC_PIIX4Hotplug
tlc -workers 2 -config PciDevAddr_negative.cfg MC_CUtils
tlc -workers 2 -config PciDevAddr_two_bridges.cfg MC_CUtils
tlc -workers 2 -config QemuTimer.cfg MC_QemuTimer
tlc -workers 2 -config QemuTimer_pause_spin.cfg MC_QemuTimer
tlc -workers 2 -config QemuTimer_suspended.cfg MC_QemuTimer
tlc -workers 2 -config QemuTimer_wakeup.cfg MC_QemuTimer
tlc -workers 2 -config RamMigration.cfg RamMigration
tlc -workers 2 -config UsbDesc.cfg MC_UsbDesc
tlc -workers 2 -config VmRun.cfg MC_VmRun
tlc -workers 2 -config VmRun_pause.cfg MC_VmRun
```
