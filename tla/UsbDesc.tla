------------------------------- MODULE UsbDesc -------------------------------
(***************************************************************************)
(* The USB descriptor layer of hw/usb-desc.c for one emulated device: the *)
(* device's speed and active descriptor set (usb_desc_init,               *)
(* usb_desc_attach, usb_desc_setdefaults), its string table               *)
(* (usb_desc_set_string, usb_desc_create_serial) and the standard         *)
(* control requests usb_desc_handle_control answers, with the descriptor  *)
(* serializers (usb_desc_device ... usb_desc_other, usb_desc_string)      *)
(* producing the reply bytes.                                             *)
(*                                                                         *)
(* The device's static tables are the constant Desc: per speed a device   *)
(* (or NoDev) with its configurations, each with interface groups and     *)
(* interfaces, class descriptors and endpoints. A multi-byte field is     *)
(* written as its low and high byte. reply is the last request and what   *)
(* the device answered: ret (-1 is a stall) and the bytes of data.        *)
(* selected is a history variable: the configuration value the host last  *)
(* set since the descriptors were last chosen.                            *)
(***************************************************************************)
EXTENDS Integers, Sequences, SequencesExt

CONSTANTS
  Desc,          \* the USBDesc: [id, full, high, str, msos]
  MsosEnable,    \* the device's msos-desc flag (USB_DEV_FLAG_MSOS_DESC_ENABLE)
  UniqueSerial,  \* dev->create_unique_serial
  SerialStr,     \* the serial usb_desc_create_serial formats
  PortMasks,     \* speed masks of the ports the device is attached to
  Addrs,         \* SET_ADDRESS values
  Lens,          \* wLength of GET requests
  Indices,       \* descriptor indices
  ConfValues,    \* SET_CONFIGURATION values
  Features,      \* CLEAR/SET_FEATURE values
  NoDev, NoStr, None

\* Descriptor types and feature selectors of usb.h (USB 2.0, chapter 9).
DT_DEVICE == 1
DT_CONFIG == 2
DT_STRING == 3
DT_INTERFACE == 4
DT_ENDPOINT == 5
DT_DEVICE_QUALIFIER == 6
DT_OTHER_SPEED_CONFIG == 7
DT_DEBUG == 10
DT_INTERFACE_ASSOC == 11
USB_DEVICE_SELF_POWERED == 0
USB_DEVICE_REMOTE_WAKEUP == 1
BufLen == 256   \* the uint8_t buf[256] of usb_desc_get_descriptor
MsosIndex == 238
MsosStr == <<77, 83, 70, 84, 49, 48, 48, 81>>   \* "MSFT100Q"

Speeds == {"full", "high"}

VARIABLES
  phase,     \* "created" until usb_desc_init, then "ready"
  speed,     \* dev->speed
  speedmask, \* dev->speedmask, as a set of speeds
  device,    \* dev->device: which of Desc.full, Desc.high
  config,    \* dev->config: [tbl, idx], configuration idx of table tbl
  addr,      \* dev->addr
  rwakeup,   \* dev->remote_wakeup
  strings,   \* dev->strings: index -> string, or NoStr
  msos,      \* USB_DEV_FLAG_MSOS_DESC_IN_USE
  reply,     \* history: the last control request since attach, and its answer
  selected   \* history: value of the last SET_CONFIGURATION since setdefaults

vars == <<phase, speed, speedmask, device, config, addr, rwakeup, strings, msos, reply, selected>>

Lo(x) == x % 256
Hi(x) == (x \div 256) % 256
MinOf(a, b) == IF a < b THEN a ELSE b

Fail == [rc |-> -1, bytes |-> <<>>]
Ok(b) == [rc |-> Len(b), bytes |-> b]

(* A header followed by what a loop wrote, unless the loop failed. *)
After(hdr, r) == IF r.rc < 0 THEN r ELSE Ok(hdr \o r.bytes)

(* One turn of the "for each item: rc = f(item, dest + pos, len - pos);   *)
(* if rc < 0 return rc; pos += rc" loop the serializers share, r being    *)
(* what f wrote; the loops are FoldLeft over the items.                   *)
SerStep(acc, r) == IF acc.rc < 0 THEN acc ELSE After(acc.bytes, r)

---------------------------------------------------------------------------
(* Serializers *)

(* usb_desc_device: bcdUSB raised to 2.0 when MS OS descriptors are used. *)
DescDevice(id, dev, useMsos, len) ==
  LET bcd == IF useMsos /\ dev.bcdUSB < 512 THEN 512 ELSE dev.bcdUSB
  IN IF len < 18 THEN Fail
     ELSE Ok(<<18, DT_DEVICE, Lo(bcd), Hi(bcd), dev.cls, 0, 0, dev.maxpkt0,
               Lo(id.vendor), Hi(id.vendor), Lo(id.product), Hi(id.product),
               Lo(id.bcdDevice), Hi(id.bcdDevice), id.iManufacturer, id.iProduct, id.iSerialNumber, Len(dev.confs)>>)

DescDeviceQualifier(dev, len) ==
  IF len < 10 THEN Fail
  ELSE Ok(<<10, DT_DEVICE_QUALIFIER, Lo(dev.bcdUSB), Hi(dev.bcdUSB), dev.cls, 0, 0,
            dev.maxpkt0, Len(dev.confs), 0>>)

DescEndpoint(ep, len) ==
  IF len < 7 THEN Fail
  ELSE Ok(<<7, DT_ENDPOINT, ep.addr, ep.attrs, Lo(ep.mps), Hi(ep.mps), ep.interval>>)

(* usb_desc_other: the class descriptor's bytes, desc->length of them or, *)
(* if that is 0, as many as its own first byte says.                      *)
DescOther(d, len) ==
  LET n == IF d.length /= 0 THEN d.length ELSE d.data[1]
  IN IF len < n THEN Fail ELSE Ok(SubSeq(d.data, 1, n))

(* usb_desc_iface after its class descriptors were written: the         *)
(* endpoints, unless the class descriptors failed.                        *)
IfaceRest(iface, len, others) ==
  IF others.rc < 0 THEN others
  ELSE After(<<9, DT_INTERFACE, iface.num, iface.alt, Len(iface.eps), iface.cls, 0, 0, 0>>,
             After(others.bytes, FoldLeft(LAMBDA a, it : SerStep(a, DescEndpoint(it, len - 9 - others.rc - a.rc)), Ok(<<>>), iface.eps)))

(* usb_desc_iface: the interface, its class descriptors, its endpoints. *)
DescIface(iface, len) ==
  IF len < 9 THEN Fail
  ELSE IfaceRest(iface, len, FoldLeft(LAMBDA a, it : SerStep(a, DescOther(it, len - 9 - a.rc)), Ok(<<>>), iface.descs))

(* usb_desc_iface_group: the association descriptor, then its interfaces. *)
DescIfaceGroup(iad, len) ==
  IF len < 8 THEN Fail
  ELSE After(<<8, DT_INTERFACE_ASSOC, iad.first, Len(iad.ifs), iad.cls, 0, 0, 0>>,
             FoldLeft(LAMBDA a, it : SerStep(a, DescIface(it, len - 8 - a.rc)), Ok(<<>>), iad.ifs))

(* usb_desc_config's end: wTotalLength filled in last. *)
ConfigEnd(conf, groups, ifs) ==
  IF ifs.rc < 0 THEN ifs
  ELSE LET total == 9 + groups.rc + ifs.rc
       IN Ok(<<9, DT_CONFIG, Lo(total), Hi(total), conf.nif, conf.value, 0, conf.attrs, 50>>
             \o groups.bytes \o ifs.bytes)

(* usb_desc_config after the grouped interfaces: the other interfaces. *)
ConfigRest(conf, len, groups) ==
  IF groups.rc < 0 THEN groups
  ELSE ConfigEnd(conf, groups, FoldLeft(LAMBDA a, it : SerStep(a, DescIface(it, len - 9 - groups.rc - a.rc)), Ok(<<>>), conf.ifs))

(* usb_desc_config: the header, the grouped interfaces, the others, and    *)
(* wTotalLength filled in last.                                           *)
DescConfig(conf, len) ==
  IF len < 9 THEN Fail
  ELSE ConfigRest(conf, len, FoldLeft(LAMBDA a, it : SerStep(a, DescIfaceGroup(it, len - 9 - a.rc)), Ok(<<>>), conf.groups))

(* usb_desc_get_string: the device's own string for index, if set. *)
GetString(idx) == strings[idx]

(* The loop of usb_desc_string: UTF-16LE code units while both the        *)
(* uint8_t bLength and len allow; it returns pos.                         *)
RECURSIVE StringLoop(_, _, _, _, _)
StringLoop(bytes, str, blen, len, pos) ==
  IF pos + 1 < blen /\ pos + 1 < len
    THEN StringLoop(bytes \o <<str[(pos \div 2)], 0>>, str, blen, len, pos + 2)
    ELSE bytes

(* usb_desc_string: language IDs for index 0; 0 bytes for no string. *)
DescString(idx, len) ==
  IF len < 4 THEN Fail
  ELSE IF idx = 0 THEN Ok(<<4, DT_STRING, 9, 4>>)
  ELSE LET str == IF GetString(idx) /= NoStr THEN GetString(idx) ELSE Desc.str[idx]
           blen == (Len(str) * 2 + 2) % 256
       IN IF str = NoStr THEN Ok(<<>>)
          ELSE Ok(StringLoop(<<blen, DT_STRING>>, str, blen, len, 2))

---------------------------------------------------------------------------
(* The device's state *)

Table(tbl) == Desc[tbl]
Dev == Table(device)
OtherTable == IF speed = "high" THEN "full" ELSE "high"
CurConf == Table(config.tbl).confs[config.idx]

(* The other-speed configuration: the configuration with its type byte   *)
(* rewritten.                                                             *)
OtherSpeed(c) == IF c.rc < 0 THEN c ELSE Ok([c.bytes EXCEPT ![2] = DT_OTHER_SPEED_CONFIG])

(* usb_desc_get_descriptor's end: at most len bytes of a positive result. *)
CopyOut(r, len) ==
  LET ret == IF r.rc > 0 THEN MinOf(r.rc, len) ELSE r.rc
  IN [ret |-> ret, data |-> IF r.rc > 0 THEN SubSeq(r.bytes, 1, ret) ELSE <<>>]

(* usb_desc_get_descriptor: serialize into buf[256], then copy at most    *)
(* len bytes of a positive result.                                        *)
GetDescriptor(type, idx, len) ==
  LET other == Table(OtherTable)
      r == CASE type = DT_DEVICE -> DescDevice(Desc.id, Dev, msos, BufLen)
             [] type = DT_CONFIG ->
                  IF idx < Len(Dev.confs) THEN DescConfig(Dev.confs[idx + 1], BufLen) ELSE Fail
             [] type = DT_STRING -> DescString(idx, BufLen)
             [] type = DT_DEVICE_QUALIFIER ->
                  IF other /= NoDev THEN DescDeviceQualifier(other, BufLen) ELSE Fail
             [] type = DT_OTHER_SPEED_CONFIG ->
                  IF other /= NoDev /\ idx < Len(other.confs)
                    THEN OtherSpeed(DescConfig(other.confs[idx + 1], BufLen))
                    ELSE Fail
             [] OTHER -> Fail
  IN CopyOut(r, len)

(* usb_desc_setdefaults: the descriptors of the current speed, and their *)
(* first configuration.                                                   *)
SetDefaults(sp) ==
  /\ device' = sp
  /\ config' = [tbl |-> sp, idx |-> 1]
  /\ selected' = None

(* No request answered since the device was attached. *)
NoReply == [req |-> "none", arg |-> 0, len |-> 0, ret |-> 0, data |-> <<>>]

Answer(req, arg, len, ans) == reply' = [req |-> req, arg |-> arg, len |-> len, ret |-> ans.ret, data |-> ans.data]

---------------------------------------------------------------------------
(* Actions *)

(* usb_desc_create_serial, from the device's init before usb_desc_init. *)
CreateSerial ==
  /\ phase = "created" /\ UniqueSerial
  /\ strings' = [strings EXCEPT ![Desc.id.iSerialNumber] = SerialStr]
  /\ UNCHANGED <<phase, speed, speedmask, device, config, addr, rwakeup, msos, reply, selected>>

(* usb_desc_init: full speed, the speeds the tables offer, the MS OS      *)
(* string if enabled, then setdefaults.                                   *)
UsbDescInit ==
  /\ phase = "created"
  /\ phase' = "ready"
  /\ speed' = "full"
  /\ speedmask' = {sp \in Speeds : Table(sp) /= NoDev}
  /\ msos' = (Desc.msos /\ MsosEnable)
  /\ strings' = IF Desc.msos /\ MsosEnable THEN [strings EXCEPT ![MsosIndex] = MsosStr] ELSE strings
  /\ SetDefaults("full")
  /\ UNCHANGED <<addr, rwakeup, reply>>

(* Mutant: attach switches the speed but keeps the descriptors chosen    *)
(* for the old one.                                                       *)
UsbDescAttachNoDefaults(mask) ==
  /\ phase = "ready"
  /\ \/ /\ Table("high") /= NoDev /\ "high" \in mask
        /\ speed' = "high"
     \/ /\ ~(Table("high") /= NoDev /\ "high" \in mask)
        /\ Table("full") /= NoDev /\ "full" \in mask
        /\ speed' = "full"
  /\ reply' = NoReply
  /\ UNCHANGED <<phase, speedmask, device, config, selected, addr, rwakeup, strings, msos>>

(* usb_desc_attach to a port with speed mask mask: high speed if both    *)
(* offer it, else full speed, else a message and no change.              *)
UsbDescAttach(mask) ==
  /\ phase = "ready"
  /\ \/ /\ Table("high") /= NoDev /\ "high" \in mask
        /\ speed' = "high" /\ SetDefaults("high")
     \/ /\ ~(Table("high") /= NoDev /\ "high" \in mask)
        /\ Table("full") /= NoDev /\ "full" \in mask
        /\ speed' = "full" /\ SetDefaults("full")
     \/ /\ ~(Table("high") /= NoDev /\ "high" \in mask)
        /\ ~(Table("full") /= NoDev /\ "full" \in mask)
        /\ UNCHANGED <<speed, device, config, selected>>
  /\ reply' = NoReply
  /\ UNCHANGED <<phase, speedmask, addr, rwakeup, strings, msos>>

Ready == phase = "ready"
Keep == UNCHANGED <<phase, speed, speedmask, device, config, addr, rwakeup, strings, msos, selected>>

SetAddress(v) ==
  /\ Ready /\ addr' = v
  /\ Answer("set_address", v, 0, [ret |-> 0, data |-> <<>>])
  /\ UNCHANGED <<phase, speed, speedmask, device, config, rwakeup, strings, msos, selected>>

GetDescriptorReq(type, idx, len) ==
  /\ Ready /\ Answer("get_descriptor", <<type, idx>>, len, GetDescriptor(type, idx, len))
  /\ Keep

GetConfiguration(len) ==
  /\ Ready /\ Answer("get_configuration", 0, len, [ret |-> 1, data |-> <<CurConf.value>>])
  /\ Keep

(* SET_CONFIGURATION: the last configuration with that value; a stall if *)
(* none has it.                                                           *)
SetConfiguration(v) ==
  /\ Ready
  /\ LET hits == {i \in DOMAIN Dev.confs : Dev.confs[i].value = v} IN
       IF hits = {}
         THEN Answer("set_configuration", v, 0, [ret |-> -1, data |-> <<>>]) /\ UNCHANGED <<config, selected>>
         ELSE /\ config' = [tbl |-> device, idx |-> Max(hits)]
              /\ selected' = v
              /\ Answer("set_configuration", v, 0, [ret |-> 0, data |-> <<>>])
  /\ UNCHANGED <<phase, speed, speedmask, device, addr, rwakeup, strings, msos>>

GetStatus(len) ==
  /\ Ready
  /\ LET sp == IF (CurConf.attrs \div 64) % 2 = 1 THEN 2^USB_DEVICE_SELF_POWERED ELSE 0
         rw == IF rwakeup THEN 2^USB_DEVICE_REMOTE_WAKEUP ELSE 0
     IN Answer("get_status", 0, len, [ret |-> 2, data |-> <<sp + rw, 0>>])
  /\ Keep

(* CLEAR_FEATURE and SET_FEATURE (on = TRUE): only remote wakeup. *)
Feature(v, on) ==
  /\ Ready
  /\ IF v = USB_DEVICE_REMOTE_WAKEUP
       THEN rwakeup' = on /\ Answer(IF on THEN "set_feature" ELSE "clear_feature", v, 0, [ret |-> 0, data |-> <<>>])
       ELSE UNCHANGED rwakeup /\ Answer(IF on THEN "set_feature" ELSE "clear_feature", v, 0, [ret |-> -1, data |-> <<>>])
  /\ UNCHANGED <<phase, speed, speedmask, device, config, addr, strings, msos, selected>>

(* The vendor 'Q' requests go to usb_desc_msos (not in this file) when    *)
(* MS OS descriptors are in use; any other request stalls.                *)
VendorQ ==
  /\ Ready
  /\ Answer("vendor_q", 0, 0, [ret |-> IF msos THEN 0 ELSE -1, data |-> <<>>])
  /\ Keep

Init ==
  /\ phase = "created" /\ speed = "full" /\ speedmask = {} /\ device = "full"
  /\ config = [tbl |-> "full", idx |-> 1] /\ addr = 0 /\ rwakeup = FALSE
  /\ strings = [i \in DOMAIN Desc.str |-> NoStr] /\ msos = FALSE
  /\ reply = NoReply
  /\ selected = None

Next ==
  \/ CreateSerial
  \/ UsbDescInit
  \/ \E m \in PortMasks : UsbDescAttach(m)
  \/ \E v \in Addrs : SetAddress(v)
  \/ \E t \in {DT_DEVICE, DT_CONFIG, DT_STRING, DT_DEVICE_QUALIFIER, DT_OTHER_SPEED_CONFIG, DT_DEBUG},
        i \in Indices, l \in Lens : GetDescriptorReq(t, i, l)
  \/ \E l \in Lens : GetConfiguration(l)
  \/ \E v \in ConfValues : SetConfiguration(v)
  \/ \E l \in Lens : GetStatus(l)
  \/ \E v \in Features, on \in BOOLEAN : Feature(v, on)
  \/ VendorQ

Spec == Init /\ [][Next]_vars

---------------------------------------------------------------------------
(* What the replies should say *)

(* A run of descriptors, each bLength long and at least 2 bytes. *)
RECURSIVE Chain(_)
Chain(b) == b = <<>> \/ (b[1] >= 2 /\ b[1] <= Len(b) /\ Chain(SubSeq(b, b[1] + 1, Len(b))))

(* The configuration the host is using: the last one of the current     *)
(* speed's table with the value it set, or the first one if it set none. *)
InUse ==
  LET confs == Desc[speed].confs
  IN IF selected = None THEN confs[1]
     ELSE confs[Max({i \in DOMAIN confs : confs[i].value = selected})]

(* The string the device reports for index i. *)
StringOf(i) == IF strings[i] /= NoStr THEN strings[i] ELSE Desc.str[i]

(* A configuration reply of table t: a chain of descriptors headed by   *)
(* type, whose wTotalLength is the whole length, for the configuration   *)
(* at index idx of the table.                                             *)
ConfReply(data, ret, len, t, idx, type) ==
  /\ idx < Len(Desc[t].confs)
  /\ data[2] = type
  /\ len >= BufLen => /\ Chain(data)
                      /\ data[3] + 256 * data[4] = ret
                      /\ data[6] = Desc[t].confs[idx + 1].value

(* usb_desc_handle_control answers from the descriptors of the speed the *)
(* device is attached at and the configuration the host chose: a device *)
(* descriptor of that speed, configuration descriptors that are          *)
(* well-formed chains with the right wTotalLength, a device qualifier   *)
(* and other-speed configuration of the other speed, strings as set,    *)
(* and GET_CONFIGURATION and GET_STATUS for the configuration in use.    *)
(* A stale dev->device or dev->config after usb_desc_attach, or a       *)
(* serializer that miscounts, breaks it.                                 *)
ControlRepliesDescribeDevice ==
  LET r == reply
      other == IF speed = "high" THEN "full" ELSE "high"
  IN /\ r.req = "get_descriptor" /\ r.ret > 0 =>
          /\ Len(r.data) = r.ret /\ r.ret <= r.len
          /\ \A x \in 1..Len(r.data) : r.data[x] \in 0..255
          /\ CASE r.arg[1] = DT_DEVICE ->
                    IsPrefix(r.data, DescDevice(Desc.id, Desc[speed], msos, BufLen).bytes)
               [] r.arg[1] = DT_CONFIG -> ConfReply(r.data, r.ret, r.len, speed, r.arg[2], DT_CONFIG)
               [] r.arg[1] = DT_OTHER_SPEED_CONFIG ->
                    Desc[other] /= NoDev /\ ConfReply(r.data, r.ret, r.len, other, r.arg[2], DT_OTHER_SPEED_CONFIG)
               [] r.arg[1] = DT_DEVICE_QUALIFIER ->
                    Desc[other] /= NoDev /\ (r.ret >= 8 => r.data[8] = Desc[other].maxpkt0)
               [] r.arg[1] = DT_STRING /\ r.arg[2] /= 0 ->
                    LET str == StringOf(r.arg[2]) IN
                    /\ r.data[1] = 2 * Len(str) + 2
                    /\ r.len >= BufLen => r.ret = 2 * Len(str) + 2
                    /\ \A k \in 1..Len(str) : 2 * k + 1 <= r.ret => r.data[2 * k + 1] = str[k]
               [] OTHER -> TRUE
     /\ r.req = "get_configuration" => r.data = <<InUse.value>>
     /\ r.req = "get_status" => (r.data[1] % 2 = 1) = ((InUse.attrs \div 64) % 2 = 1)
====
