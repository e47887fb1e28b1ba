------------------------------ MODULE PciDevAddr ------------------------------
(***************************************************************************)
(* The PCI address parsers of hw/pci.c: pci_parse_devaddr reads the         *)
(* "[[<domain>:]<bus>:]<slot>" of the monitor's pci_add/pci_del and        *)
(* device options and looks the bus up with pci_find_bus;                  *)
(* pci_parse_host_devaddr reads the "[seg:]<bus>:<slot>.<func>" of          *)
(* -pcidevice host=. Each field is read with strtoul(.., 16).              *)
(*                                                                         *)
(* A string is a sequence of character codes; 0 past its end is the NUL.  *)
(* strtoul's unsigned long result is an integer; a negative one stands for *)
(* 2^64 plus it (the value of "-n"). Fields have at most a few digits, so  *)
(* strtoul's ERANGE case, and the truncation of a value of 2^32 or more to *)
(* the int of pci_parse_host_devaddr, are not reached.                     *)
(*                                                                         *)
(* The bus tree is fixed: pci_find_root_bus finds the host bus for domain  *)
(* 0 only, and each bus lists its child buses head first, as               *)
(* pci_register_secondary_bus inserts them.                                *)
(***************************************************************************)
EXTENDS Integers, Sequences, FiniteSets

CONSTANTS
  Buses,        \* the PCI buses
  HostBus,      \* the host bus of domain 0
  Children,     \* [Buses -> Seq(Buses)]: bus->child, head first
  Secondary,    \* [Buses \ {HostBus} -> 0..255]: PCI_SECONDARY_BUS of the bridge above
  Subordinate,  \* [Buses \ {HostBus} -> 0..255]: PCI_SUBORDINATE_BUS of that bridge
  NoBus,        \* NULL
  Tokens,       \* fields: [text |-> a string, val |-> the number it spells or -1]
  MaxFields     \* most fields in an address string

CharAt(s, i) == IF 1 <= i /\ i <= Len(s) THEN s[i] ELSE 0

Colon == 58
Dot == 46

IsSpace(c) == c \in {32, 9, 10, 11, 12, 13}   \* isspace in the C locale

(* The digit value of c in base 16, -1 for a non-digit. *)
HexVal(c) ==
  IF 48 <= c /\ c <= 57 THEN c - 48
  ELSE IF 97 <= c /\ c <= 102 THEN c - 87
  ELSE IF 65 <= c /\ c <= 70 THEN c - 55
  ELSE -1

RECURSIVE SkipSpace(_, _)
SkipSpace(s, i) == IF IsSpace(CharAt(s, i)) THEN SkipSpace(s, i + 1) ELSE i

RECURSIVE DigitRun(_, _, _)
DigitRun(s, i, acc) ==
  IF HexVal(CharAt(s, i)) >= 0 THEN DigitRun(s, i + 1, acc * 16 + HexVal(CharAt(s, i)))
  ELSE [acc |-> acc, end |-> i]

(* strtoul(s + i - 1, &e, 16): white space, a sign, an optional 0x before *)
(* a digit, then the digits; end is the index e points at, i itself when   *)
(* no digit was read.                                                      *)
Strtoul(s, i) ==
  LET j == SkipSpace(s, i)
      k == IF CharAt(s, j) \in {43, 45} THEN j + 1 ELSE j
      x == CharAt(s, k) = 48 /\ CharAt(s, k + 1) \in {88, 120} /\ HexVal(CharAt(s, k + 2)) >= 0
      d == DigitRun(s, IF x THEN k + 2 ELSE k, 0)
  IN IF d.end = k THEN [val |-> 0, end |-> i]
     ELSE [val |-> IF CharAt(s, j) = 45 THEN -d.acc ELSE d.acc, end |-> d.end]

(* v > b for an unsigned long v. *)
ULongAbove(v, b) == v < 0 \/ v > b

(* pci_bus_num *)
BusNum(b) == IF b = HostBus THEN 0 ELSE Secondary[b]

(* pci_find_root_bus: only domain 0 is registered. *)
RootBus(dom) == IF dom = 0 THEN HostBus ELSE NoBus

(* pci_find_bus(b, n): b itself if its number is n, else the search goes  *)
(* on in the first child the loop accepts: any child of the host bus, a   *)
(* child numbered at most n of a bridge whose subordinate byte is set.    *)
RECURSIVE FindBus(_, _)
FindBus(b, n) ==
  IF b = NoBus THEN NoBus
  ELSE IF BusNum(b) = n THEN b
  ELSE LET ok(sec) == b = HostBus \/ (BusNum(sec) <= n /\ Subordinate[b] /= 0)
           cs == Children[b]
           hits == {i \in DOMAIN cs : ok(cs[i])}
       IN IF hits = {} THEN NoBus
          ELSE FindBus(cs[CHOOSE i \in hits : \A h \in hits : i <= h], n)

Fail == [ok |-> FALSE]

(* The fields strtoul reads one after the other from index i, each      *)
(* starting one past where the previous one ended: p = e + 1.            *)
RECURSIVE Fields(_, _, _)
Fields(s, i, n) ==
  IF n = 0 THEN <<>>
  ELSE LET a == Strtoul(s, i) IN <<a>> \o Fields(s, a.end + 1, n - 1)

(* pci_parse_devaddr's checks on its fields a, b, c: up to three fields *)
(* split at ':', the range checks on the unsigned longs, trailing        *)
(* characters, the bus lookup.                                           *)
DevAddr(s, a, b, c) ==
  LET two == CharAt(s, a.end) = Colon
      three == two /\ b.end /= a.end + 1 /\ CharAt(s, b.end) = Colon
      f == IF three THEN [dom |-> a.val, bus |-> b.val, val |-> c.val, e |-> c.end]
           ELSE IF two THEN [dom |-> 0, bus |-> a.val, val |-> b.val, e |-> b.end]
           ELSE [dom |-> 0, bus |-> 0, val |-> a.val, e |-> a.end]
  IN IF a.end = 1 \/ (two /\ b.end = a.end + 1) \/ (three /\ c.end = b.end + 1) THEN Fail
     ELSE IF ULongAbove(f.dom, 65535) \/ ULongAbove(f.bus, 255) \/ ULongAbove(f.val, 31) THEN Fail
     ELSE IF CharAt(s, f.e) /= 0 THEN Fail
     ELSE IF FindBus(RootBus(f.dom), f.bus) = NoBus THEN Fail
     ELSE [ok |-> TRUE, dom |-> f.dom, bus |-> f.bus, slot |-> f.val]

(* pci_parse_devaddr(s) *)
ParseDevAddr(s) == LET r == Fields(s, 1, 3) IN DevAddr(s, r[1], r[2], r[3])

(* A parser that takes what follows the function field for a terminator. *)
HostDevAddrNoTrailing(s, colons, a, p, b, c, d) ==
  LET seg == IF p > 1 THEN a.val ELSE 0
  IN IF colons \notin {1, 2} \/ (colons = 2 /\ a.end = 1) THEN Fail
     ELSE IF b.end = p \/ CharAt(s, b.end) /= Colon THEN Fail
     ELSE IF c.end = b.end + 1 \/ CharAt(s, c.end) /= Dot THEN Fail
     ELSE IF d.end = c.end + 1 THEN Fail
     ELSE IF seg > 65535 \/ b.val > 255 \/ c.val > 31 \/ d.val > 7 THEN Fail
     ELSE [ok |-> TRUE, seg |-> seg, bus |-> b.val, slot |-> c.val, func |-> d.val]

(* pci_parse_host_devaddr's checks: one or two ':' in the whole string,   *)
(* the optional seg field a (taken when the bdf starts at p > 1), then    *)
(* bus ':' slot '.' func; the range checks on the int fields; trailing    *)
(* characters.                                                            *)
HostDevAddr(s, colons, a, p, b, c, d) ==
  LET seg == IF p > 1 THEN a.val ELSE 0
  IN IF colons \notin {1, 2} \/ (colons = 2 /\ a.end = 1) THEN Fail
     ELSE IF b.end = p \/ CharAt(s, b.end) /= Colon THEN Fail
     ELSE IF c.end = b.end + 1 \/ CharAt(s, c.end) /= Dot THEN Fail
     ELSE IF d.end = c.end + 1 THEN Fail
     ELSE IF seg > 65535 \/ b.val > 255 \/ c.val > 31 \/ d.val > 7 THEN Fail
     ELSE IF CharAt(s, d.end) /= 0 THEN Fail
     ELSE [ok |-> TRUE, seg |-> seg, bus |-> b.val, slot |-> c.val, func |-> d.val]

(* pci_parse_host_devaddr(s): the ':' count, the seg field when there are *)
(* two and it ends at a ':', then the bdf from p.                         *)
ParseHostDevAddr(s) ==
  LET colons == Cardinality({i \in DOMAIN s : s[i] = Colon})
      a == Strtoul(s, 1)
      p == IF colons = 2 /\ a.end /= 1 /\ CharAt(s, a.end) = Colon THEN a.end + 1 ELSE 1
      r == Fields(s, p, 3)
  IN HostDevAddr(s, colons, a, p, r[1], r[2], r[3])

PciAddrTag == <<112, 99, 105, 95, 97, 100, 100, 114, 61>>   \* "pci_addr="

(* pci_read_devaddr: the legacy tag is stripped first. *)
ReadDevAddr(s) ==
  ParseDevAddr(IF Len(s) >= 9 /\ SubSeq(s, 1, 9) = PciAddrTag THEN SubSeq(s, 10, Len(s)) ELSE s)

(* The end of pci_get_bus_devfn for a parse result r. *)
BusDevfnOf(r) ==
  IF ~r.ok THEN [devfn |-> "unset", bus |-> NoBus]
  ELSE [devfn |-> r.slot * 8, bus |-> FindBus(RootBus(0), r.bus)]

(* pci_get_bus_devfn(devaddr): the bus and devfn a -device or pci_add    *)
(* address names; given is FALSE for a NULL devaddr, which asks for any   *)
(* free slot (devfn -1) on bus 0. On a parse error *devfnp is not         *)
(* written.                                                               *)
GetBusDevfn(given, s) ==
  IF ~given THEN [devfn |-> -1, bus |-> FindBus(RootBus(0), 0)]
  ELSE BusDevfnOf(ParseDevAddr(s))

-----------------------------------------------------------------------------
(* The grammars the comments above the parsers give, on strings built    *)
(* from fields and separators: a field is a token with the hexadecimal   *)
(* number it spells (white space before it, a '+' and a 0x prefix are    *)
(* allowed, as in C's number syntax), or val -1 if it spells none.       *)

RECURSIVE Join(_, _)
Join(fs, ss) ==
  IF Len(fs) = 1 THEN fs[1].text
  ELSE fs[1].text \o <<ss[1]>> \o Join(Tail(fs), Tail(ss))

Numbers(fs) == \A i \in DOMAIN fs : fs[i].val >= 0

(* The bus numbered n in the tree, if there is one. *)
BusNumbered(n) == IF \E b \in Buses : BusNum(b) = n THEN CHOOSE b \in Buses : BusNum(b) = n ELSE NoBus

(* "[[<domain>:]<bus>:]<slot>", domain 0 the only one, a bus of the tree. *)
RefDevAddr(fs, ss) ==
  LET n == Len(fs)
      dom == IF n = 3 THEN fs[1].val ELSE 0
      bus == IF n = 1 THEN 0 ELSE fs[n - 1].val
      slot == fs[n].val
  IN IF n <= 3 /\ (\A i \in DOMAIN ss : ss[i] = Colon) /\ Numbers(fs)
        /\ dom = 0 /\ bus <= 255 /\ slot <= 31 /\ BusNumbered(bus) /= NoBus
     THEN [ok |-> TRUE, dom |-> dom, bus |-> bus, slot |-> slot]
     ELSE Fail

(* "[seg:]<bus>:<slot>.<func>" with seg, bus, slot, func in range. *)
RefHostDevAddr(fs, ss) ==
  LET n == Len(fs)
      f(k) == fs[n - 3 + k]
      seg == IF n = 4 THEN fs[1].val ELSE 0
  IN IF n \in {3, 4} /\ ss = (IF n = 3 THEN <<Colon, Dot>> ELSE <<Colon, Colon, Dot>>)
        /\ Numbers(fs) /\ seg <= 65535 /\ f(1).val <= 255 /\ f(2).val <= 31 /\ f(3).val <= 7
     THEN [ok |-> TRUE, seg |-> seg, bus |-> f(1).val, slot |-> f(2).val, func |-> f(3).val]
     ELSE Fail

=============================================================================
