------------------------------- MODULE MC_CUtils -------------------------------
(* Three bytes of guest memory and segments of up to two bytes, so a      *)
(* vector of three segments can hold empty, overlapping and adjacent      *)
(* segments. Alloc hints 0 and 1 make qemu_iovec_add grow the array from *)
(* 0 to 1 and from 1 to 3. The sources of copy and concat have an empty   *)
(* first or last segment, overlapping segments, or none; skips and sizes  *)
(* run past their ends, and reach every segment boundary.                *)
(*                                                                         *)
(* Strings of up to two characters from 'A' and 'a', buffers of 0 to 3    *)
(* bytes, so every string is copied whole, cut, and not at all.           *)
EXTENDS CUtils, PciDevAddr

S(b, l) == [base |-> b, len |-> l]
Owned0(iov) == [iov |-> iov, nalloc |-> Len(iov), size |-> SumLens(iov)]

MC_ExtArrays == {<<S(0, 1), S(1, 2)>>, <<>>}
MC_SrcVecs == {Owned0(<<S(0, 2), S(2, 1)>>),
               Owned0(<<S(0, 0), S(1, 2)>>),
               Owned0(<<S(0, 2), S(1, 2)>>),
               Owned0(<<S(2, 1), S(0, 1), S(1, 0)>>),
               Owned0(<<>>)}
(* Dates from 1970 through the int overflow of 86400 * days on           *)
(* 2038-01-19 03:14:08, with leap and non-leap Februaries.                *)
Tm(y, mo, d, h, mi, se) == [year |-> y - 1900, mon |-> mo, mday |-> d, hour |-> h, min |-> mi, sec |-> se]
MC_Dates == {Tm(1970, 0, 1, 0, 0, 0), Tm(2000, 1, 29, 12, 0, 0), Tm(2000, 2, 1, 0, 0, 0),
             Tm(2037, 11, 31, 23, 59, 59), Tm(2038, 0, 19, 3, 14, 7)}
MC_LaterDates == MC_Dates \cup {Tm(2038, 0, 20, 0, 0, 0), Tm(2040, 5, 1, 0, 0, 0)}
(* A host bus with a bridge to bus 1 and, behind it, a bridge to bus 2.   *)
(* Fields: 0, 1, 1f, 100 (past every range), 0x2, " 1", an empty one and *)
(* "g", which spells no number, so addresses are well-formed, refused for *)
(* a range, a missing field, a bad character or a wrong separator.        *)
MC_Children == ("pci.0" :> <<"pci.1">>) @@ ("pci.1" :> <<"pci.2">>) @@ ("pci.2" :> <<>>)
MC_Secondary == ("pci.1" :> 1) @@ ("pci.2" :> 2)
MC_Subordinate == ("pci.1" :> 2) @@ ("pci.2" :> 2)
(* The same buses with both bridges on the host bus, bus 2's registered   *)
(* last and so at the head of the list.                                   *)
MC_ChildrenFlat == ("pci.0" :> <<"pci.2", "pci.1">>) @@ ("pci.1" :> <<>>) @@ ("pci.2" :> <<>>)
MC_SubordinateFlat == ("pci.1" :> 1) @@ ("pci.2" :> 2)
Tok(t, v) == [text |-> t, val |-> v]
MC_Tokens == {Tok(<<48>>, 0), Tok(<<49>>, 1), Tok(<<49, 102>>, 31), Tok(<<49, 48, 48>>, 256),
              Tok(<<48, 120, 50>>, 2), Tok(<<32, 49>>, 1), Tok(<<>>, -1), Tok(<<103>>, -1)}
(* The same with "-1", which spells no number. *)
MC_TokensNeg == MC_Tokens \cup {Tok(<<45, 49>>, -1)}

(* One address against the grammars: s spells the fields fs with the     *)
(* separators ss, and ref is what the devaddr grammar gives.             *)
AddrAgrees(s, ref, fs, ss) ==
  /\ ParseDevAddr(s) = ref
  /\ ReadDevAddr(PciAddrTag \o s) = ref
  /\ ParseHostDevAddr(s) = RefHostDevAddr(fs, ss)
  /\ ref.ok => GetBusDevfn(TRUE, s) = [devfn |-> ref.slot * 8, bus |-> BusNumbered(ref.bus)]

AddrParsersAgree ==
  /\ GetBusDevfn(FALSE, <<>>) = [devfn |-> -1, bus |-> HostBus]
  /\ \A n \in 1..MaxFields : \A fs \in [1..n -> Tokens], ss \in [1..(n - 1) -> {Colon, Dot}] :
       AddrAgrees(Join(fs, ss), RefDevAddr(fs, ss), fs, ss)

(* Every address string of up to MaxFields fields parses as the         *)
(* comments' grammars say: pci_parse_devaddr, pci_read_devaddr with the *)
(* legacy tag and pci_parse_host_devaddr accept exactly the well-formed *)
(* addresses with fields in range (and, for the first, a bus that       *)
(* exists) and return their fields; pci_get_bus_devfn returns that bus  *)
(* and slot << 3, and bus 0 with devfn -1 when no address is given. A   *)
(* strtoul quirk, a missing terminator check or a bus search that       *)
(* misses part of the tree shows as an address accepted or refused      *)
(* against the grammar. The parsers read nothing of the vector state,   *)
(* so the statement is checked in the state QEMU starts in, before any  *)
(* vector exists; AddrParsersAgree is its body.                         *)
AddrParsersMatchGrammar == qv = NoVec => AddrParsersAgree

================================================================================
