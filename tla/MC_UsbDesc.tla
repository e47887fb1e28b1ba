----------------------------- MODULE MC_UsbDesc -----------------------------
(* A composite device in the shape of the hw/usb-*.c tables: a full-speed *)
(* table with two configurations, one of them an interface association    *)
(* group with class descriptors, and a high-speed table whose             *)
(* configuration is bus-powered where the full-speed one is self-powered. *)
EXTENDS UsbDesc

Ep(a, mps) == [addr |-> a, attrs |-> 3, mps |-> mps, interval |-> 10]
Iface(n, descs, eps) == [num |-> n, alt |-> 0, cls |-> 2, descs |-> descs, eps |-> eps]

\* a class descriptor sized by its own first byte, and one by its length field
CsHeader == [length |-> 0, data |-> <<5, 36, 0, 16, 1>>]
CsUnion == [length |-> 3, data |-> <<3, 36, 6>>]

Group(mps) == [first |-> 0, cls |-> 2,
               ifs |-> <<Iface(0, <<CsHeader, CsUnion>>, <<Ep(129, mps)>>), Iface(1, <<>>, <<Ep(130, mps), Ep(2, mps)>>)>>]

FullDev == [bcdUSB |-> 272, cls |-> 239, maxpkt0 |-> 8,
            confs |-> <<[nif |-> 3, value |-> 1, attrs |-> 224, groups |-> <<Group(64)>>,
                         ifs |-> <<Iface(2, <<>>, <<Ep(131, 8)>>)>>],
                        [nif |-> 1, value |-> 2, attrs |-> 128, groups |-> <<>>,
                         ifs |-> <<Iface(0, <<>>, <<>>)>>]>>]
HighDev == [bcdUSB |-> 512, cls |-> 239, maxpkt0 |-> 64,
            confs |-> <<[nif |-> 3, value |-> 1, attrs |-> 128, groups |-> <<Group(512)>>,
                         ifs |-> <<Iface(2, <<>>, <<Ep(131, 8)>>)>>]>>]

MC_Indices == {0, 1, 2, 3, 238}

MC_Desc == [id |-> [vendor |-> 1575, product |-> 1, bcdDevice |-> 0,
                    iManufacturer |-> 1, iProduct |-> 2, iSerialNumber |-> 3],
            full |-> FullDev, high |-> HighDev,
            str |-> (0 :> NoStr @@ 1 :> <<81, 69>> @@ 2 :> <<85>> @@ 3 :> <<49>> @@ 238 :> NoStr),
            msos |-> TRUE]

MC_SerialStr == <<49, 45, 49>>
MC_PortMasks == {{}, {"full"}, {"full", "high"}}
====
