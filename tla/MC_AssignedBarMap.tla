------------------------- MODULE MC_AssignedBarMap -------------------------
(* Three memory BARs at scale P = 2 (one page = 2 units): BAR 0 two pages *)
(* with no table, BAR 1 one unit (a BAR smaller than a page, mapped       *)
(* slow), BAR 2 four pages with the MSI-X table in its second page, so    *)
(* the direct mapping is cut into a slot before and a slot after it. Each *)
(* BAR has two naturally aligned guest places, disjoint from the others'. *)
EXTENDS AssignedBarMap

(* Two I/O BARs: BAR 3 of four ports reached with in/out (no usable       *)
(* resource file), BAR 4 of two ports reached through its resource file.  *)
MC_RealIo == (3 :> [base |-> 64, size |-> 4]) @@ (4 :> [base |-> 96, size |-> 2])
MC_PAddrs == (3 :> {0, 4}) @@ (4 :> {8, 10})

MC_Real == (0 :> [base |-> 0, size |-> 4]) @@
           (1 :> [base |-> 4, size |-> 1]) @@
           (2 :> [base |-> 8, size |-> 8]) @@ MC_RealIo
MC_GAddrs == (0 :> {0, 4}) @@ (1 :> {8, 9}) @@ (2 :> {16, 24})

(* The table at the first byte of BAR 2, and BAR 0 ending right where    *)
(* BAR 2 begins on the host: base + size = msix_table_addr.              *)
MC_RealAdjacent == (0 :> [base |-> 4, size |-> 4]) @@
                   (1 :> [base |-> 0, size |-> 1]) @@
                   (2 :> [base |-> 8, size |-> 8]) @@ MC_RealIo
====
