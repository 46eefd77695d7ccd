------------------------------ MODULE IpdbFormat ------------------------------
(***************************************************************************)
(* What a database file is: the tree and the records its packer put into it,*)
(* as Ipdb reads them.  A file says under number which number its packer    *)
(* gave to every prefix of an address, of a node or of a record.            *)
(***************************************************************************)
EXTENDS Ipdb

Bit == {0, 1}
FullAddresses == [1 .. g_ipv6_bit -> Bit]
Prefix(bits, i) == [j \in 1 .. i |-> bits[j]]

\* The number in the four bytes behind an offset.
IsNumber(n, data, o) ==
    /\ o \in Nat /\ o + 4 <= Len(data)
    /\ data[o + 1] < 128
    /\ n = ((data[o + 1] * 256 + data[o + 2]) * 256 + data[o + 3]) * 256 + data[o + 4]

\* A bit leads from a number to the next: to the one that stands in the node, and
\* no further from that of a record.
Leads(f, n, bit, m) ==
    \/ n \in 0 .. (f.node_count - 1) /\ IsNumber(m, f.data, n * 8 + bit * 4)
    \/ n \in Nat /\ n > f.node_count /\ m = n

\* The bits of an address lead from the root to a record.
TreeIsPacked(f) ==
    \A bits \in FullAddresses :
        /\ f.number[Prefix(bits, 0)] = 0
        /\ \A i \in 0 .. (g_ipv6_bit - 1) :
              Leads(f, f.number[Prefix(bits, i)], bits[i + 1], f.number[Prefix(bits, i + 1)])
        /\ f.number[Prefix(bits, g_ipv6_bit)] \in Nat
        /\ f.number[Prefix(bits, g_ipv6_bit)] > f.node_count

\* Where the fields of a record end, each before a tab, the last before the end.
Ends(fields) ==
    LET e[k \in 0 .. Len(fields)] == IF k = 0 THEN 0 ELSE e[k - 1] + Len(fields[k]) + 1 IN e

\* A text is the fields with tabs between them.
IsTabbed(text, fields) ==
    LET e == Ends(fields) IN
    /\ Len(text) = e[Len(fields)] - 1
    /\ \A k \in DOMAIN fields :
          /\ SubSeq(text, e[k - 1] + 1, e[k] - 1) = fields[k]
          /\ k < Len(fields) => text[e[k]] = TAB

\* A record lies behind the tree at what its number is more than the nodes: its
\* length, shorter than 256, and its text, before a NUL or the end of the data.
RecordIsPacked(f, bits) ==
    LET o      == f.number[Prefix(bits, g_ipv6_bit)] - f.node_count + f.node_count * 8
        fields == f.records[bits]
        length == Ends(fields)[Len(fields)] - 1 IN
    /\ o \in Nat /\ length \in Nat /\ o + 2 + length + f.slack <= Len(f.data)
    /\ f.data[o + 1] = 0
    /\ IsTabbed(SubSeq(f.data, o + 3, o + 2 + length), fields)
    /\ o + 2 + length = Len(f.data) \/ f.data[o + 2 + length + 1] = NUL
    /\ Len(f.fields) \in 1 .. Len(fields)
    /\ \A k \in DOMAIN fields : \A i \in DOMAIN fields[k] : fields[k][i] \notin {NUL, TAB}

Byte == 0 .. 255

ASSUME FilesAssumption ==
    /\ None \notin Files
    /\ \A f \in Files :
          /\ f.data \in Seq(Byte) /\ f.fields \in Seq(STRING)
          /\ {f.node_count, f.meta_length, f.slack} \subseteq Nat
          /\ f.kind \in {"city", "base_station", "district", "idc"}
          /\ \A r \in Readers(f) : r.db # None

ASSUME PackedAssumption ==
    \A f \in Files : Intact(f) =>
        /\ TreeIsPacked(f)
        /\ \A bits \in FullAddresses :
              f.records[bits] \in Seq(Seq(Byte)) \ {<<>>} /\ RecordIsPacked(f, bits)

ASSUME AddressesAssumption ==
    \A a \in Addresses : \/ a.kind = "v4" /\ a.bits \in [1 .. g_ipv4_bit -> Bit]
                         \/ a.kind = "v6" /\ a.bits \in FullAddresses
                         \/ a.kind = "bad"
=============================================================================
