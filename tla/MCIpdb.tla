------------------------------- MODULE MCIpdb -------------------------------
(***************************************************************************)
(* Small databases for TLC, packed the way ipdb.hpp reads them, and ones    *)
(* that are damaged.  Addresses have 3 bits, of 5 with those of IPv6.       *)
(***************************************************************************)
EXTENDS IpdbFormat, SequencesExt

Bits(n) == [1 .. n -> Bit]
MCAddresses ==
    {[kind |-> "v4", bits |-> b] : b \in Bits(g_ipv4_bit)}
    \union {[kind |-> "v6", bits |-> b] : b \in {<<0, 0, 0, 0, 0>>, <<0, 1, 1, 0, 1>>, <<1, 0, 1, 1, 1>>}}
    \union {[kind |-> "bad", bits |-> <<>>]}
MCLanguages == {"CN", "EN"}

\* Nodes of the tree: the prefixes under which there is more than one record.
Agree(table, p) == \A a, b \in {c \in DOMAIN table : SubSeq(c, 1, Len(p)) = p} : table[a] = table[b]
Inner(table) == {<<>>} \union {p \in UNION {Bits(n) : n \in 1 .. (g_ipv6_bit - 1)} : ~Agree(table, p)}

Listed(set) == FoldSet(LAMBDA x, s : Append(s, x), <<>>, set)
Index(s, x) == CHOOSE i \in DOMAIN s : s[i] = x

RECURSIVE Tabbed(_)
Tabbed(fields) == IF Len(fields) = 1 THEN fields[1]
                  ELSE fields[1] \o <<TAB>> \o Tabbed(Tail(fields))
WithLength(text) == <<Len(text) \div 256, Len(text) % 256>> \o text
Word(n) == <<0, 0, n \div 256, n % 256>>

\* The records lie one behind another, an empty one first: the number of nodes,
\* as the number of a node, stands for it.
Offset(recs, i) == 2 + Len(FlattenSeq([j \in 1 .. (i - 1) |-> WithLength(Tabbed(recs[j]))]))

Packed(table, slack) ==
    LET nodes == <<<<>>>> \o Listed(Inner(table) \ {<<>>})
        recs  == Listed({table[a] : a \in DOMAIN table} \ {<<>>})
        Number(p) ==
            IF p \in Inner(table) THEN Index(nodes, p) - 1
            ELSE LET r == table[CHOOSE a \in DOMAIN table : SubSeq(a, 1, Len(p)) = p]
                 IN  Len(nodes) + (IF r = <<>> THEN 0 ELSE Offset(recs, Index(recs, r)))
    IN  [count  |-> Len(nodes),
         number |-> [p \in UNION {Bits(n) : n \in 0 .. g_ipv6_bit} |-> Number(p)],
         data   |-> FlattenSeq([i \in DOMAIN nodes |-> Word(Number(Append(nodes[i], 0))) \o
                                                      Word(Number(Append(nodes[i], 1)))])
                   \o <<0, 0>>
                   \o FlattenSeq([i \in DOMAIN recs |-> WithLength(Tabbed(recs[i]))])
                   \o [i \in 1 .. slack |-> 0]]

File(kind, fields, table, slack) ==
    LET p == Packed(table, slack)
    IN  [kind |-> kind, json |-> TRUE, meta_length |-> 40, ip_version |-> 3,
         node_count |-> p.count, number |-> p.number, total_size |-> Len(p.data), fields |-> fields,
         cn |-> 0, en |-> 2, data |-> p.data, records |-> table, slack |-> slack]

IdcFields == <<"country_name", "region_name", "city_name", "owner_domain", "isp_domain", "idc">>
DistrictFields == <<"country_name", "region_name", "city_name", "district_name",
                    "china_admin_code", "covering_radius", "latitude", "longitude">>
StationFields == <<"country_name", "region_name", "city_name", "owner_domain", "isp_domain",
                   "base_station">>

\* The fields of a record: c tells records apart; UTF-8 of two to four bytes, an
\* overlong form, a surrogate and an empty field among them.
Fields(n, c) == [k \in 1 .. n |->
    CASE k = 1 -> IF c % 2 = 0 THEN <<65 + c>> ELSE <<228, 184, 173, 65 + c>>
      [] k = 2 -> IF c = 3 THEN <<228, 184, 65>> ELSE <<195, 160 + c>>
      [] k = 3 -> <<<<193, 65>>, <<240, 144, 128, 128>>, <<237, 160, 128>>, <<>>, <<194, 128>>>>[c + 1]
      [] OTHER -> <<96 + k, 48 + c>>]

Table(n, Region(_)) == [a \in Bits(g_ipv6_bit) |-> Fields(n, Region(a))]

\* One record for everything; one per half and quarter; one address of its own;
\* the IPv4 addresses apart from the others.
Whole(a) == 0
Halves(a) == IF a[1] = 1 THEN 0 ELSE IF a[4] = 0 THEN 1 ELSE 2
OneAlone(a) == IF a = <<0, 1, 1, 0, 1>> THEN 3 ELSE 4
Mapped(a) == IF SubSeq(a, 1, 2) = <<0, 1>> THEN 1 + a[3] * 2 + a[5] ELSE 0

\* No record under a prefix.
Gap(table, p) == [a \in DOMAIN table |-> IF SubSeq(a, 1, Len(p)) = p THEN <<>> ELSE table[a]]

MCFiles == LET idc == File("idc", IdcFields, Table(6, OneAlone), 127) IN {
    File("city", SubSeq(IdcFields, 1, 5), Table(5, Whole), 0),
    File("city", SubSeq(IdcFields, 1, 5), Table(5, Halves), 127),
    File("city", <<"isp_domain", "city_name", "isp_domain">>, Table(3, Mapped), 127),
    File("city", SubSeq(IdcFields, 1, 5), Gap(Table(5, OneAlone), <<0, 1, 0>>), 127),
    File("base_station", StationFields, Table(6, OneAlone), 0),
    File("district", DistrictFields, Table(8, Mapped), 127),
    idc,
    [idc EXCEPT !.total_size = @ + 1],
    [idc EXCEPT !.json = FALSE],
    [idc EXCEPT !.ip_version = 2, !.cn = -1, !.en = 0],
    [idc EXCEPT !.cn = -1, !.en = -1]}

MCGarbage == {0, 1, 40}
=============================================================================
