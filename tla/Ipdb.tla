--------------------------------- MODULE Ipdb ---------------------------------
(***************************************************************************)
(* ipdb.hpp and manage_ipdb.hpp: a database file, opened once, in which the *)
(* bits of an address lead through a binary tree to a record of fields.     *)
(*                                                                         *)
(* A file is its parsed description and its data, byte by byte: two numbers *)
(* of four bytes per node of the tree, then the records, each behind two    *)
(* bytes of length.  The widths of addresses are parameters; the source has *)
(* 32 and 128 bits, the first 80 and 96 of which lead to the IPv4 addresses.*)
(***************************************************************************)
EXTENDS Integers, Sequences

CONSTANTS
    g_ipv4_bit, g_ipv6_bit,
    ZeroBits, MappedBits,   \* 80 and 96
    Files,                  \* what the program finds under the path it opens
    Addresses,              \* what it looks up: [kind : {"v4", "v6", "bad"}, bits]
    Languages,
    Garbage,                \* what a read outside of data_ may yield
    None,
    MaxCalls                \* bound: calls the program makes

ASSUME WidthAssumption ==
    /\ {g_ipv4_bit, g_ipv6_bit, ZeroBits, MappedBits} \subseteq Nat
    /\ ZeroBits < MappedBits
    /\ MappedBits + g_ipv4_bit = g_ipv6_bit

VARIABLES
    ipdb_,      \* the reader, None before init_ipdb
    file,       \* history: the file it was made from
    out,        \* the four strings get_ipdb_info fills
    shown,      \* the labels and values of the last find_info
    ret,        \* what the last call returned
    outside,    \* history: the last call read outside of data_
    asked,      \* history: the last lookup, None after init_ipdb
    calls       \* history: calls made

vars == <<ipdb_, file, out, shown, ret, outside, asked, calls>>

NUL == 0
TAB == 9
Signed(b) == IF b < 128 THEN b ELSE b - 256

-----------------------------------------------------------------------------
(* The tree *)

\* The byte at an offset: data_ ends with a NUL of its own.
At(db, o) == IF o < Len(db.data_) THEN db.data_[o + 1] ELSE NUL

Inside(db, o, n) == o >= 0 /\ o + n <= Len(db.data_)

\* read_node: four bytes, the most significant and signed one first.  The set of
\* what it can return: a number, and whether it was read outside of data_.
read_node(db, node, index) ==
    IF node \in 0 .. Len(db.data_) /\ Inside(db, node * 8 + index * 4, 4)
    THEN LET off == node * 8 + index * 4
         IN  {[node |-> ((Signed(At(db, off)) * 256 + At(db, off + 1)) * 256 + At(db, off + 2)) * 256
                            + At(db, off + 3),
               out  |-> FALSE]}
    ELSE {[node |-> g, out |-> TRUE] : g \in Garbage}

\* One pass of a loop that follows a bit from each of the nodes reached, up to
\* the node last.
Follow(db, reached, bit, last) ==
    UNION {IF r.node <= last
           THEN {[node |-> s.node, out |-> s.out \/ r.out] : s \in read_node(db, r.node, bit)}
           ELSE {r} : r \in reached}

\* The nodes reached from one by following bits.
Reached(db, start, bits, last) ==
    LET reached[i \in 0 .. Len(bits)] ==
            IF i = 0 THEN {[node |-> start, out |-> FALSE]}
            ELSE Follow(db, reached[i - 1], bits[i], last)
    IN  reached

Walk(db, start, bits, last) == Reached(db, start, bits, last)[Len(bits)]

V4Bits == [i \in 1 .. MappedBits |-> IF i > ZeroBits THEN 1 ELSE 0]

\* Faulty: the ones begin one bit late.
v4_offset_late(db) ==
    Walk(db, 0, [i \in 1 .. MappedBits |-> IF i > ZeroBits + 1 THEN 1 ELSE 0], db.node_count_ - 1)

\* The loop of the constructor: ZeroBits zeros, then ones up to MappedBits.
v4_offset(db) == Walk(db, 0, V4Bits, db.node_count_ - 1)

Root(db, addr) == IF addr.kind = "v4" THEN db.v4_offset_ ELSE 0

\* Faulty: all bits are followed.
search_on(db, addr) == Walk(db, Root(db, addr), addr.bits, 2147483647)

\* search: a node behind the tree ends it; the node just behind does not.
search(db, addr) == Walk(db, Root(db, addr), addr.bits, db.node_count_)

-----------------------------------------------------------------------------
(* The records *)

\* The bytes from an offset to the next NUL.
CString(db, o) ==
    LET end == CHOOSE e \in o .. Len(db.data_) :
                   At(db, e) = NUL /\ \A i \in o .. (e - 1) : At(db, i) # NUL
    IN  [i \in 1 .. (end - o) |-> At(db, o + i - 1)]

\* resolve.  The size is made of the first byte of the length and the first of
\* the text behind it, both signed, and is only compared with the end of the
\* data; a negative sum is a large number there.  The text itself goes on to the
\* next NUL, which is in the length of the next record or behind the data.
resolve(db, node) ==
    LET resolved == node - db.node_count_ + db.node_count_ * 8
        hi       == Signed(At(db, resolved))
        lo       == Signed(At(db, resolved + 2))
        end      == resolved + 2 + (IF lo < 0 THEN lo ELSE hi * 256 + lo)
    IN  IF node <= 0 \/ db.data_ = <<>> \/ resolved < 0 \/ resolved >= db.file_size_
        THEN [text |-> <<>>, out |-> FALSE]
        ELSE [text |-> IF end < 0 \/ end > db.data_size_ THEN <<>> ELSE CString(db, resolved + 2),
              out  |-> ~Inside(db, resolved, 2)]

\* split at every tab.
FirstTab(s, i) == CHOOSE j \in i .. Len(s) : s[j] = TAB /\ \A k \in i .. (j - 1) : s[k] # TAB

SplitFrom(s) ==
    LET from[i \in 1 .. (Len(s) + 1)] ==
            IF \E j \in i .. Len(s) : s[j] = TAB
            THEN <<SubSeq(s, i, FirstTab(s, i) - 1)>> \o from[FirstTab(s, i) + 1]
            ELSE <<SubSeq(s, i, Len(s))>>
    IN  from

split(s) == SplitFrom(s)[1]

Supported(db, addr) ==
    \/ addr.kind = "v4" /\ db.ip_version_ \in {1, 3}
    \/ addr.kind = "v6" /\ db.ip_version_ \in {2, 3}

\* find_str
find_str(db, addr) ==
    IF Supported(db, addr)
    THEN {LET t == resolve(db, r.node) IN [text |-> t.text, out |-> t.out \/ r.out] :
              r \in search(db, addr)}
    ELSE {[text |-> <<>>, out |-> FALSE]}

\* Faulty: a record must have one field more.
finds_more(db, addr, language) ==
    IF language \notin db.languages_
    THEN {[fields |-> <<>>, out |-> FALSE]}
    ELSE {LET tmp == split(body.text)
          IN  [fields |-> IF body.text = <<>> \/ Len(db.fields_) >= Len(tmp)
                          THEN <<>> ELSE SubSeq(tmp, 1, Len(db.fields_)),
               out    |-> body.out] : body \in find_str(db, addr)}

\* finds: the fields of an address, none if there is anything wrong.
finds(db, addr, language) ==
    IF language \notin db.languages_
    THEN {[fields |-> <<>>, out |-> FALSE]}
    ELSE {LET tmp == split(body.text)
          IN  [fields |-> IF body.text = <<>> \/ Len(db.fields_) > Len(tmp)
                          THEN <<>> ELSE SubSeq(tmp, 1, Len(db.fields_)),
               out    |-> body.out] : body \in find_str(db, addr)}

\* find_map: the first of two fields of the same name is kept.
find_map(db, data) ==
    [name \in {db.fields_[k] : k \in DOMAIN data} |->
        data[CHOOSE k \in DOMAIN data :
                 db.fields_[k] = name /\ \A j \in 1 .. (k - 1) : db.fields_[j] # name]]

-----------------------------------------------------------------------------
(* is_valid_utf8: the code points one after another, each decoded and then   *)
(* compared with the range its number of bytes is for.                      *)
Bytes(b) ==
    IF b < 128 THEN 1 ELSE
    IF b \in 192 .. 223 THEN 2 ELSE
    IF b \in 224 .. 239 THEN 3 ELSE
    IF b \in 240 .. 247 THEN 4 ELSE 0

\* The code point of n bytes from i on.
CodePoint(s, i, n) ==
    LET low(k) == s[i + k] - 128 IN
    IF n = 1 THEN s[i] ELSE
    IF n = 2 THEN (s[i] - 192) * 64 + low(1) ELSE
    IF n = 3 THEN ((s[i] - 224) * 64 + low(1)) * 64 + low(2)
    ELSE (((s[i] - 240) * 64 + low(1)) * 64 + low(2)) * 64 + low(3)

FitsRange(cp, n) ==
    /\ cp <= 1114111
    /\ ~ (cp >= 55296 /\ cp <= 57343)
    /\ cp <= 127 => n = 1
    /\ cp >= 128 /\ cp <= 2047 => n = 2
    /\ cp >= 2048 /\ cp <= 65535 => n = 3
    /\ cp >= 65536 /\ cp <= 2097151 => n = 4

\* One character, from i on.
ValidAt(s, i) ==
    LET n == Bytes(s[i]) IN
    /\ n > 0 /\ i + n <= Len(s) + 1
    /\ \A k \in 1 .. (n - 1) : s[i + k] \in 128 .. 191
    /\ FitsRange(CodePoint(s, i, n), n)

ValidFrom(s) ==
    LET valid[i \in 1 .. (Len(s) + 1)] ==
            IF i = Len(s) + 1 THEN TRUE ELSE ValidAt(s, i) /\ valid[i + Bytes(s[i])]
    IN  valid

is_valid_utf8(s) == s # <<>> /\ ValidFrom(s)[1]

\* What get_ipdb_info makes of a field: it is converted to GBK if it is UTF-8.
Converted(s) == [gbk |-> is_valid_utf8(s), str |-> s]

-----------------------------------------------------------------------------
(* The constructor of reader.  An object is left behind by every early       *)
(* return: without a description it knows no language, with a wrong size it  *)
(* knows languages, fields and the number of nodes, and has no data.        *)
NoReader == [ip_version_ |-> 0, v4_offset_ |-> 0, file_size_ |-> 0, data_size_ |-> 0,
             node_count_ |-> 0, data_ |-> <<>>, languages_ |-> {}, fields_ |-> <<>>]

\* parse_json: CN if its offset is 0, otherwise EN if its offset is.
ParsedLanguages(f) ==
    IF f.cn = 0 THEN {"CN"} ELSE IF f.en = 0 THEN {"EN"} ELSE {}

Described(f) ==
    [NoReader EXCEPT !.ip_version_ = f.ip_version, !.node_count_ = f.node_count,
         !.file_size_ = 4 + f.meta_length + Len(f.data), !.fields_ = f.fields,
         !.languages_ = ParsedLanguages(f)]

SizeIsRight(f) == Len(f.data) = f.total_size

\* The readers the constructor can leave.
Readers(f) ==
    IF ~f.json THEN {[db |-> NoReader, out |-> FALSE]}
    ELSE IF ParsedLanguages(f) = {} \/ ~SizeIsRight(f)
    THEN {[db |-> Described(f), out |-> FALSE]}
    ELSE LET db == [Described(f) EXCEPT !.data_ = f.data, !.data_size_ = Len(f.data)]
         IN  {[db |-> [db EXCEPT !.v4_offset_ = r.node], out |-> r.out] : r \in v4_offset(db)}

-----------------------------------------------------------------------------
(* city_info, base_station_info, district_Info and idc_info: str() of each   *)
(* prints labels and, behind every label, the field of an accessor, which is *)
(* empty where data_ is too short.                                          *)
city_info ==
    [country_name |-> 1, region_name |-> 2, city_name |-> 3, owner_domain |-> 4, isp_domain |-> 5,
     latitude |-> 6, longitude |-> 7, timezone |-> 8, utc_offset |-> 9, china_admin_code |-> 10,
     idd_code |-> 11, country_code |-> 12, continent_code |-> 13, idc |-> 14, base_station |-> 15,
     country_code3 |-> 16, european_union |-> 17, currency_code |-> 18, currency_name |-> 19,
     anycast |-> 20]

base_station_info ==
    [country_name |-> 1, region_name |-> 2, city_name |-> 3, owner_domain |-> 4, isp_domain |-> 5,
     base_station |-> 6]

district_Info ==
    [country_name |-> 1, region_name |-> 2, city_name |-> 3, district_name |-> 4,
     china_admin_code |-> 5, covering_radius |-> 6, latitude |-> 7, longitude |-> 8]

\* idc() returns the field of isp_domain().
idc_info ==
    [country_name |-> 1, region_name |-> 2, city_name |-> 3, owner_domain |-> 4, isp_domain |-> 5,
     idc |-> 5]

Info(kind) == IF kind = "city" THEN city_info ELSE
              IF kind = "base_station" THEN base_station_info ELSE
              IF kind = "district" THEN district_Info ELSE idc_info

Shown(kind, data) ==
    [l \in DOMAIN Info(kind) |-> IF Info(kind)[l] <= Len(data) THEN data[Info(kind)[l]] ELSE <<>>]

-----------------------------------------------------------------------------
OutFields == {"country_name", "region_name", "city_name", "isp_domain"}

Init ==
    /\ ipdb_ = None /\ file = None
    /\ out = [f \in OutFields |-> None]
    /\ shown = None
    /\ ret = None
    /\ outside = FALSE
    /\ asked = None
    /\ calls = 0

Called == calls < MaxCalls /\ calls' = calls + 1

\* init_ipdb, and the constructors of the other classes: whatever is wrong with
\* the file, there is a reader, and it replaces the one before.
init_ipdb(f) ==
    /\ Called
    /\ \E r \in Readers(f) : ipdb_' = r.db /\ outside' = r.out
    /\ file' = f
    /\ ret' = TRUE
    /\ asked' = None
    /\ UNCHANGED <<out, shown>>

\* There is no file, or there is no memory for what it claims to hold.
init_fails ==
    /\ Called
    /\ ret' = FALSE
    /\ outside' = FALSE
    /\ asked' = None
    /\ UNCHANGED <<ipdb_, file, out, shown>>

\* A field the database does not have leaves its string as it was.
get_ipdb_info(addr, language) ==
    /\ Called
    /\ asked' = [call |-> "get_ipdb_info", addr |-> addr, language |-> language]
    /\ IF ipdb_ = None
       THEN ret' = FALSE /\ outside' = FALSE /\ UNCHANGED out
       ELSE \E found \in finds(ipdb_, addr, language) :
               LET maps == find_map(ipdb_, found.fields) IN
               /\ ret' = (found.fields # <<>>)
               /\ out' = [f \in OutFields |-> IF f \in DOMAIN maps THEN Converted(maps[f]) ELSE out[f]]
               /\ outside' = found.out
    /\ UNCHANGED <<ipdb_, file, shown>>

find_info(addr, language) ==
    /\ ipdb_ # None
    /\ Called
    /\ asked' = [call |-> "find_info", addr |-> addr, language |-> language]
    /\ \E found \in finds(ipdb_, addr, language) :
          shown' = Shown(file.kind, found.fields) /\ outside' = found.out
    /\ UNCHANGED <<ipdb_, file, out, ret>>

Next ==
    \/ \E f \in Files : init_ipdb(f)
    \/ init_fails
    \/ \E addr \in Addresses, language \in Languages :
          get_ipdb_info(addr, language) \/ find_info(addr, language)

Spec == Init /\ [][Next]_vars

-----------------------------------------------------------------------------
(* Correctness.  A file has the table it was packed from: file.records is    *)
(* the fields of every address there is, none where the table has a gap, and *)
(* file.slack the number of bytes behind the last record.                   *)

FullBits(addr) == IF addr.kind = "v4" THEN V4Bits \o addr.bits ELSE addr.bits

Intact(f) ==
    f.json /\ SizeIsRight(f) /\ \A bits \in DOMAIN f.records : f.records[bits] # <<>>

Sound == file # None /\ Intact(file)

Names(f) == {f.fields[k] : k \in DOMAIN f.fields}

Looked(call) == asked # None /\ asked.call = call /\ asked.addr.kind # "bad"
Wanted == file.records[FullBits(asked.addr)]
WantedField(name) ==
    Wanted[CHOOSE k \in DOMAIN file.fields :
               file.fields[k] = name /\ \A j \in 1 .. (k - 1) : file.fields[j] # name]

\* The order of the fields in the databases of each kind.
OfficialFields(kind) ==
    IF kind = "city" THEN
        <<"country_name", "region_name", "city_name", "owner_domain", "isp_domain", "latitude",
          "longitude", "timezone", "utc_offset", "china_admin_code", "idd_code", "country_code",
          "continent_code", "idc", "base_station", "country_code3", "european_union",
          "currency_code", "currency_name", "anycast">> ELSE
    IF kind = "base_station" THEN
        <<"country_name", "region_name", "city_name", "owner_domain", "isp_domain",
          "base_station">> ELSE
    IF kind = "district" THEN
        <<"country_name", "region_name", "city_name", "district_name", "china_admin_code",
          "covering_radius", "latitude", "longitude">>
    ELSE
        <<"country_name", "region_name", "city_name", "owner_domain", "isp_domain", "idc">>

Official(f) ==
    \A k \in DOMAIN f.fields :
        k <= Len(OfficialFields(f.kind)) /\ f.fields[k] = OfficialFields(f.kind)[k]

\* Well-formed UTF-8, by the first and second bytes the standard allows.
SequenceLength(b) ==
    IF b \in 0 .. 127 THEN 1 ELSE
    IF b \in 194 .. 223 THEN 2 ELSE
    IF b \in 224 .. 239 THEN 3 ELSE
    IF b \in 240 .. 244 THEN 4 ELSE 0

SecondBytes(b) ==
    IF b = 224 THEN 160 .. 191 ELSE
    IF b = 237 THEN 128 .. 159 ELSE
    IF b = 240 THEN 144 .. 191 ELSE
    IF b = 244 THEN 128 .. 143 ELSE 128 .. 191

WellFormedUtf8(s) ==
    LET starts == {i \in DOMAIN s : s[i] \notin 128 .. 191} IN
    /\ 1 \in starts
    /\ \A i \in starts :
          LET n == SequenceLength(s[i]) IN
          /\ n > 0
          /\ i + n \in starts \union {Len(s) + 1}
          /\ \A k \in 1 .. (n - 1) : s[i + k] \in 128 .. 191
          /\ n > 1 => s[i + 1] \in SecondBytes(s[i])

\* Whatever a lookup shows is the record of the address that was asked for,
\* field by field, and told UTF-8 from other text: search, resolve, finds and
\* find_map together, over a database without gaps whose records are shorter
\* than 256 bytes; the accessors of all classes but idc() return the field their
\* label names.
AnswerIsOfTheAddress ==
    Sound =>
        /\ Looked("get_ipdb_info") /\ ret =>
              \A f \in OutFields \intersect Names(file) :
                  out[f] = [gbk |-> WellFormedUtf8(WantedField(f)), str |-> WantedField(f)]
        /\ Looked("find_info") /\ Official(file) =>
              \A l \in DOMAIN shown \intersect Names(file) :
                  shown[l] \in {<<>>, WantedField(IF file.kind = "idc" /\ l = "idc"
                                                   THEN "isp_domain" ELSE l)}

\* A record is found if its text begins with an ASCII character and at least 127
\* bytes lie behind it: the comparison in resolve, whose size is not the
\* record's, refuses records near the end of the data only.
FoundFarFromTheEnd ==
    /\ Sound
    /\ file.slack >= 127
    /\ Looked("get_ipdb_info")
    /\ asked.language \in ParsedLanguages(file)
    /\ Supported(ipdb_, asked.addr)
    /\ Wanted[1] # <<>> /\ Wanted[1][1] \in 1 .. 127
    => ret

\* No lookup reads outside of data_, unless the file had the wrong size (then
\* there is no data, init_ipdb has returned true, and lookups go on) or there are
\* addresses it has no record for; and with the wrong size none is answered.
ReadsInside ==
    /\ outside => ~Sound
    /\ file # None /\ ~SizeIsRight(file) /\ Looked("get_ipdb_info") => ~ret
=============================================================================
