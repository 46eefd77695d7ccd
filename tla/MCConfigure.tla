------------------------------ MODULE MCConfigure ------------------------------
(***************************************************************************)
(* A configuration with a field of every kind, values of it, and files that *)
(* exercise every line of the tokenizer and of the readers.                 *)
(***************************************************************************)
EXTENDS Persisted, TLC

\* The codes of the characters of a string.
Printable == " !\"#$%&'()*+,-./0123456789:;<=>?@ABCDEFGHIJKLMNOPQRSTUVWXYZ[\\]^_ abcdefghijklmnopqrstuvwxyz{|}~"
Code(ch) ==
    CASE ch = "\t" -> TAB
      [] ch = "\n" -> LF
      [] ch = "\r" -> CR
      [] OTHER     -> 31 + CHOOSE i \in 1 .. Len(Printable) : SubSeq(Printable, i, i) = ch
Text(s) == [i \in 1 .. Len(s) |-> Code(SubSeq(s, i, i))]

Field(name, type) == [name |-> Text(name), type |-> type]

\* struct { int a; string s; vector<struct { int x; }> v;
\*          struct { unsigned u; bool b; } n; map<string, int> m; }
MCConf == Struct(<<Field("a", INT), Field("s", STR),
                   Field("v", Vec(Struct(<<Field("x", INT)>>))),
                   Field("n", Struct(<<Field("u", UINT), Field("b", BOOL)>>)),
                   Field("m", Map(INT))>>)

ConfValue(a, s, v, u, b, m) == <<a, s, [i \in DOMAIN v |-> <<v[i]>>], <<u, b>>, m>>

\* The first and the second are read back; a backslash, control characters without
\* a letter of their own, and a name that begins with a brace are not.
MCValues == {
    ConfValue(-12, Text("q\"\n"), <<5, -6>>, 200, TRUE, Text("k") :> 31),
    ConfValue(105, <<>>, <<>>, 0, FALSE, <<>>),
    ConfValue(1, <<1, 97, BACKSLASH, 2>>, <<>>, 7, FALSE, <<>>),
    ConfValue(-7, <<>>, <<>>, 0, FALSE, Text("}k") :> 5)}

MCMoved == ConfValue(3, Text("x\ty"), <<8>>, 9, TRUE, Text("k") :> -1)

MCReordered ==
    LET v == MCMoved
        InOrder(order) ==
            Object([i \in DOMAIN order |-> FieldNames(Conf)[order[i]]],
                   [i \in DOMAIN order |-> ToJson(Conf.fields[order[i]].type, v[order[i]])])
    IN  {<<InOrder(order), v>> : order \in {<<5, 4, 3, 2, 1>>, <<2, 4, 1, 5, 3>>}}

MCItemType == Struct(<<Field("p", INT), Field("q", Struct(<<Field("x", BOOL)>>))>>)
MCItemLists == {<<>>, <<<<4, <<TRUE>>>>, <<-1, <<FALSE>>>>>>}

\* A value and all its parts.
RECURSIVE Parts(_, _)
Parts(t, v) ==
    {<<t, v>>} \union
        (CASE t.kind = "struct"         -> UNION {Parts(t.fields[i].type, v[i]) : i \in DOMAIN v}
           [] t.kind \in {"vec", "map"} -> UNION {Parts(t.of, v[i]) : i \in DOMAIN v}
           [] OTHER                     -> {})

MCTyped == UNION {Parts(MCConf, v) : v \in MCValues \union {MCMoved}}
           \union UNION {Parts(Vec(MCItemType), list) : list \in MCItemLists}

MCGarbage == {0, 99}
MCBehind == {0, 99}
MCUninitialized == {NoToken} \union {[NoToken EXCEPT !.type = "t_string", !.len = n] : n \in {1, 3}}

MCEdited == {Text(s) : s \in {
    "",                                           \* an empty file
    " {\t\"a\":\"12\",\r\n//x\n\"s\":\"k\"} ",    \* blanks, a comment, a number in quotes
    "{/x\",\"a\":1}",                             \* no comment
    "{/*x**/\"a\":1}",                            \* a block comment
    "/*x",                                        \* one that is not closed, before any token
    "{\"a\":7/*x",                                \* a block comment that is not closed
    "{\"a\":7//x",                                \* a line comment at the end
    "{s:x\\n\\u0041zz,a:-1.5,}",                  \* strings without quotes, escapes in them, a decimal number
    "{s:x\\q ,a:1}",                              \* an unknown escape without quotes
    "\"\n\"s",                                    \* strings that fail, before any has a length
    "{\"s\"\"kkk\"\"x",                            \* one with the length of the string before it
    "{\"s\":x",                                   \* a string without quotes at the end
    "{\"s\":x\\u004",                             \* an escape that is cut off, without quotes
    "{\"s\":\"\\u20AC\\/\\\"\\u00e9\\t\"}",       \* every kind of escape
    "{\"s\":\"\\u00fg\"}",                        \* bad digits
    "{\"s\":\"\\u00",                             \* an escape that is cut off
    "{\"s\":\"x\\q\"}",                           \* an unknown escape
    "{\"s\":\"x\ny\"}",                           \* a line break in quotes
    "{\"a\":1.2.3}",                              \* two decimal points
    "{\"a\":xy}",                                 \* no number
    "{\"a\":300,\"n\":{\"b\":1,\"u\":-5}}",       \* numbers that do not fit
    "{\"n\":{\"b\":TRUE,\"u\":\"7\"},\"a\":{}}",  \* an object for a number
    "{\"z\":1,\"a\":2,\"a\":3}",                  \* an unknown field, and one twice
    "{\"z\":{\"a\":1},\"a\":2}",                  \* an unknown object
    "{\"n\":{\"u\":1},\"a\":2}",                  \* a nested field is missing
    "{\"v\":5,\"a\":2}",                          \* no vector
    "{\"v\":[{\"x\":1} 2],\"a\":2}",              \* no comma
    "{\"v\":[{\"y\":1},{\"x\":2",                 \* a wrong name, and the end
    "{\"m\":{\"k\" 1}}",                          \* no colon
    "{\"m\":{\"k\":1 \"j\"}}",                    \* no comma
    "{\"m\":{5:{}},\"a\":2}",                     \* a key that is no string, a value that is no number
    "{\"m\":[],\"v\":[],\"s\":5}"                 \* no map, no elements, no string
    }}
=============================================================================
