------------------------------ MODULE JsonWriter ------------------------------
(***************************************************************************)
(* to_json of serialize.hpp, and write_str of string_stream.hpp under it:   *)
(* the bytes a value is written as.                                         *)
(***************************************************************************)
EXTENDS JsonFields

CONSTANT Typed  \* types and values of them, <<t, v>>: what the program writes, and all parts of it

\* xtoa and itoa_fwd, which are not in the repository.
Digits == LET d[n \in Nat] == IF n < 10 THEN <<ZERO + n>> ELSE Append(d[n \div 10], ZERO + (n % 10))
          IN  d

Decimal(n) == IF n < 0 THEN <<MINUS>> \o Digits[-n] ELSE Digits[n]

HexDigit(n) == IF n < 10 THEN ZERO + n ELSE 55 + n
HexByte(b) == <<HexDigit(b \div 16), HexDigit(b % 16)>>

\* escape_: the letter behind the backslash, 0 for a character written as it is.
EscapeLetter(b) ==
    CASE b \in {BS, TAB, LF, FF, CR} -> CHOOSE l \in DOMAIN LetterEscapes : LetterEscapes[l] = b
      [] b \in {QUOTE, BACKSLASH}    -> b
      [] b < 32                      -> Letter_u
      [] OTHER                       -> 0

\* The loop of write_str, from each character on.  A zero byte ends it; a control
\* character without a letter of its own takes the character behind it along into
\* one \u escape.
EscapeFrom(s) ==
    LET from[i \in 1 .. (Len(s) + 1)] ==
            IF i > Len(s) THEN <<>> ELSE
            LET l == EscapeLetter(s[i]) IN
            IF s[i] = 0 THEN <<>> ELSE
            IF l = 0 THEN <<s[i]>> \o from[i + 1] ELSE
            IF l # Letter_u THEN <<BACKSLASH, l>> \o from[i + 1] ELSE
            IF i < Len(s)
            THEN <<BACKSLASH, Letter_u>> \o HexByte(s[i]) \o HexByte(s[i + 1]) \o from[i + 2]
            ELSE <<BACKSLASH, Letter_u, ZERO, ZERO>> \o HexByte(s[i])
    IN  from

Escape(s) == EscapeFrom(s)[1]

WriteStr(s) == <<QUOTE>> \o Escape(s) \o <<QUOTE>>

\* join
Joined(pieces) == FoldLeft(LAMBDA text, p : IF text = <<>> THEN p ELSE text \o <<COMMA>> \o p,
                           <<>>, pieces)

\* An object of names, which are in quotes, and texts.
Object(names, texts) ==
    <<LBRACE>> \o Joined([i \in DOMAIN names |-> names[i] \o <<COLON>> \o texts[i]]) \o <<RBRACE>>

FieldNames(t) == [i \in DOMAIN t.fields |-> <<QUOTE>> \o t.fields[i].name \o <<QUOTE>>]

TrueOrFalse(b) == IF b THEN <<116, 114, 117, 101>> ELSE <<102, 97, 108, 115, 101>>

List(texts) == <<LBRACKET>> \o Joined(texts) \o <<RBRACKET>>

\* to_json, and the overload of render_json_value for each type of a field.
Rendered ==
    LET json[x \in Typed] ==
            LET t == x[1]   v == x[2] IN
            CASE t.kind \in {"int", "uint"} -> Decimal(v)
              [] t.kind = "bool" -> TrueOrFalse(v)
              [] t.kind = "str"  -> WriteStr(v)
              [] t.kind = "vec"  -> List([i \in DOMAIN v |-> json[<<t.of, v[i]>>]])
              [] t.kind = "map"  ->
                    LET keys == SetToSeq(DOMAIN v)
                    IN  Object([i \in DOMAIN keys |-> WriteStr(keys[i])],
                               [i \in DOMAIN keys |-> json[<<t.of, v[keys[i]]>>]])
              [] t.kind = "struct" ->
                    Object(FieldNames(t), [i \in DOMAIN v |-> json[<<t.fields[i].type, v[i]>>]])
    IN  json

ToJson(t, v) == Rendered[<<t, v>>]
=============================================================================
