------------------------------- MODULE Persisted -------------------------------
(***************************************************************************)
(* What parse_conf makes of a file that persist_conf has written, or has    *)
(* begun to write.                                                          *)
(***************************************************************************)
EXTENDS Configure

\* A value read over an old one: fields are replaced, vectors are appended to,
\* entries of maps are added or replaced.
RECURSIVE Merged(_, _, _)
Merged(t, old, v) ==
    CASE t.kind = "struct" -> [i \in DOMAIN v |-> Merged(t.fields[i].type, old[i], v[i])]
      [] t.kind = "vec"    -> old \o v
      [] t.kind = "map"    -> [k \in DOMAIN old \union DOMAIN v |->
                                  IF k \in DOMAIN v THEN v[k] ELSE old[k]]
      [] OTHER             -> v

\* Strings as write_str and the reader agree on them: no backslash, and no
\* control characters but those with a letter of their own.
PlainString(s) == \A i \in DOMAIN s : EscapeLetter(s[i]) \notin {BACKSLASH, Letter_u}

\* The readers of vectors and maps look at the first character of a token only: a
\* string that begins with the bracket they wait for is taken for it.
Begins(s, bracket) == s # <<>> /\ s[1] = bracket

RECURSIVE Plain(_, _)
Plain(t, v) ==
    CASE t.kind = "str"    -> PlainString(v)
      [] t.kind = "struct" -> \A i \in DOMAIN v : Plain(t.fields[i].type, v[i])
      [] t.kind = "vec"    -> \A i \in DOMAIN v : /\ Plain(t.of, v[i])
                                                 /\ t.of.kind = "str" => ~ Begins(v[i], RBRACKET)
      [] t.kind = "map"    -> \A k \in DOMAIN v : /\ PlainString(k) /\ Plain(t.of, v[k])
                                                 /\ ~ Begins(k, RBRACE)
      [] OTHER             -> TRUE

ReadsBack(v) == ret' = TRUE /\ result_' = Merged(Conf, before, v)

\* A value that was persisted, or rendered with its fields in another order, is
\* read back as it was, over whatever result_ held: parse_conf and persist_conf
\* on top of string_stream, write_str and reader_t.
RoundTrip ==
    [][ParseReturns /\ source.how = "whole" /\ Plain(Conf, source.value)
          => ReadsBack(source.value)]_vars

\* The same of every value, as the example in s.cpp has it.  (A run shows that
\* it does not hold.)
PersistedIsReadBack ==
    [][ParseReturns /\ source.how = "whole" => ReadsBack(source.value)]_vars

\* What a number can become when its last digits are cut off.
CutNumbers(v) == {v} \union {IF v < 0 THEN -((-v) \div 10^k) ELSE v \div 10^k : k \in 1 .. IntBits}

\* The values a field of type t can have after a cut file was read over old.
RECURSIVE PartlyRead(_, _, _, _)
PartlyRead(t, old, v, new) ==
    CASE t.kind \in {"int", "uint"} -> new \in {old} \union CutNumbers(v)
      [] t.kind = "struct" -> \A i \in DOMAIN v : PartlyRead(t.fields[i].type, old[i], v[i], new[i])
      [] OTHER -> new \in {old, Merged(t, old, v)}

\* A file that a crash or a full disk cut short is often read without an error;
\* then every field has its old value or the persisted one, except that a
\* number may have lost digits: parse_conf makes nothing else up.
CutFileInventsNothing ==
    [][ParseReturns /\ source.how = "cut" /\ ret' = TRUE /\ Plain(Conf, source.value)
          => PartlyRead(Conf, before, source.value, result_')]_vars
=============================================================================
