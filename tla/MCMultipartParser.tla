------------------------- MODULE MCMultipartParser -------------------------
(***************************************************************************)
(* Messages for MultipartParser, made from what their sender puts in.      *)
(***************************************************************************)
EXTENDS MultipartReading, SequencesExt

CRLF == <<CR, LF>>
Dashes == <<HYPHEN, HYPHEN>>

\* "a" and "b" are letters, "d" is "Content-Disposition", "f" is "form-data; name="
\* and "x" what is no token.
MCChar == {CR, LF, HYPHEN, COLON, BLANK, QUOTE, "a", "b", "d", "f", "x"}
MCNameChars == {HYPHEN, "a", "b", "d", "f"}
MCBoundary == <<HYPHEN, "b">>
MCDisposition == <<"d">>

(* Headers, each with the blanks before its value. *)
Line(name, blanks, value) == [name |-> name, blanks |-> blanks, value |-> value]
Form(value) == Line(MCDisposition, <<BLANK>>, <<"f", QUOTE>> \o value \o <<QUOTE>>)

(* Pieces of a body: what is sent, and what arrives of it. *)
Piece(chars) == [sent |-> chars, arrives |-> chars]
Broken(match) == [sent |-> CRLF \o Dashes \o match, arrives |-> match]

SentHeader(h) == h.name \o <<COLON>> \o h.blanks \o h.value \o CRLF
SentBody(body) == FoldLeft(LAMBDA acc, piece : acc \o piece.sent, <<>>, body)
SentPart(part) ==
    CRLF \o FoldLeft(LAMBDA acc, h : acc \o SentHeader(h), <<>>, part.headers)
         \o CRLF \o SentBody(part.body) \o CRLF \o Dashes \o MCBoundary
SentParts(parts) == FoldLeft(LAMBDA acc, part : acc \o SentPart(part), <<>>, parts)

ArrivingPart(part) ==
    [headers |-> {[name |-> h.name, value |-> h.value] : h \in ToSet(part.headers)},
     body |-> FoldLeft(LAMBDA acc, piece : acc \o piece.arrives, <<>>, part.body)]
Arriving(parts) == [i \in DOMAIN parts |-> ArrivingPart(parts[i])]

(* fields: a function from names to bodies. *)
Good(preamble, parts, epilogue, fields) ==
    LET bytes == preamble \o Dashes \o MCBoundary \o SentParts(parts) \o Dashes \o epilogue
    IN [bytes |-> bytes, parts |-> Arriving(parts), fields |-> fields,
        errorAt |-> Len(bytes), hyphens |-> FALSE, valueless |-> FALSE]

(* The preamble has two hyphens in a row. *)
Hyphened(preamble, parts) ==
    [Good(preamble, parts, <<>>, <<>>) EXCEPT !.hyphens = TRUE]

(* A message cut off after good, and continued with a character that is wrong. *)
Bad(good, char, rest) ==
    [bytes |-> good \o <<char>> \o rest, parts |-> <<>>, fields |-> <<>>,
     errorAt |-> Len(good), hyphens |-> FALSE, valueless |-> FALSE]

Part(headers, body) == [headers |-> headers, body |-> body]
Field(name, body) == Part(<<Form(name)>>, body)

A == <<"a">>
B == <<"b">>

GoodMessages == {
    \* two fields, a preamble and an epilogue, and a carriage return in a body
    Good(<<"x", HYPHEN, CR>>, <<Field(A, <<Piece(<<"x", CR>>)>>), Field(B, <<Piece(CRLF)>>)>>,
         <<HYPHEN, "x">>, (A :> <<"x", CR>>) @@ (B :> CRLF)),
    \* beginnings of a boundary that are none, one behind the other
    Good(<<>>, <<Field(A, <<Piece(<<CR, CR, LF, HYPHEN>> \o CRLF), Piece(CRLF \o <<HYPHEN, "x">>)>>)>>,
         <<>>, A :> <<CR, CR, LF, HYPHEN, CR, LF, CR, LF, HYPHEN, "x">>),
    \* boundaries that break off after none and after one of their characters
    Good(<<>>, <<Field(A, <<Broken(<<>>), Broken(<<HYPHEN>>), Piece(<<HYPHEN, "x">>)>>)>>,
         <<>>, A :> <<HYPHEN, HYPHEN, "x">>),
    \* a second part of the same name, and one without headers
    Good(<<>>, <<Field(A, <<Piece(<<"x">>)>>), Field(A, <<>>), Part(<<>>, <<Piece(B)>>)>>,
         <<>>, (A :> <<"x">>) @@ (<<>> :> B)),
    \* a file: more headers, a second quoted text behind the name
    Good(<<>>, <<Part(<<Form(A \o <<QUOTE, "x", QUOTE>> \o B),
                        Line(<<"a", HYPHEN>>, <<BLANK, BLANK>>, <<"x", BLANK>>),
                        Line(B, <<>>, <<COLON>>)>>, <<>>)>>,
         <<>>, (A \o <<QUOTE, "x", QUOTE>> \o B) :> <<>>)}

(* A header without a value. *)
ValuelessMessage ==
    [Good(<<>>, <<Part(<<Line(A, <<>>, <<>>), Line(B, <<>>, <<"x">>)>>, <<>>)>>, <<>>, <<>> :> <<>>)
        EXCEPT !.valueless = TRUE]

First == Dashes \o MCBoundary
Headers == First \o CRLF \o <<"d", COLON, "x">> \o CRLF

BadMessages == {
    Bad(First, HYPHEN, <<"x">>),                                   \* no CR behind the first boundary
    Bad(First \o <<CR>>, "x", <<>>),
    Bad(First \o CRLF \o A, CR, CRLF),                             \* a name without a colon
    Bad(First \o CRLF, "x", <<>>),                                 \* a name with no token in it
    Bad(First \o CRLF \o <<"d", COLON, "x", CR>>, CR, <<LF>>),
    Bad(Headers \o <<CR>>, "x", <<>>),
    Bad(Headers \o CRLF \o CRLF \o First, "x", <<>>),              \* text behind a boundary
    Bad(Headers \o CRLF \o CRLF \o First \o <<CR>>, HYPHEN, <<"x">>),
    Bad(Headers \o CRLF \o CRLF \o First \o <<HYPHEN>>, CR, <<>>)}

MCMessages ==
    GoodMessages \cup {ValuelessMessage} \cup BadMessages
        \cup {Hyphened(<<"x", HYPHEN, HYPHEN, "x">>, <<Field(A, <<>>)>>)}
=============================================================================
