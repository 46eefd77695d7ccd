------------------------------ MODULE JsonReader ------------------------------
(***************************************************************************)
(* reader_t of serialize.hpp: the tokenizer under from_json.  It walks one  *)
(* text, unescapes strings in place in the text it reads, and reports every *)
(* error by setting the static g_has_error and going on.                    *)
(*                                                                         *)
(* One action is one pass of one of its loops.  pending is the number of    *)
(* calls of next() the reader's client has made and that are not finished;  *)
(* the client looks at the token when it is 0.  Characters are their codes, *)
(* 7-bit in a text: char_to_hex indexes a table with a signed char.  The    *)
(* end mark is not a variable: it is set exactly when a zero byte or the    *)
(* end of the text is reached.  Lines and columns are counted for nobody.   *)
(***************************************************************************)
EXTENDS Integers, Sequences

CONSTANT Uninitialized  \* what cur_tok_ may hold before it is first set

VARIABLES
    ptr_,         \* the text, from 0; a zero byte stands behind it, as behind a std::string's
    len_,         \* its length
    cur_offset_,  \* the character next() looks at
    cur_tok_,     \* the token
    esc_count,    \* by how much the unescaped string is shorter than its text
    lex,          \* the loop next() is in; "skip" at its first line
    do_next,      \* next() calls itself once the token is complete
    pending,      \* calls of next() to finish
    g_has_error,  \* the error flag, shared by all readers
    original,     \* history: the text before anything was unescaped
    decoded       \* history: what the string being read stands for so far

readerVars == <<ptr_, len_, cur_offset_, cur_tok_, esc_count, lex, do_next, pending,
                original, decoded>>

(* Characters *)
BS == 8        TAB == 9       LF == 10     FF == 12    CR == 13    BLANK == 32
QUOTE == 34    COMMA == 44    MINUS == 45  DOT == 46   SLASH == 47 ZERO == 48
COLON == 58    LBRACKET == 91 BACKSLASH == 92 RBRACKET == 93
LBRACE == 123  RBRACE == 125  STAR == 42

Byte   == 0 .. 255
Ascii  == 0 .. 127
Digit  == ZERO .. (ZERO + 9)
Blanks == {BLANK, TAB, CR, LF}
Ctrls  == {LBRACE, RBRACE, LBRACKET, RBRACKET, COLON, COMMA}

\* The letter after a backslash, and the character it stands for.
Letter_u == 117
LetterEscapes == [b \in {98, 102, 110, 114, 116} |->
    CASE b = 98 -> BS [] b = 102 -> FF [] b = 110 -> LF [] b = 114 -> CR [] b = 116 -> TAB]

TokenTypes == {"t_string", "t_int", "t_uint", "t_number", "t_ctrl", "t_end"}

\* A token: str.str and str.len, and for a number num / 10^scale.
Token == [type : TokenTypes, start : Nat, len : Int, neg : BOOLEAN, num : Nat, scale : Nat]

\* The token of a reader_t that is not there.
NoToken == [type |-> "t_end", start |-> 0, len |-> 0, neg |-> FALSE, num |-> 0, scale |-> 0]

\* The constructor leaves str, type and value indeterminate.  Nothing looks through
\* str.str before it is set, so that its start may be taken to be 0.
ASSUME UninitializedAssumption ==
    Uninitialized # {} /\ \A tok \in Uninitialized : tok \in Token /\ tok.start = 0

-----------------------------------------------------------------------------
(* read() and take() at an offset: neither goes on at the end of the text.  *)
(* take() also looks at the byte it arrives at, to set the end mark and to   *)
(* count lines, and expect() at the first byte of a t_end token: at the end  *)
(* of the text both look at the zero behind it, and Read is 0 there.         *)
Read(o) == IF o < len_ THEN ptr_[o] ELSE 0
Take(o) == IF Read(o) = 0 THEN o ELSE o + 1

\* The text with the bytes s stored from offset o on.  A \u escape that the end
\* of the text cuts off is stored too far ahead, in the first bytes of a text even
\* before it: that changes memory which is not the text, and what comes of it is
\* beyond this model.
Fill(o, s) == [i \in 0 .. (len_ - 1) |->
                  IF i \in o .. (o + Len(s) - 1) THEN s[i - o + 1] ELSE ptr_[i]]

Hex(c) == CASE c \in Digit     -> c - ZERO
            [] c \in 65 .. 70  -> c - 55
            [] c \in 97 .. 101 -> c - 87
            [] OTHER           -> 16

\* The character u in one to three bytes; read_utf never yields more.
Utf8(u) ==
    IF u < 128 THEN <<u>>
    ELSE IF u < 2048 THEN <<192 + (u \div 64), 128 + (u % 64)>>
    ELSE <<224 + (u \div 4096), 128 + ((u \div 64) % 64), 128 + (u % 64)>>

TokenStart(type) == [type |-> type, start |-> cur_offset_, len |-> cur_tok_.len,
                     neg |-> FALSE, num |-> 0, scale |-> 0]

\* The current call of next() returns, or begins again after a comment.
Return ==
    /\ lex' = "skip"
    /\ do_next' = FALSE
    /\ pending' = IF do_next THEN pending ELSE pending - 1

Error == g_has_error' = TRUE
NoError == UNCHANGED g_has_error

\* parser_quote_string begins: take() at the offset o, and the string is behind.
QuoteString(o) ==
    /\ lex' = "quoted"
    /\ cur_offset_' = Take(o)
    /\ cur_tok_' = [TokenStart("t_string") EXCEPT !.start = Take(o)]
    /\ esc_count' = 0
    /\ decoded' = <<>>

-----------------------------------------------------------------------------
(* next(): the switch *)
InNext(mode) == pending > 0 /\ lex = mode
Here == Read(cur_offset_)

SkipBlank ==
    /\ InNext("skip")
    /\ Here \in Blanks
    /\ cur_offset_' = Take(cur_offset_)
    /\ UNCHANGED <<ptr_, len_, cur_tok_, esc_count, lex, do_next, pending, original, decoded,
                   g_has_error>>

EndToken ==
    /\ InNext("skip")
    /\ Here = 0
    /\ cur_tok_' = [TokenStart("t_end") EXCEPT !.len = 1]
    /\ Return
    /\ UNCHANGED <<ptr_, len_, cur_offset_, esc_count, original, decoded, g_has_error>>

CtrlToken ==
    /\ InNext("skip")
    /\ Here \in Ctrls
    /\ cur_tok_' = [TokenStart("t_ctrl") EXCEPT !.len = 1]
    /\ cur_offset_' = Take(cur_offset_)
    /\ Return
    /\ UNCHANGED <<ptr_, len_, esc_count, original, decoded, g_has_error>>

\* A slash: a comment, or an error after which a quoted string is expected.
Slash(next) ==
    /\ InNext("skip")
    /\ Here = SLASH
    /\ Read(Take(cur_offset_)) \in next
    /\ UNCHANGED <<ptr_, len_, do_next, pending, original>>

CommentBegins ==
    /\ Slash({SLASH, STAR})
    /\ lex' = IF Read(Take(cur_offset_)) = SLASH THEN "line" ELSE "block"
    /\ cur_offset_' = Take(Take(cur_offset_))
    /\ cur_tok_' = [cur_tok_ EXCEPT !.neg = FALSE]
    /\ UNCHANGED <<esc_count, decoded, g_has_error>>

NotAComment ==
    /\ Slash(Byte \ {SLASH, STAR})
    /\ Error
    /\ QuoteString(Take(cur_offset_))

\* Faulty: a line comment at the end of the text is not left.
InLineCommentForever ==
    /\ InNext("line")
    /\ IF Here = LF
       THEN lex' = "skip" /\ UNCHANGED cur_offset_
       ELSE cur_offset_' = Take(cur_offset_) /\ UNCHANGED lex
    /\ UNCHANGED <<ptr_, len_, cur_tok_, esc_count, do_next, pending, original, decoded,
                   g_has_error>>

InLineComment ==
    /\ InNext("line")
    /\ IF Here \in {LF, 0}
       THEN lex' = "skip" /\ UNCHANGED cur_offset_
       ELSE cur_offset_' = Take(cur_offset_) /\ UNCHANGED lex
    /\ UNCHANGED <<ptr_, len_, cur_tok_, esc_count, do_next, pending, original, decoded,
                   g_has_error>>

InBlockComment ==
    /\ InNext("block")
    /\ Here # 0
    /\ ~ (Here = STAR /\ Read(Take(cur_offset_)) = SLASH)
    /\ cur_offset_' = Take(cur_offset_)
    /\ UNCHANGED <<ptr_, len_, cur_tok_, esc_count, lex, do_next, pending, original, decoded,
                   g_has_error>>

\* The break at the end of the comment leaves the inner loop only: the error
\* and the case of a quoted string follow.
BlockCommentEnds ==
    /\ InNext("block")
    /\ Here = STAR /\ Read(Take(cur_offset_)) = SLASH
    /\ do_next' = TRUE
    /\ Error
    /\ QuoteString(Take(Take(cur_offset_)))
    /\ UNCHANGED <<ptr_, len_, pending, original>>

\* An unterminated comment returns with the token before it.
BlockCommentCut ==
    /\ InNext("block")
    /\ Here = 0
    /\ lex' = "skip"
    /\ do_next' = FALSE
    /\ pending' = pending - 1
    /\ UNCHANGED <<ptr_, len_, cur_offset_, cur_tok_, esc_count, original, decoded, g_has_error>>

QuoteToken ==
    /\ InNext("skip")
    /\ Here = QUOTE
    /\ QuoteString(cur_offset_)
    /\ UNCHANGED <<ptr_, len_, do_next, pending, original, g_has_error>>

\* Anything else begins a number or a string without quotes.
OtherToken ==
    /\ InNext("skip")
    /\ Here \notin Blanks \union Ctrls \union {0, SLASH, QUOTE}
    /\ cur_offset_' = Take(cur_offset_)
    /\ UNCHANGED <<ptr_, len_, do_next, pending, original, g_has_error>>

NumberToken ==
    /\ OtherToken
    /\ \/ Here \in Digit /\ cur_tok_' = [TokenStart("t_uint") EXCEPT !.num = Here - ZERO]
       \/ Here = MINUS /\ cur_tok_' = [TokenStart("t_int") EXCEPT !.neg = TRUE]
    /\ lex' = "number"
    /\ UNCHANGED <<esc_count, decoded>>

PlainToken ==
    /\ OtherToken
    /\ Here \notin Digit \union {MINUS}
    /\ cur_tok_' = TokenStart("t_string")
    /\ lex' = "plain"
    /\ esc_count' = 0
    /\ decoded' = <<Here>>

-----------------------------------------------------------------------------
(* parser_quote_string and parser_string.  Behind a backslash at the cursor *)
(* stands Escaped, which they read with the cursor at EscapeAt.             *)
EscapeAt == Take(cur_offset_)
Escaped == Read(EscapeAt)

Letters == DOMAIN LetterEscapes
InEscape(mode, letters) == InNext(mode) /\ Here = BACKSLASH /\ Escaped \in letters

\* The last lines of the loop: x is the next character of the string.
NextChar(o, x, esc) ==
    /\ ptr_' = IF esc = 0 THEN ptr_ ELSE Fill(o - esc, <<x>>)
    /\ esc_count' = esc
    /\ cur_offset_' = Take(o)
    /\ decoded' = Append(decoded, x)
    /\ UNCHANGED <<len_, cur_tok_, lex, do_next, pending, original>>

StringChar(terminators) ==
    /\ Here \notin terminators \union {0, BACKSLASH}
    /\ NextChar(cur_offset_, Here, esc_count)
    /\ NoError

LetterEscape(mode) ==
    /\ InEscape(mode, Letters)
    /\ NextChar(EscapeAt, LetterEscapes[Escaped], esc_count + 1)
    /\ NoError

ReadUtf(o) ==
    LET o2 == Take(o)   o3 == Take(o2)   o4 == Take(o3)
        h  == <<Hex(Read(o)), Hex(Read(o2)), Hex(Read(o3)), Hex(Read(o4))>>
    IN  [value |-> h[1] * 4096 + h[2] * 256 + h[3] * 16 + h[4],
         bad   |-> \E i \in 1 .. 4 : h[i] > 15,
         next  |-> Take(o4)]

\* Faulty: every escape is taken for one byte.
UnicodeEscapeOneByte(mode, more) ==
    LET r == ReadUtf(Take(EscapeAt))
        s == Utf8(r.value) \o more
    IN  /\ InEscape(mode, {Letter_u})
        /\ ptr_' = Fill(r.next - (esc_count + 6), s)
        /\ esc_count' = esc_count + 5
        /\ cur_offset_' = IF more = <<>> THEN r.next ELSE Take(r.next)
        /\ decoded' = decoded \o s
        /\ g_has_error' = (g_has_error \/ r.bad)
        /\ UNCHANGED <<len_, cur_tok_, lex, do_next, pending, original>>

\* esacpe_utf8; more is what the loop's last lines store behind it.
UnicodeEscape(mode, more) ==
    LET r == ReadUtf(Take(EscapeAt))
        s == Utf8(r.value) \o more
    IN  /\ InEscape(mode, {Letter_u})
        /\ ptr_' = Fill(r.next - (esc_count + 6), s)
        /\ esc_count' = esc_count + 6 - Len(Utf8(r.value))
        /\ cur_offset_' = IF more = <<>> THEN r.next ELSE Take(r.next)
        /\ decoded' = decoded \o s
        /\ g_has_error' = (g_has_error \/ r.bad)
        /\ UNCHANGED <<len_, cur_tok_, lex, do_next, pending, original>>

\* The string ends: its length is that of the text less what unescaping saved.
StringEnds(o) ==
    /\ cur_tok_' = [cur_tok_ EXCEPT !.len = cur_offset_ - esc_count - cur_tok_.start]
    /\ cur_offset_' = o
    /\ Return
    /\ UNCHANGED <<ptr_, len_, esc_count, original, decoded, g_has_error>>

\* An error return: the token keeps the length of the token before.
StringFails(o) ==
    /\ Error
    /\ cur_offset_' = o
    /\ Return
    /\ UNCHANGED <<ptr_, len_, esc_count, cur_tok_, original, decoded>>

QuotedChar    == InNext("quoted") /\ StringChar({LF, QUOTE})
QuotedEnds    == InNext("quoted") /\ Here = QUOTE /\ StringEnds(Take(cur_offset_))
\* Faulty: a string that is not closed ends with the text.
QuotedEndsAnyway == InNext("quoted") /\ Here \in {LF, 0} /\ StringEnds(cur_offset_)
QuotedFails   == InNext("quoted") /\ Here \in {LF, 0} /\ StringFails(cur_offset_)
QuotedLetter  == LetterEscape("quoted")
QuotedSame    == InEscape("quoted", {SLASH, QUOTE}) /\ NextChar(EscapeAt, Escaped, esc_count + 1) /\ NoError
QuotedUnicode == UnicodeEscape("quoted", <<>>)
QuotedUnknown == InEscape("quoted", Byte \ (Letters \union {SLASH, QUOTE, Letter_u}))
                     /\ StringFails(EscapeAt)

PlainChar    == InNext("plain") /\ StringChar(Blanks \union Ctrls)
PlainEnds    == InNext("plain") /\ Here \in Blanks \union Ctrls /\ StringEnds(cur_offset_)
PlainFails   == InNext("plain") /\ Here = 0 /\ StringFails(cur_offset_)
PlainLetter  == LetterEscape("plain")
\* The continue behind the escape does not read on: the letter u follows it
\* into the string, and the character behind it is lost.
PlainUnicode == UnicodeEscape("plain", <<Letter_u>>)
PlainUnknown == InEscape("plain", Byte \ (Letters \union {Letter_u}))
                    /\ NextChar(EscapeAt, Escaped, esc_count + 1) /\ Error

-----------------------------------------------------------------------------
(* parser_number; num / 10^scale is what it adds up.                        *)
NumberDigit ==
    /\ InNext("number")
    /\ Here \in Digit
    /\ cur_tok_' = [cur_tok_ EXCEPT !.num = 10 * @ + (Here - ZERO),
                       !.scale = IF cur_tok_.type = "t_number" THEN @ + 1 ELSE @]
    /\ cur_offset_' = Take(cur_offset_)
    /\ UNCHANGED <<ptr_, len_, esc_count, lex, do_next, pending, original, decoded, g_has_error>>

NumberDot ==
    /\ InNext("number")
    /\ Here = DOT
    /\ cur_tok_' = [cur_tok_ EXCEPT !.type = "t_number"]
    /\ g_has_error' = (g_has_error \/ cur_tok_.type = "t_number")
    /\ cur_offset_' = Take(cur_offset_)
    /\ UNCHANGED <<ptr_, len_, esc_count, lex, do_next, pending, original, decoded>>

NumberEnds ==
    /\ InNext("number")
    /\ Here \notin Digit \union {DOT}
    /\ cur_tok_' = [cur_tok_ EXCEPT !.len = cur_offset_ - cur_tok_.start]
    /\ Return
    /\ UNCHANGED <<ptr_, len_, cur_offset_, esc_count, original, decoded, g_has_error>>

ReadQuoted == QuotedChar \/ QuotedEnds \/ QuotedFails \/ QuotedLetter \/ QuotedSame
              \/ QuotedUnicode \/ QuotedUnknown
ReadPlain  == PlainChar \/ PlainEnds \/ PlainFails \/ PlainLetter \/ PlainUnicode \/ PlainUnknown
ReadNumber == NumberDigit \/ NumberDot \/ NumberEnds

LexStep ==
    \/ SkipBlank \/ EndToken \/ CtrlToken \/ QuoteToken \/ NumberToken \/ PlainToken
    \/ CommentBegins \/ NotAComment \/ InLineComment
    \/ InBlockComment \/ BlockCommentEnds \/ BlockCommentCut
    \/ ReadQuoted \/ ReadPlain \/ ReadNumber

\* A reader on its own: the constructor, for any text, which calls next(), and
\* a client that calls next() any number of times and may set the flag.
ReaderInit ==
    /\ len_ \in Nat
    /\ original \in [0 .. (len_ - 1) -> Ascii]
    /\ ptr_ = original
    /\ cur_offset_ = 0
    /\ cur_tok_ \in Uninitialized
    /\ esc_count = 0
    /\ lex = "skip"
    /\ do_next = FALSE
    /\ decoded = <<>>
    /\ pending = 1
    /\ g_has_error \in BOOLEAN

CallNext ==
    /\ pending = 0
    /\ pending' \in Nat
    /\ g_has_error' \in BOOLEAN
    /\ UNCHANGED <<ptr_, len_, cur_offset_, cur_tok_, esc_count, lex, do_next, original, decoded>>

ReaderSpec == ReaderInit /\ [][LexStep \/ CallNext]_<<readerVars, g_has_error>>
-----------------------------------------------------------------------------
ReaderTypeOK ==
    /\ len_ \in Nat
    /\ ptr_ \in [0 .. (len_ - 1) -> Byte]
    /\ original \in [0 .. (len_ - 1) -> Ascii]
    /\ cur_offset_ \in 0 .. len_
    /\ cur_tok_ \in Token
    /\ esc_count \in Nat
    /\ lex \in {"skip", "line", "block", "quoted", "plain", "number"}
    /\ do_next \in BOOLEAN
    /\ pending \in Nat
    /\ g_has_error \in BOOLEAN
    /\ decoded \in Seq(Byte)

\* What take() and expect() look at lies in the text or is the zero behind it: the
\* cursor and the token begin there.
LooksAtText == cur_offset_ \in 0 .. len_ /\ cur_tok_.start \in 0 .. len_

\* Unescaping in place never changes text that is still to be read.
UnreadIsKept == \A i \in cur_offset_ .. (len_ - 1) : ptr_[i] = original[i]

\* Where the next character of a string is stored.
WriteAt == cur_offset_ - esc_count

\* However escapes of different lengths follow one another, what the string
\* stands for is in the text from the token's start on, without a gap, and is
\* where the token's length will be taken from.  (At the end of the text a cut
\* off escape is no string: an error was reported, or is about to be.)
UnescapedInPlace ==
    lex \in {"quoted", "plain"} /\ Here # 0 =>
        /\ WriteAt = cur_tok_.start + Len(decoded)
        /\ \A i \in 1 .. Len(decoded) : ptr_[cur_tok_.start + i - 1] = decoded[i]
=============================================================================
