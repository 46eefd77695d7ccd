--------------------------- MODULE JsonReaderProofs ---------------------------
(***************************************************************************)
(* What holds of reader_t for every text: the variables keep their types,   *)
(* what is looked at is in the text or the zero behind it, unescaping in    *)
(* place never reaches the text that is still to be read, and the bytes of  *)
(* a string lie where its token says.                                       *)
(***************************************************************************)
EXTENDS JsonReader, TLAPS

\* Reading and taking do not go on behind the text.
LEMMA ReadTake ==
    ASSUME ReaderTypeOK, NEW o \in 0 .. len_
    PROVE  /\ Read(o) \in Byte
           /\ Take(o) \in 0 .. len_
           /\ Take(o) >= o
           /\ Read(o) # 0 => o < len_ /\ Take(o) = o + 1 /\ Read(o) = ptr_[o]
           /\ Read(o) = 0 => Take(o) = o
  BY DEF Read, Take, ReaderTypeOK, Byte

\* A hexadecimal digit is a number up to 16.
LEMMA HexRange == ASSUME NEW c \in Byte PROVE Hex(c) \in 0 .. 16
  BY DEF Hex, Byte, Digit, ZERO

\* The last six bits behind a bit of their own are a byte.
LEMMA SixBits == ASSUME NEW n \in Int PROVE 128 + (n % 64) \in Byte
  BY DEF Byte

\* Four of them are stored in one to three bytes.
LEMMA Utf8Bytes ==
    ASSUME NEW u \in Nat, u <= 69904
    PROVE  /\ Utf8(u) \in Seq(Byte)
           /\ Len(Utf8(u)) \in 1 .. 3
<1>1. CASE u < 128
  <2>1. Utf8(u) = <<u>>
    BY <1>1 DEF Utf8
  <2>2. u \in Byte
    BY <1>1 DEF Byte
  <2> QED BY <2>1, <2>2
<1>2. CASE u >= 128 /\ u < 2048
  <2>1. Utf8(u) = <<192 + (u \div 64), 128 + (u % 64)>>
    BY <1>2 DEF Utf8
  <2>2. 192 + (u \div 64) \in Byte /\ 128 + (u % 64) \in Byte
    BY <1>2 DEF Byte
  <2> QED BY <2>1, <2>2
<1>3. CASE u >= 2048
  <2>1. Utf8(u) = <<224 + (u \div 4096), 128 + ((u \div 64) % 64), 128 + (u % 64)>>
    BY <1>3 DEF Utf8
  <2>2. 224 + (u \div 4096) \in Byte
    BY DEF Byte
  <2>3. u \div 64 \in Int
    OBVIOUS
  <2>4. 128 + ((u \div 64) % 64) \in Byte
    BY <2>3, SixBits
  <2>5. 128 + (u % 64) \in Byte
    BY SixBits
  <2> QED BY <2>1, <2>2, <2>4, <2>5
<1> QED BY <1>1, <1>2, <1>3

\* Storing bytes leaves the text a text, and other offsets alone.
LEMMA FillKeeps ==
    ASSUME ReaderTypeOK, NEW o \in Int, NEW s \in Seq(Byte)
    PROVE  /\ Fill(o, s) \in [0 .. (len_ - 1) -> Byte]
           /\ \A i \in 0 .. (len_ - 1) : i < o \/ i >= o + Len(s) => Fill(o, s)[i] = ptr_[i]
           /\ \A j \in 1 .. Len(s) : o + j - 1 \in 0 .. (len_ - 1) => Fill(o, s)[o + j - 1] = s[j]
<1>1. \A i \in 0 .. (len_ - 1) : i \in o .. (o + Len(s) - 1) => s[i - o + 1] \in Byte
  OBVIOUS
<1> QED BY <1>1 DEF Fill, ReaderTypeOK

-----------------------------------------------------------------------------
(* Tokens and returns *)
LEMMA NewToken == ASSUME ReaderTypeOK, NEW type \in TokenTypes PROVE TokenStart(type) \in Token
  BY DEF TokenStart, ReaderTypeOK, Token

LEMMA TokenLen == ASSUME NEW t \in Token, NEW n \in Int PROVE [t EXCEPT !.len = n] \in Token
  BY DEF Token

LEMMA TokenAt == ASSUME NEW t \in Token, NEW n \in Nat PROVE [t EXCEPT !.start = n] \in Token
  BY DEF Token

LEMMA TokenNum == ASSUME NEW t \in Token, NEW n \in Nat PROVE [t EXCEPT !.num = n] \in Token
  BY DEF Token

LEMMA TokenNeg == ASSUME NEW t \in Token, NEW b \in BOOLEAN PROVE [t EXCEPT !.neg = b] \in Token
  BY DEF Token

LEMMA TokenFields == ASSUME NEW t \in Token PROVE /\ t.start \in Nat /\ t.len \in Int
                                                  /\ t.num \in Nat /\ t.scale \in Nat
  BY DEF Token

\* A return takes one pending call away, or begins it again.
LEMMA Returns ==
    ASSUME ReaderTypeOK, pending > 0, Return
    PROVE  lex' = "skip" /\ do_next' \in BOOLEAN /\ pending' \in Nat
<1>1. lex' = "skip" /\ do_next' \in BOOLEAN
  BY Zenon DEF Return
<1>2. pending' \in Nat
  <2>1. CASE do_next
    BY <2>1 DEF Return, ReaderTypeOK
  <2>2. CASE ~ do_next
    BY <2>2 DEF Return, ReaderTypeOK
  <2> QED BY <2>1, <2>2
<1> QED BY <1>1, <1>2

\* What the cursor is on, and what is behind it.
LEMMA AtCursor ==
    ASSUME ReaderTypeOK
    PROVE  /\ cur_offset_ \in 0 .. len_
           /\ Here \in Byte
           /\ Take(cur_offset_) \in 0 .. len_
           /\ Take(cur_offset_) >= cur_offset_
           /\ Take(Take(cur_offset_)) \in 0 .. len_
           /\ Take(Take(cur_offset_)) >= Take(cur_offset_)
           /\ Here # 0 => /\ cur_offset_ < len_ /\ Take(cur_offset_) = cur_offset_ + 1
                          /\ Here = ptr_[cur_offset_]
<1>1. cur_offset_ \in 0 .. len_
  BY DEF ReaderTypeOK
<1>2. /\ Here \in Byte /\ Take(cur_offset_) \in 0 .. len_ /\ Take(cur_offset_) >= cur_offset_
      /\ Here # 0 => /\ cur_offset_ < len_ /\ Take(cur_offset_) = cur_offset_ + 1
                     /\ Here = ptr_[cur_offset_]
  BY <1>1, ReadTake DEF Here
<1>3. Take(Take(cur_offset_)) \in 0 .. len_ /\ Take(Take(cur_offset_)) >= Take(cur_offset_)
  BY <1>2, ReadTake
<1> QED BY <1>1, <1>2, <1>3

-----------------------------------------------------------------------------
TextInv == ReaderTypeOK /\ UnreadIsKept /\ UnescapedInPlace

\* A step that stores nothing and is in no string afterwards needs no more than
\* the types.
LEMMA Quiet ==
    ASSUME TextInv, ReaderTypeOK',
           UNCHANGED <<ptr_, len_, original>>, cur_offset_' >= cur_offset_,
           lex' \notin {"quoted", "plain"}
    PROVE  TextInv'
  BY DEF TextInv, ReaderTypeOK, UnreadIsKept, UnescapedInPlace

\* The types of a step that ends with a return and stores nothing.
LEMMA QuietReturn ==
    ASSUME TextInv, pending > 0, Return, UNCHANGED <<ptr_, len_, original, esc_count, decoded>>,
           cur_tok_' \in Token, cur_offset_' \in 0 .. len_, cur_offset_' >= cur_offset_,
           g_has_error' \in BOOLEAN
    PROVE  TextInv'
<1>1. ReaderTypeOK
  BY DEF TextInv
<1>2. lex' = "skip" /\ do_next' \in BOOLEAN /\ pending' \in Nat
  BY <1>1, Returns
<1>3. lex' \in {"skip", "line", "block", "quoted", "plain", "number"}
  BY <1>2
<1>4. ReaderTypeOK'
  BY <1>1, <1>2, <1>3 DEF ReaderTypeOK
<1> QED BY <1>2, <1>4, Quiet

\* The steps outside of strings.
LEMMA BetweenStrings ==
    ASSUME TextInv,
           \/ SkipBlank \/ EndToken \/ CtrlToken \/ NumberToken \/ CommentBegins
           \/ InLineComment \/ InBlockComment \/ BlockCommentCut
    PROVE  TextInv'
<1>o. ReaderTypeOK
  BY DEF TextInv
<1>t. /\ cur_offset_ \in 0 .. len_ /\ Here \in Byte
      /\ Take(cur_offset_) \in 0 .. len_ /\ Take(cur_offset_) >= cur_offset_
      /\ Take(Take(cur_offset_)) \in 0 .. len_ /\ Take(Take(cur_offset_)) >= Take(cur_offset_)
  BY <1>o, AtCursor
<1>1. CASE SkipBlank
  <2>1. ReaderTypeOK' /\ cur_offset_' >= cur_offset_
    BY <1>o, <1>t, <1>1 DEF SkipBlank, InNext, ReaderTypeOK
  <2> QED BY <1>1, <2>1, Quiet DEF SkipBlank, InNext
<1>2. CASE EndToken
  <2>1. cur_tok_' \in Token
    BY <1>o, <1>2, NewToken, TokenLen DEF EndToken, TokenTypes
  <2>2. g_has_error' \in BOOLEAN
    BY <1>o, <1>2 DEF EndToken, ReaderTypeOK
  <2> QED BY <1>t, <1>2, <2>1, <2>2, QuietReturn DEF EndToken, InNext
<1>3. CASE CtrlToken
  <2>1. cur_tok_' \in Token
    BY <1>o, <1>3, NewToken, TokenLen DEF CtrlToken, TokenTypes
  <2>2. g_has_error' \in BOOLEAN
    BY <1>o, <1>3 DEF CtrlToken, ReaderTypeOK
  <2> QED BY <1>t, <1>3, <2>1, <2>2, QuietReturn DEF CtrlToken, InNext
<1>4. CASE NumberToken
  <2>1. cur_tok_' \in Token
    <3>1. CASE Here \in Digit /\ cur_tok_' = [TokenStart("t_uint") EXCEPT !.num = Here - ZERO]
      <4>1. Here - ZERO \in Nat
        BY <3>1 DEF Digit, ZERO
      <4> QED BY <1>o, <3>1, <4>1, NewToken, TokenNum DEF TokenTypes
    <3>2. CASE cur_tok_' = [TokenStart("t_int") EXCEPT !.neg = TRUE]
      BY <1>o, <3>2, NewToken, TokenNeg DEF TokenTypes
    <3> QED BY <1>4, <3>1, <3>2 DEF NumberToken
  <2>2. ReaderTypeOK'
    BY <1>o, <1>t, <1>4, <2>1 DEF NumberToken, OtherToken, InNext, ReaderTypeOK
  <2> QED BY <1>t, <1>4, <2>2, Quiet DEF NumberToken, OtherToken
<1>5. CASE CommentBegins
  <2>1. cur_tok_' \in Token
    BY <1>o, <1>5, TokenNeg DEF CommentBegins, ReaderTypeOK
  <2>2. ReaderTypeOK'
    BY <1>o, <1>t, <1>5, <2>1 DEF CommentBegins, Slash, InNext, ReaderTypeOK
  <2> QED BY <1>t, <1>5, <2>2, Quiet DEF CommentBegins, Slash
<1>6. CASE InLineComment
  <2>1. ReaderTypeOK'
    BY <1>o, <1>t, <1>6 DEF InLineComment, InNext, ReaderTypeOK
  <2> QED BY <1>t, <1>6, <2>1, Quiet DEF InLineComment, InNext
<1>7. CASE InBlockComment
  <2>1. ReaderTypeOK'
    BY <1>o, <1>t, <1>7 DEF InBlockComment, InNext, ReaderTypeOK
  <2> QED BY <1>t, <1>7, <2>1, Quiet DEF InBlockComment, InNext
<1>8. CASE BlockCommentCut
  <2>1. do_next' \in BOOLEAN
    BY <1>8, Zenon DEF BlockCommentCut
  <2>2. ReaderTypeOK'
    BY <1>o, <1>8, <2>1 DEF BlockCommentCut, InNext, ReaderTypeOK
  <2> QED BY <1>t, <1>8, <2>2, Quiet DEF BlockCommentCut
<1> QED BY <1>1, <1>2, <1>3, <1>4, <1>5, <1>6, <1>7, <1>8

\* The steps of a number.
LEMMA InNumbers ==
    ASSUME TextInv, ReadNumber
    PROVE  TextInv'
<1>o. ReaderTypeOK /\ cur_tok_ \in Token
  BY DEF TextInv, ReaderTypeOK
<1>t. /\ cur_offset_ \in 0 .. len_
      /\ Take(cur_offset_) \in 0 .. len_ /\ Take(cur_offset_) >= cur_offset_
  BY <1>o, AtCursor
<1>1. CASE NumberDigit
  <2>1. Here - ZERO \in Nat
    BY <1>1 DEF NumberDigit, Digit, ZERO
  <2>2. /\ 10 * cur_tok_.num + (Here - ZERO) \in Nat
        /\ cur_tok_.scale + 1 \in Nat
    BY <1>o, <2>1, TokenFields
  <2>3. cur_tok_' \in Token
    BY <1>o, <1>1, <2>2 DEF NumberDigit, Token
  <2>4. ReaderTypeOK'
    BY <1>o, <1>t, <1>1, <2>3 DEF NumberDigit, InNext, ReaderTypeOK
  <2> QED BY <1>t, <1>1, <2>4, Quiet DEF NumberDigit, InNext
<1>2. CASE NumberDot
  <2>1. cur_tok_' \in Token
    BY <1>o, <1>2 DEF NumberDot, Token, TokenTypes
  <2>2. ReaderTypeOK'
    BY <1>o, <1>t, <1>2, <2>1 DEF NumberDot, InNext, ReaderTypeOK
  <2> QED BY <1>t, <1>2, <2>2, Quiet DEF NumberDot, InNext
<1>3. CASE NumberEnds
  <2>1. cur_offset_ - cur_tok_.start \in Int
    BY <1>o, <1>t, TokenFields DEF ReaderTypeOK
  <2>2. cur_tok_' \in Token
    BY <1>o, <1>3, <2>1, TokenLen DEF NumberEnds
  <2>3. g_has_error' \in BOOLEAN
    BY <1>o, <1>3 DEF NumberEnds, ReaderTypeOK
  <2> QED BY <1>t, <1>3, <2>2, <2>3, QuietReturn DEF NumberEnds, InNext
<1> QED BY <1>1, <1>2, <1>3 DEF ReadNumber

-----------------------------------------------------------------------------
(* Strings *)

\* A string begins: nothing was unescaped yet.
LEMMA StringBegins ==
    ASSUME TextInv, ReaderTypeOK',
           UNCHANGED <<ptr_, len_, original>>, cur_offset_' >= cur_offset_,
           esc_count' = 0,
           cur_offset_' = cur_tok_'.start + Len(decoded'),
           \A i \in 1 .. Len(decoded') : ptr_[cur_tok_'.start + i - 1] = decoded'[i]
    PROVE  TextInv'
<1>1. UnreadIsKept'
  BY DEF TextInv, ReaderTypeOK, UnreadIsKept
<1>2. UnescapedInPlace'
  BY DEF UnescapedInPlace, WriteAt, TextInv, ReaderTypeOK
<1> QED BY <1>1, <1>2 DEF TextInv

\* The j-th of n bytes at the offset w is one of the first m.
LEMMA InRow ==
    ASSUME NEW w \in Nat, NEW j \in Nat, NEW n \in Nat, NEW m \in Nat,
           j >= 1, w + j <= w + n, w + n <= m
    PROVE  w + j - 1 \in 0 .. (m - 1)
  OBVIOUS

\* The i-th of d bytes at the offset a, before a row of n, is before that row.
LEMMA BeforeRow ==
    ASSUME NEW a \in Nat, NEW i \in Nat, NEW d \in Nat, NEW n \in Nat, NEW m \in Nat,
           i >= 1, i <= d, a + d + n <= m
    PROVE  a + i - 1 \in 0 .. (m - 1) /\ a + i - 1 < a + d
  OBVIOUS

\* The bytes s are stored at the offset w.  They become the next characters of
\* the string, or the text ends.
LEMMA BytesStored ==
    ASSUME TextInv, lex \in {"quoted", "plain"}, Here # 0,
           NEW s \in Seq(Byte), NEW w \in Int,
           ptr_' = Fill(w, s), decoded' = decoded \o s,
           UNCHANGED <<len_, cur_tok_, lex, original>>,
           cur_offset_' \in 0 .. len_, cur_offset_' >= cur_offset_,
           w + Len(s) <= cur_offset_', esc_count' \in Nat,
           Read(cur_offset_') = 0 \/ (w = WriteAt /\ cur_offset_' - esc_count' = WriteAt + Len(s))
    PROVE  /\ ptr_' \in [0 .. (len_' - 1) -> Byte]
           /\ decoded' \in Seq(Byte)
           /\ UnreadIsKept'
           /\ UnescapedInPlace'
<1>o. ReaderTypeOK /\ len_ \in Nat /\ decoded \in Seq(Byte) /\ cur_tok_.start \in Nat
  BY TokenFields DEF TextInv, ReaderTypeOK
<1>f. /\ ptr_' \in [0 .. (len_ - 1) -> Byte]
      /\ \A i \in 0 .. (len_ - 1) : i < w \/ i >= w + Len(s) => ptr_'[i] = ptr_[i]
      /\ \A j \in 1 .. Len(s) : w + j - 1 \in 0 .. (len_ - 1) => ptr_'[w + j - 1] = s[j]
  BY <1>o, FillKeeps
<1>1. decoded' \in Seq(Byte) /\ Len(decoded') = Len(decoded) + Len(s)
  BY <1>o
<1>2. UnreadIsKept'
  <2>1. Len(s) \in Nat
    OBVIOUS
  <2> SUFFICES ASSUME NEW i \in cur_offset_' .. (len_ - 1)
               PROVE  ptr_'[i] = original[i]
    BY DEF UnreadIsKept
  <2>2. i \in 0 .. (len_ - 1) /\ i >= w + Len(s) /\ i \in cur_offset_ .. (len_ - 1)
    BY <1>o, <2>1 DEF ReaderTypeOK
  <2>3. ptr_[i] = original[i]
    BY <2>2 DEF TextInv, UnreadIsKept
  <2> QED BY <1>f, <2>2, <2>3
<1>3. UnescapedInPlace'
  <2>1. Here' = 0 \/ (w = WriteAt /\ cur_offset_' - esc_count' = WriteAt + Len(s))
    <3>1. CASE Read(cur_offset_') = 0
      <4>1. CASE cur_offset_' < len_
        <5>1. ptr_[cur_offset_'] = 0
          BY <3>1, <4>1 DEF Read
        <5>2. cur_offset_' \in 0 .. (len_ - 1) /\ cur_offset_' >= w + Len(s)
          BY <4>1, <1>o
        <5>3. ptr_'[cur_offset_'] = 0
          BY <5>1, <5>2, <1>f
        <5> QED BY <5>3 DEF Here, Read
      <4>2. CASE ~ (cur_offset_' < len_)
        BY <4>2 DEF Here, Read
      <4> QED BY <4>1, <4>2
    <3> QED BY <3>1
  <2>2. CASE Here' = 0
    BY <2>2 DEF UnescapedInPlace
  <2>3. CASE w = WriteAt /\ cur_offset_' - esc_count' = WriteAt + Len(s)
    <3>1. /\ WriteAt = cur_tok_.start + Len(decoded)
          /\ \A i \in 1 .. Len(decoded) : ptr_[cur_tok_.start + i - 1] = decoded[i]
      BY DEF TextInv, UnescapedInPlace
    <3>2. WriteAt' = cur_tok_'.start + Len(decoded')
      BY <1>o, <1>1, <2>3, <3>1 DEF WriteAt
    <3>3. ASSUME NEW i \in 1 .. Len(decoded')
          PROVE  ptr_'[cur_tok_.start + i - 1] = decoded'[i]
      <4>a. Len(decoded) \in Nat /\ Len(s) \in Nat
        BY <1>o
      <4>b. w = cur_tok_.start + Len(decoded)
        BY <2>3, <3>1
      <4>c. i \in Nat
        OBVIOUS
      <4>0. /\ Len(decoded) \in Nat /\ Len(s) \in Nat /\ w = cur_tok_.start + Len(decoded)
            /\ i \in Nat
        BY <4>a, <4>b, <4>c
      <4>e. w + Len(s) <= len_
        BY <4>a, <1>o
      <4>1. CASE i <= Len(decoded)
        <5>1. i \in 1 .. Len(decoded)
          BY <4>0, <4>1, <1>1
        <5>2. decoded'[i] = decoded[i]
          BY <1>o, <5>1
        <5>a. i >= 1 /\ cur_tok_.start + Len(decoded) + Len(s) <= len_
          BY <4>b, <4>e, <5>1
        <5>3. cur_tok_.start + i - 1 \in 0 .. (len_ - 1) /\ cur_tok_.start + i - 1 < w
          BY <1>o, <4>0, <4>1, <5>a, BeforeRow
        <5>4. ptr_'[cur_tok_.start + i - 1] = ptr_[cur_tok_.start + i - 1]
          BY <1>f, <5>3
        <5> QED BY <3>1, <5>1, <5>2, <5>4
      <4>2. CASE i > Len(decoded)
        <5> DEFINE j == i - Len(decoded)
        <5>1. j \in 1 .. Len(s)
          BY <4>0, <4>2, <1>1
        <5>2. decoded'[i] = s[j]
          BY <1>o, <4>0, <5>1, <1>1, <4>2
        <5>3. w + j - 1 = cur_tok_.start + i - 1
          BY <1>o, <4>0
        <5> HIDE DEF j
        <5>a. w \in Nat
          BY <1>o, <4>a, <4>b
        <5>4. w \in Nat /\ j \in Nat /\ w + j <= w + Len(s) /\ j >= 1
          BY <4>a, <5>1, <5>a
        <5>6. w + j - 1 \in 0 .. (len_ - 1)
          BY <1>o, <4>0, <5>4, <4>e, InRow
        <5>7. ptr_'[w + j - 1] = s[j]
          BY <1>f, <5>1, <5>6
        <5> QED BY <5>2, <5>3, <5>7
      <4> QED BY <4>0, <4>1, <4>2, <1>1
    <3> QED BY <3>2, <3>3 DEF UnescapedInPlace
  <2> QED BY <2>1, <2>2, <2>3
<1> QED BY <1>f, <1>1, <1>2, <1>3

\* The steps that begin a string.
LEMMA StringStarts ==
    ASSUME TextInv, NotAComment \/ BlockCommentEnds \/ QuoteToken \/ PlainToken
    PROVE  TextInv'
<1>o. ReaderTypeOK /\ cur_tok_ \in Token
  BY DEF TextInv, ReaderTypeOK
<1>t. /\ cur_offset_ \in 0 .. len_ /\ Here \in Byte
      /\ Take(cur_offset_) \in 0 .. len_ /\ Take(cur_offset_) >= cur_offset_
      /\ Take(Take(cur_offset_)) \in 0 .. len_ /\ Take(Take(cur_offset_)) >= Take(cur_offset_)
      /\ Here # 0 => /\ Take(cur_offset_) = cur_offset_ + 1
                     /\ Here = ptr_[cur_offset_]
  BY <1>o, AtCursor
<1>q. ASSUME NEW o \in 0 .. len_, o >= cur_offset_, QuoteString(o),
             UNCHANGED <<ptr_, len_, pending, original>>,
             do_next' \in BOOLEAN, g_has_error' \in BOOLEAN
      PROVE  TextInv'
  <2>1. Take(o) \in 0 .. len_ /\ Take(o) >= o /\ Take(o) \in Nat
    BY <1>o, <1>q, ReadTake DEF ReaderTypeOK
  <2>2. cur_tok_' \in Token
    BY <1>o, <1>q, <2>1, NewToken, TokenAt DEF QuoteString, TokenTypes
  <2>3. cur_tok_'.start = Take(o)
    BY <1>q DEF QuoteString, TokenStart
  <2>4. decoded' = <<>> /\ esc_count' = 0 /\ lex' = "quoted" /\ cur_offset_' = Take(o)
    BY <1>q DEF QuoteString
  <2>5. ReaderTypeOK'
    BY <1>o, <1>q, <2>1, <2>2, <2>4 DEF ReaderTypeOK
  <2>6. cur_offset_' >= cur_offset_ /\ cur_offset_' = cur_tok_'.start + Len(decoded')
    BY <1>t, <1>q, <2>1, <2>3, <2>4 DEF ReaderTypeOK
  <2>7. \A i \in 1 .. Len(decoded') : ptr_[cur_tok_'.start + i - 1] = decoded'[i]
    BY <2>4
  <2> QED BY <1>q, <2>4, <2>5, <2>6, <2>7, StringBegins
<1>1. CASE NotAComment
  BY <1>o, <1>t, <1>1, <1>q DEF NotAComment, Slash, Error, ReaderTypeOK
<1>2. CASE BlockCommentEnds
  <2>1. /\ Take(Take(cur_offset_)) >= cur_offset_ /\ QuoteString(Take(Take(cur_offset_)))
        /\ UNCHANGED <<ptr_, len_, pending, original>>
    BY <1>t, <1>2 DEF BlockCommentEnds
  <2>2. do_next' \in BOOLEAN
    BY <1>2, Zenon DEF BlockCommentEnds
  <2>3. g_has_error' \in BOOLEAN
    BY <1>2, Zenon DEF BlockCommentEnds, Error
  <2> QED BY <1>t, <2>1, <2>2, <2>3, <1>q
<1>3. CASE QuoteToken
  BY <1>o, <1>t, <1>3, <1>q DEF QuoteToken, ReaderTypeOK
<1>4. CASE PlainToken
  <2>1. cur_tok_' \in Token
    BY <1>o, <1>4, NewToken DEF PlainToken, TokenTypes
  <2>2. cur_tok_'.start = cur_offset_
    BY <1>4 DEF PlainToken, TokenStart
  <2>3. Here # 0
    BY <1>4 DEF PlainToken, OtherToken
  <2>4. decoded' = <<Here>> /\ cur_offset_' = cur_offset_ + 1 /\ esc_count' = 0 /\ lex' = "plain"
    BY <1>t, <1>4, <2>3 DEF PlainToken, OtherToken
  <2>5. decoded' \in Seq(Byte) /\ Len(decoded') = 1 /\ decoded'[1] = Here
    BY <1>t, <2>4
  <2>6. ReaderTypeOK'
    BY <1>o, <1>t, <1>4, <2>1, <2>4, <2>5 DEF PlainToken, OtherToken, ReaderTypeOK
  <2>7. cur_offset_' = cur_tok_'.start + Len(decoded') /\ cur_offset_' >= cur_offset_
    BY <1>t, <2>2, <2>4, <2>5
  <2>8. ASSUME NEW i \in 1 .. Len(decoded')
        PROVE  ptr_[cur_tok_'.start + i - 1] = decoded'[i]
    <3>1. i = 1
      BY <2>5
    <3> QED BY <1>t, <2>2, <2>3, <2>5, <3>1
  <2> QED BY <1>4, <2>4, <2>6, <2>7, <2>8, StringBegins DEF PlainToken, OtherToken
<1> QED BY <1>1, <1>2, <1>3, <1>4

\* The steps that end a string.
LEMMA StringStops ==
    ASSUME TextInv, QuotedEnds \/ QuotedFails \/ QuotedUnknown \/ PlainEnds \/ PlainFails
    PROVE  TextInv'
<1>o. ReaderTypeOK /\ cur_tok_ \in Token /\ esc_count \in Nat /\ len_ \in Nat
  BY DEF TextInv, ReaderTypeOK
<1>t. /\ cur_offset_ \in 0 .. len_
      /\ Take(cur_offset_) \in 0 .. len_ /\ Take(cur_offset_) >= cur_offset_
  BY <1>o, AtCursor
<1>e. ASSUME NEW o \in 0 .. len_, o >= cur_offset_, pending > 0, StringEnds(o)
      PROVE  TextInv'
  <2>1. cur_offset_ - esc_count - cur_tok_.start \in Int
    BY <1>o, <1>t, TokenFields
  <2>2. cur_tok_' \in Token
    BY <1>o, <1>e, <2>1, TokenLen DEF StringEnds
  <2>3. g_has_error' \in BOOLEAN
    BY <1>o, <1>e DEF StringEnds, ReaderTypeOK
  <2> QED BY <1>e, <2>2, <2>3, QuietReturn DEF StringEnds
<1>f. ASSUME NEW o \in 0 .. len_, o >= cur_offset_, pending > 0, StringFails(o)
      PROVE  TextInv'
  <2>1. g_has_error' \in BOOLEAN
    BY <1>f, Zenon DEF StringFails, Error
  <2> QED BY <1>o, <1>f, <2>1, QuietReturn DEF StringFails
<1>1. CASE QuotedEnds
  BY <1>t, <1>1, <1>e DEF QuotedEnds, InNext
<1>2. CASE QuotedFails
  BY <1>t, <1>2, <1>f DEF QuotedFails, InNext
<1>3. CASE QuotedUnknown
  BY <1>t, <1>3, <1>f DEF QuotedUnknown, InEscape, InNext, EscapeAt
<1>4. CASE PlainEnds
  BY <1>t, <1>4, <1>e DEF PlainEnds, InNext
<1>5. CASE PlainFails
  BY <1>t, <1>5, <1>f DEF PlainFails, InNext
<1> QED BY <1>1, <1>2, <1>3, <1>4, <1>5

\* Storing a character where it stands changes nothing.
LEMMA FillSame ==
    ASSUME ReaderTypeOK, NEW o \in 0 .. (len_ - 1)
    PROVE  Fill(o, <<ptr_[o]>>) = ptr_
  BY DEF Fill, ReaderTypeOK

\* One character, or one escape of two, becomes the next character.
LEMMA NextCharStored ==
    ASSUME TextInv, lex \in {"quoted", "plain"}, Here # 0,
           NEW o \in 0 .. len_, NEW x \in Byte, NEW esc \in Nat,
           \/ o = cur_offset_ /\ esc = esc_count /\ x = Here
           \/ o = cur_offset_ + 1 /\ esc = esc_count + 1,
           NextChar(o, x, esc), g_has_error' \in BOOLEAN
    PROVE  TextInv'
<1>o. /\ ReaderTypeOK /\ len_ \in Nat /\ cur_offset_ \in 0 .. len_ /\ esc_count \in Nat
      /\ decoded \in Seq(Byte)
  BY DEF TextInv, ReaderTypeOK
<1>t. cur_offset_ < len_ /\ Here = ptr_[cur_offset_] /\ Take(cur_offset_) = cur_offset_ + 1
  BY <1>o, AtCursor
<1>r. /\ Take(o) \in 0 .. len_ /\ Take(o) >= o
      /\ Read(o) # 0 => Take(o) = o + 1
      /\ Read(o) = 0 => Take(o) = o
  BY <1>o, ReadTake
<1>1. o - esc = WriteAt
  BY <1>o DEF WriteAt
<1>2. ptr_' = Fill(WriteAt, <<x>>)
  <2>1. CASE esc = 0
    <3>1. o = cur_offset_ /\ x = ptr_[cur_offset_] /\ WriteAt = cur_offset_
      BY <1>o, <1>t, <1>1, <2>1
    <3>2. Fill(cur_offset_, <<ptr_[cur_offset_]>>) = ptr_
      BY <1>o, <1>t, FillSame
    <3> QED BY <2>1, <3>1, <3>2 DEF NextChar
  <2>2. CASE esc # 0
    BY <1>1, <2>2 DEF NextChar
  <2> QED BY <2>1, <2>2
<1>3. decoded' = decoded \o <<x>> /\ <<x>> \in Seq(Byte) /\ Len(<<x>>) = 1
  BY <1>o DEF NextChar
<1>4. /\ UNCHANGED <<len_, cur_tok_, lex, original, do_next, pending>>
      /\ cur_offset_' = Take(o) /\ esc_count' = esc
  BY DEF NextChar
<1>5. cur_offset_' \in 0 .. len_ /\ cur_offset_' >= cur_offset_ + 1
  <2>1. CASE o = cur_offset_
    BY <1>o, <1>t, <1>r, <1>4, <2>1
  <2>2. CASE o = cur_offset_ + 1
    BY <1>o, <1>r, <1>4, <2>2
  <2> QED BY <2>1, <2>2
<1>6. WriteAt \in Int /\ WriteAt + Len(<<x>>) <= cur_offset_'
  BY <1>o, <1>3, <1>5 DEF WriteAt
<1>7. Read(cur_offset_') = 0 \/ cur_offset_' - esc_count' = WriteAt + Len(<<x>>)
  <2>1. CASE Read(o) = 0
    BY <1>r, <1>4, <2>1
  <2>2. CASE Read(o) # 0
    BY <1>o, <1>r, <1>1, <1>3, <1>4, <2>2
  <2> QED BY <2>1, <2>2
<1>a. /\ cur_offset_' \in 0 .. len_ /\ cur_offset_' >= cur_offset_ /\ esc_count' \in Nat
      /\ UNCHANGED <<len_, cur_tok_, lex, original>>
  BY <1>o, <1>4, <1>5
<1>8. /\ ptr_' \in [0 .. (len_' - 1) -> Byte]
      /\ decoded' \in Seq(Byte) /\ UnreadIsKept' /\ UnescapedInPlace'
  BY <1>2, <1>3, <1>6, <1>7, <1>a, BytesStored
<1>9. ReaderTypeOK'
  BY <1>o, <1>4, <1>5, <1>8 DEF ReaderTypeOK
<1> QED BY <1>8, <1>9 DEF TextInv

\* The steps that store one character.
LEMMA CharSteps ==
    ASSUME TextInv,
           QuotedChar \/ QuotedLetter \/ QuotedSame \/ PlainChar \/ PlainLetter \/ PlainUnknown
    PROVE  TextInv'
<1>o. ReaderTypeOK /\ esc_count \in Nat /\ len_ \in Nat /\ g_has_error \in BOOLEAN
  BY DEF TextInv, ReaderTypeOK
<1>t. /\ cur_offset_ \in 0 .. len_ /\ Here \in Byte
      /\ Take(cur_offset_) \in 0 .. len_
      /\ Here # 0 => Take(cur_offset_) = cur_offset_ + 1
  BY <1>o, AtCursor
<1>x. EscapeAt \in 0 .. len_ /\ Escaped \in Byte
  BY <1>o, <1>t, ReadTake DEF EscapeAt, Escaped
<1>e. BACKSLASH # 0 /\ esc_count + 1 \in Nat
  BY <1>o DEF BACKSLASH
<1>1. ASSUME NEW terminators, lex \in {"quoted", "plain"}, StringChar(terminators)
      PROVE  TextInv'
  <2>1. Here # 0 /\ NextChar(cur_offset_, Here, esc_count) /\ g_has_error' \in BOOLEAN
    BY <1>o, <1>1 DEF StringChar, NoError
  <2> QED BY <1>o, <1>t, <1>1, <2>1, NextCharStored
<1>2. ASSUME NEW x \in Byte, lex \in {"quoted", "plain"}, Here = BACKSLASH,
             NextChar(EscapeAt, x, esc_count + 1), g_has_error' \in BOOLEAN
      PROVE  TextInv'
  <2>1. Here # 0 /\ EscapeAt = cur_offset_ + 1
    BY <1>t, <1>e, <1>2 DEF EscapeAt
  <2> QED BY <1>x, <1>e, <1>2, <2>1, NextCharStored
<1>3. ASSUME NEW mode \in {"quoted", "plain"}, LetterEscape(mode)
      PROVE  TextInv'
  <2>1. Escaped \in Letters /\ lex = mode /\ Here = BACKSLASH
    BY <1>3 DEF LetterEscape, InEscape, InNext
  <2>2. LetterEscapes[Escaped] \in Byte
    BY <2>1 DEF Letters, LetterEscapes, Byte, BS, TAB, LF, FF, CR
  <2>3. g_has_error' \in BOOLEAN
    BY <1>o, <1>3 DEF LetterEscape, NoError
  <2> QED BY <1>2, <1>3, <2>1, <2>2, <2>3 DEF LetterEscape
<1>4. CASE QuotedChar
  BY <1>1, <1>4 DEF QuotedChar, InNext
<1>5. CASE PlainChar
  BY <1>1, <1>5 DEF PlainChar, InNext
<1>6. CASE QuotedLetter
  BY <1>3, <1>6 DEF QuotedLetter
<1>7. CASE PlainLetter
  BY <1>3, <1>7 DEF PlainLetter
<1>8. CASE QuotedSame
  BY <1>o, <1>x, <1>2, <1>8 DEF QuotedSame, InEscape, InNext, NoError
<1>9. CASE PlainUnknown
  <2>1. g_has_error' \in BOOLEAN
    BY <1>9, Zenon DEF PlainUnknown, Error
  <2> QED BY <1>x, <1>2, <1>9, <2>1 DEF PlainUnknown, InEscape, InNext
<1> QED BY <1>4, <1>5, <1>6, <1>7, <1>8, <1>9

\* Two characters are taken, or the text ends behind one or none of them.
LEMMA TakeTwo ==
    ASSUME ReaderTypeOK, NEW o \in 0 .. len_
    PROVE  /\ Take(Take(o)) \in 0 .. len_ /\ Take(Take(o)) >= o
           /\ \/ Take(Take(o)) = o + 2
              \/ Take(Take(o)) < o + 2 /\ Read(Take(Take(o))) = 0
<1>1. /\ Take(o) \in 0 .. len_ /\ Take(o) >= o
      /\ Read(o) # 0 => Take(o) = o + 1
      /\ Read(o) = 0 => Take(o) = o
  BY ReadTake
<1>2. /\ Take(Take(o)) \in 0 .. len_ /\ Take(Take(o)) >= Take(o)
      /\ Read(Take(o)) # 0 => Take(Take(o)) = Take(o) + 1
      /\ Read(Take(o)) = 0 => Take(Take(o)) = Take(o)
  BY <1>1, ReadTake
<1>3. len_ \in Nat
  BY DEF ReaderTypeOK
<1>4. CASE Read(o) = 0
  BY <1>1, <1>2, <1>3, <1>4
<1>5. CASE Read(o) # 0 /\ Read(Take(o)) = 0
  BY <1>1, <1>2, <1>3, <1>5
<1>6. CASE Read(o) # 0 /\ Read(Take(o)) # 0
  BY <1>1, <1>2, <1>3, <1>6
<1> QED BY <1>4, <1>5, <1>6

\* Four digits of up to 16 each.
LEMMA FourDigits ==
    ASSUME NEW a \in 0 .. 16, NEW b \in 0 .. 16, NEW c \in 0 .. 16, NEW d \in 0 .. 16
    PROVE  /\ a * 4096 + b * 256 + c * 16 + d \in Nat
           /\ a * 4096 + b * 256 + c * 16 + d <= 69904
  OBVIOUS

\* read_utf takes four characters, or the text ends before.
LEMMA UtfRead ==
    ASSUME ReaderTypeOK, NEW o \in 0 .. len_
    PROVE  /\ ReadUtf(o).value \in Nat /\ ReadUtf(o).value <= 69904
           /\ ReadUtf(o).bad \in BOOLEAN
           /\ ReadUtf(o).next \in 0 .. len_
           /\ \/ ReadUtf(o).next = o + 4
              \/ ReadUtf(o).next < o + 4 /\ ReadUtf(o).next >= o /\ Read(ReadUtf(o).next) = 0
<1> DEFINE o2 == Take(o)
           o3 == Take(o2)
           o4 == Take(o3)
<1>1. len_ \in Nat
  BY DEF ReaderTypeOK
<1>2. o2 \in 0 .. len_ /\ o3 \in 0 .. len_ /\ o4 \in 0 .. len_
  BY ReadTake
<1>3. /\ Hex(Read(o)) \in 0 .. 16 /\ Hex(Read(o2)) \in 0 .. 16
      /\ Hex(Read(o3)) \in 0 .. 16 /\ Hex(Read(o4)) \in 0 .. 16
  BY <1>2, ReadTake, HexRange
<1>4. ReadUtf(o).value = Hex(Read(o)) * 4096 + Hex(Read(o2)) * 256 + Hex(Read(o3)) * 16
                            + Hex(Read(o4))
  BY DEF ReadUtf
<1>5. ReadUtf(o).value \in Nat /\ ReadUtf(o).value <= 69904
  <2> DEFINE a == Hex(Read(o))
             b == Hex(Read(o2))
             c == Hex(Read(o3))
             d == Hex(Read(o4))
  <2>1. a \in 0 .. 16 /\ b \in 0 .. 16 /\ c \in 0 .. 16 /\ d \in 0 .. 16
    BY <1>3
  <2>2. ReadUtf(o).value = a * 4096 + b * 256 + c * 16 + d
    BY <1>4
  <2> HIDE DEF a, b, c, d
  <2>3. a * 4096 + b * 256 + c * 16 + d \in Nat /\ a * 4096 + b * 256 + c * 16 + d <= 69904
    BY <2>1, FourDigits
  <2> QED BY <2>2, <2>3
<1>6. ReadUtf(o).bad \in BOOLEAN
  BY Zenon DEF ReadUtf
<1>7. ReadUtf(o).next = Take(Take(o3))
  BY DEF ReadUtf
<1>8. /\ o3 \in 0 .. len_ /\ o3 >= o
      /\ o3 = o + 2 \/ (o3 < o + 2 /\ Read(o3) = 0)
  BY TakeTwo
<1>9. /\ Take(Take(o3)) \in 0 .. len_ /\ Take(Take(o3)) >= o3
      /\ \/ Take(Take(o3)) = o3 + 2
         \/ Take(Take(o3)) < o3 + 2 /\ Read(Take(Take(o3))) = 0
  BY <1>2, TakeTwo
<1>10. Read(o3) = 0 => Take(Take(o3)) = o3
  BY <1>2, ReadTake
<1> HIDE DEF o2, o3, o4
<1>11. \/ Take(Take(o3)) = o + 4
       \/ Take(Take(o3)) < o + 4 /\ Take(Take(o3)) >= o /\ Read(Take(Take(o3))) = 0
  <2>1. CASE o3 = o + 2
    BY <1>1, <1>9, <2>1
  <2>2. CASE o3 < o + 2 /\ Read(o3) = 0
    BY <1>1, <1>8, <1>10, <2>2
  <2> QED BY <1>8, <2>1, <2>2
<1> QED BY <1>5, <1>6, <1>7, <1>9, <1>11

\* Six characters less the one to three bytes stored, and one letter more.
LEMMA SixLess == ASSUME NEW e \in Nat, NEW n \in 1 .. 3 PROVE e + 6 - n \in Nat
  OBVIOUS

LEMMA ThreeAndOne ==
    ASSUME NEW n \in 1 .. 3, NEW m \in 0 .. 1 PROVE n + m \in Nat /\ n + m <= 4
  OBVIOUS

\* An escape of six characters is replaced by one to three bytes, and one more
\* letter in a string without quotes.
LEMMA UnicodeSteps ==
    ASSUME TextInv, NEW mode \in {"quoted", "plain"}, NEW more \in {<<>>, <<Letter_u>>},
           UnicodeEscape(mode, more)
    PROVE  TextInv'
<1> DEFINE o == Take(EscapeAt)
           r == ReadUtf(o)
           u == Utf8(r.value)
           s == u \o more
           w == r.next - (esc_count + 6)
<1>o. /\ ReaderTypeOK /\ len_ \in Nat /\ esc_count \in Nat /\ cur_offset_ \in 0 .. len_
      /\ decoded \in Seq(Byte) /\ g_has_error \in BOOLEAN
  BY DEF TextInv, ReaderTypeOK
<1>1. Here # 0 /\ Escaped # 0 /\ lex \in {"quoted", "plain"}
  BY DEF UnicodeEscape, InEscape, InNext, BACKSLASH, Letter_u
<1>2. EscapeAt = cur_offset_ + 1 /\ EscapeAt \in 0 .. len_
  BY <1>o, <1>1, AtCursor DEF EscapeAt
<1>3. o = cur_offset_ + 2 /\ o \in 0 .. len_
  BY <1>o, <1>1, <1>2, ReadTake DEF Escaped
<1>4. /\ r.value \in Nat /\ r.value <= 69904 /\ r.bad \in BOOLEAN /\ r.next \in 0 .. len_
      /\ r.next = o + 4 \/ (r.next < o + 4 /\ r.next >= o /\ Read(r.next) = 0)
  BY <1>o, <1>3, UtfRead
<1>5. u \in Seq(Byte) /\ Len(u) \in 1 .. 3
  BY <1>4, Utf8Bytes
<1>6. more \in Seq(Byte) /\ Len(more) \in 0 .. 1 /\ (more = <<>> => Len(more) = 0)
      /\ (more # <<>> => Len(more) = 1)
  <2>1. CASE more = <<>>
    BY <2>1
  <2>2. CASE more = <<Letter_u>>
    <3>1. Letter_u \in Byte
      BY DEF Letter_u, Byte
    <3> QED BY <2>2, <3>1
  <2> QED BY <2>1, <2>2
<1>7. s \in Seq(Byte) /\ Len(s) = Len(u) + Len(more) /\ Len(s) \in Nat
  BY <1>5, <1>6
<1>8. /\ ptr_' = Fill(w, s) /\ decoded' = decoded \o s
      /\ esc_count' = esc_count + 6 - Len(u)
      /\ cur_offset_' = IF more = <<>> THEN r.next ELSE Take(r.next)
      /\ UNCHANGED <<len_, cur_tok_, lex, do_next, pending, original>>
      /\ g_has_error' = (g_has_error \/ r.bad)
  BY DEF UnicodeEscape
<1>9. /\ Take(r.next) \in 0 .. len_ /\ Take(r.next) >= r.next
      /\ Read(r.next) # 0 => Take(r.next) = r.next + 1
      /\ Read(r.next) = 0 => Take(r.next) = r.next
  BY <1>o, <1>4, ReadTake
<1>10. g_has_error' \in BOOLEAN
  BY <1>8, Zenon
<1> HIDE DEF o, r, u, s
<1>11. esc_count' \in Nat
  <2>1. esc_count' = esc_count + 6 - Len(u)
    BY <1>8
  <2> QED BY <1>o, <1>5, <2>1, SixLess
<1>12. cur_offset_' \in 0 .. len_ /\ cur_offset_' >= r.next
  BY <1>o, <1>4, <1>8, <1>9
<1>13. w \in Int /\ w + Len(s) <= cur_offset_'
  <2>1. r.next \in Int /\ cur_offset_' \in Int /\ cur_offset_' >= r.next
    BY <1>o, <1>4, <1>12
  <2>2. Len(s) \in Nat /\ Len(s) <= 4
    BY <1>5, <1>6, <1>7, ThreeAndOne
  <2>3. w = r.next - (esc_count + 6)
    OBVIOUS
  <2> HIDE DEF w
  <2> QED BY <1>o, <2>1, <2>2, <2>3
<1>14. cur_offset_' >= cur_offset_
  BY <1>o, <1>3, <1>4, <1>12
<1>15. Read(cur_offset_') = 0 \/ (w = WriteAt /\ cur_offset_' - esc_count' = WriteAt + Len(s))
  <2>1. CASE Read(r.next) = 0
    BY <1>8, <1>9, <2>1
  <2>2. CASE Read(r.next) # 0 /\ r.next = o + 4
    <3>1. w = WriteAt
      BY <1>o, <1>3, <2>2 DEF WriteAt
    <3>2. r.next = cur_offset_ + 6
      BY <1>o, <1>3, <2>2
    <3>3. cur_offset_' = r.next + Len(more)
      <4>1. r.next \in Int /\ Take(r.next) = r.next + 1
        BY <1>4, <1>9, <2>2
      <4>2. CASE more = <<>>
        <5>1. cur_offset_' = r.next /\ Len(more) = 0
          BY <1>6, <1>8, <4>2
        <5> QED BY <4>1, <5>1
      <4>3. CASE more # <<>>
        <5>1. cur_offset_' = Take(r.next) /\ Len(more) = 1
          BY <1>6, <1>8, <4>3
        <5> QED BY <4>1, <5>1
      <4> QED BY <4>2, <4>3
    <3>4. cur_offset_' - esc_count' = WriteAt + Len(s)
      BY <1>o, <1>5, <1>6, <1>7, <1>8, <3>2, <3>3 DEF WriteAt
    <3> QED BY <3>1, <3>4
  <2> QED BY <1>4, <2>1, <2>2
<1> HIDE DEF w
<1>16. /\ ptr_' \in [0 .. (len_' - 1) -> Byte]
       /\ decoded' \in Seq(Byte) /\ UnreadIsKept' /\ UnescapedInPlace'
  BY <1>1, <1>7, <1>8, <1>11, <1>12, <1>13, <1>14, <1>15, BytesStored
<1>17. ReaderTypeOK'
  BY <1>o, <1>8, <1>10, <1>11, <1>12, <1>16 DEF ReaderTypeOK
<1> QED BY <1>16, <1>17 DEF TextInv

-----------------------------------------------------------------------------
(* All steps *)

LEMMA InitText == ASSUME ReaderInit PROVE TextInv
<1>1. cur_tok_ \in Token
  BY UninitializedAssumption DEF ReaderInit
<1>2. /\ len_ \in Nat /\ original \in [0 .. (len_ - 1) -> Ascii] /\ ptr_ = original
  BY DEF ReaderInit
<1>3. \A c \in Ascii : c \in Byte
  BY DEF Ascii, Byte
<1>4. ptr_ \in [0 .. (len_ - 1) -> Byte]
  BY <1>2, <1>3
<1>5. cur_offset_ \in 0 .. len_ /\ decoded \in Seq(Byte)
  BY <1>2 DEF ReaderInit
<1>6. do_next \in BOOLEAN /\ g_has_error \in BOOLEAN
  BY Zenon DEF ReaderInit
<1>7. esc_count \in Nat /\ pending \in Nat /\ lex = "skip"
  BY DEF ReaderInit
<1>8. ReaderTypeOK
  BY <1>1, <1>2, <1>4, <1>5, <1>6, <1>7 DEF ReaderTypeOK
<1> QED BY <1>8 DEF ReaderInit, TextInv, UnreadIsKept, UnescapedInPlace

LEMMA StepText ==
    ASSUME TextInv, [LexStep \/ CallNext]_<<readerVars, g_has_error>>
    PROVE  TextInv'
<1>1. CASE LexStep
  <2>1. CASE ReadQuoted
    <3>1. CASE QuotedUnicode
      BY <3>1, UnicodeSteps DEF QuotedUnicode
    <3> QED BY <2>1, <3>1, CharSteps, StringStops DEF ReadQuoted
  <2>2. CASE ReadPlain
    <3>1. CASE PlainUnicode
      BY <3>1, UnicodeSteps DEF PlainUnicode
    <3> QED BY <2>2, <3>1, CharSteps, StringStops DEF ReadPlain
  <2> QED BY <1>1, <2>1, <2>2, BetweenStrings, InNumbers, StringStarts DEF LexStep
<1>2. CASE CallNext
  <2>1. ReaderTypeOK'
    BY <1>2 DEF CallNext, TextInv, ReaderTypeOK
  <2> QED BY <1>2, <2>1 DEF CallNext, TextInv, UnreadIsKept, UnescapedInPlace, WriteAt, Here, Read
<1>3. CASE UNCHANGED <<readerVars, g_has_error>>
  BY <1>3 DEF readerVars, TextInv, ReaderTypeOK, UnreadIsKept, UnescapedInPlace, WriteAt, Here,
              Read
<1> QED BY <1>1, <1>2, <1>3

\* The start of a token that is changed in its other fields.
LEMMA SameStart ==
    ASSUME NEW t \in Token, NEW x, NEW y
    PROVE  /\ [t EXCEPT !.len = x].start = t.start
           /\ [t EXCEPT !.neg = x].start = t.start
           /\ [t EXCEPT !.type = x].start = t.start
           /\ [t EXCEPT !.num = x, !.scale = y].start = t.start
  BY DEF Token

\* A token begins at the cursor, or behind a quote at it.
LEMMA StartsInText ==
    ASSUME ReaderTypeOK
    PROVE  /\ \A type \in TokenTypes : \A x :
                /\ TokenStart(type).start \in 0 .. len_
                /\ [TokenStart(type) EXCEPT !.len = x].start \in 0 .. len_
                /\ [TokenStart(type) EXCEPT !.num = x].start \in 0 .. len_
                /\ [TokenStart(type) EXCEPT !.neg = x].start \in 0 .. len_
           /\ \A o \in 0 .. len_ : QuoteString(o) => cur_tok_'.start \in 0 .. len_
<1>1. cur_offset_ \in 0 .. len_
  BY AtCursor
<1>2. \A o \in 0 .. len_ : Take(o) \in 0 .. len_
  BY ReadTake
<1> QED BY <1>1, <1>2 DEF TokenStart, QuoteString

\* Whatever next() does, its token begins in the text or at the zero behind it.
LEMMA TokenInText ==
    ASSUME TextInv, TextInv', LooksAtText, LexStep
    PROVE  LooksAtText'
<1> DEFINE Inside == len_' = len_ /\ cur_tok_'.start \in 0 .. len_
<1>a. SUFFICES Inside
  BY DEF LooksAtText, TextInv, ReaderTypeOK
<1>o. ReaderTypeOK /\ cur_tok_ \in Token /\ cur_tok_.start \in 0 .. len_
  BY DEF TextInv, ReaderTypeOK, LooksAtText
<1>t. /\ cur_offset_ \in 0 .. len_ /\ Take(cur_offset_) \in 0 .. len_
      /\ Take(Take(cur_offset_)) \in 0 .. len_
  BY <1>o, AtCursor
<1>s. {"t_end", "t_ctrl", "t_uint", "t_int", "t_string"} \subseteq TokenTypes
  BY DEF TokenTypes
<1>k. UNCHANGED <<len_, cur_tok_>> => Inside
  BY <1>o
<1>1. CASE SkipBlank \/ InLineComment \/ InBlockComment \/ BlockCommentCut
  BY <1>1, <1>k DEF SkipBlank, InLineComment, InBlockComment, BlockCommentCut
<1>2. CASE EndToken \/ CtrlToken
  BY <1>2, <1>o, <1>s, StartsInText DEF EndToken, CtrlToken
<1>3. CASE NumberToken \/ PlainToken
  BY <1>3, <1>o, <1>s, StartsInText DEF NumberToken, PlainToken, OtherToken
<1>4. CASE QuoteToken \/ NotAComment \/ BlockCommentEnds
  BY <1>4, <1>o, <1>t, StartsInText DEF QuoteToken, NotAComment, Slash, BlockCommentEnds
<1>5. CASE CommentBegins
  BY <1>5, <1>o, SameStart DEF CommentBegins, Slash
<1>6. CASE ReadNumber
  <2>1. CASE NumberDigit
    <3>1. cur_tok_'.start = cur_tok_.start
      BY <2>1, <1>o DEF NumberDigit, Token
    <3> QED BY <2>1, <1>o, <3>1 DEF NumberDigit
  <2>2. CASE NumberDot \/ NumberEnds
    <3>1. \A n : [cur_tok_ EXCEPT !.len = n].start = cur_tok_.start
      BY <1>o, SameStart
    <3>2. [cur_tok_ EXCEPT !.type = "t_number"].start = cur_tok_.start
      BY <1>o, SameStart
    <3> QED BY <2>2, <1>o, <3>1, <3>2 DEF NumberDot, NumberEnds
  <2> QED BY <1>6, <2>1, <2>2 DEF ReadNumber
<1>c. \A o, x, esc : NextChar(o, x, esc) => Inside
  BY <1>k DEF NextChar
<1>u. \A mode, more : UnicodeEscape(mode, more) => Inside
  BY <1>k DEF UnicodeEscape
<1>e. \A o : StringEnds(o) => Inside
  BY <1>o, SameStart DEF StringEnds
<1>f. \A o : StringFails(o) => Inside
  BY <1>k DEF StringFails
<1>7. CASE ReadQuoted
  BY <1>7, <1>c, <1>u, <1>e, <1>f, Zenon
     DEF ReadQuoted, QuotedChar, QuotedEnds, QuotedFails, QuotedLetter, QuotedSame, QuotedUnicode,
         QuotedUnknown, StringChar, LetterEscape
<1>8. CASE ReadPlain
  BY <1>8, <1>c, <1>u, <1>e, <1>f, Zenon
     DEF ReadPlain, PlainChar, PlainEnds, PlainFails, PlainLetter, PlainUnicode, PlainUnknown,
         StringChar, LetterEscape
<1> QED BY <1>1, <1>2, <1>3, <1>4, <1>5, <1>6, <1>7, <1>8 DEF LexStep

-----------------------------------------------------------------------------
(* The theorems *)

ReaderInv == TextInv /\ LooksAtText

LEMMA InitReader == ASSUME ReaderInit PROVE ReaderInv
<1>1. TextInv
  BY InitText
<1>2. len_ \in Nat /\ cur_offset_ = 0 /\ cur_tok_.start = 0
  BY UninitializedAssumption DEF ReaderInit
<1> QED BY <1>1, <1>2 DEF ReaderInv, LooksAtText

LEMMA StepReader ==
    ASSUME ReaderInv, [LexStep \/ CallNext]_<<readerVars, g_has_error>>
    PROVE  ReaderInv'
<1>1. TextInv'
  BY StepText DEF ReaderInv
<1>2. CASE LexStep
  BY <1>1, <1>2, TokenInText DEF ReaderInv
<1>3. CASE CallNext
  BY <1>1, <1>3 DEF CallNext, ReaderInv, LooksAtText
<1>4. CASE UNCHANGED <<readerVars, g_has_error>>
  BY <1>1, <1>4 DEF readerVars, ReaderInv, LooksAtText
<1> QED BY <1>2, <1>3, <1>4

\* The variables of reader_t keep their types, for any text and any client.
THEOREM TypeCorrect == ReaderSpec => []ReaderTypeOK
<1>1. ReaderInv => ReaderTypeOK
  BY DEF ReaderInv, TextInv
<1> QED BY <1>1, InitReader, StepReader, PTL DEF ReaderSpec

\* Whatever the text, take() and expect() look at nothing but the text and the zero
\* behind it: the cursor never gets further, and no token begins further on.
THEOREM LooksInside == ReaderSpec => []LooksAtText
<1>1. ReaderInv => LooksAtText
  BY DEF ReaderInv
<1> QED BY <1>1, InitReader, StepReader, PTL DEF ReaderSpec

\* Unescaping in place never reaches the text that is still to be read.
THEOREM UnreadKept == ReaderSpec => []UnreadIsKept
<1>1. ReaderInv => UnreadIsKept
  BY DEF ReaderInv, TextInv
<1> QED BY <1>1, InitReader, StepReader, PTL DEF ReaderSpec

\* The bytes of a string are where its token will say they are, for any text:
\* read_utf, esacpe_utf8 and fill_escape_char of parser_quote_string and
\* parser_string.
THEOREM Unescaped == ReaderSpec => []UnescapedInPlace
<1>1. ReaderInv => UnescapedInPlace
  BY DEF ReaderInv, TextInv
<1> QED BY <1>1, InitReader, StepReader, PTL DEF ReaderSpec
=============================================================================
