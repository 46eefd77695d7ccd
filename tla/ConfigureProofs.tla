---------------------------- MODULE ConfigureProofs ----------------------------
(***************************************************************************)
(* What holds of configure<T> for every type, every value it persists and   *)
(* every file it finds: the proofs about reader_t and string_stream are     *)
(* used for the reader and the stream of its calls.                         *)
(***************************************************************************)
EXTENDS Configure, JsonReaderProofs

ssp == INSTANCE StringStreamProofs WITH Unset <- None, Chunks <- {}, MaxLength <- 0, NoBytes <- None

-----------------------------------------------------------------------------
(* The stream *)
LEMMA Stream == ssp!StreamAssumption
  BY ConfigureParameters DEF ConfigureAssumption, ssp!StreamAssumption, Byte

LEMMA StreamBegins == ASSUME ss!Construct PROVE ssp!StreamInv
<1>1. ssp!Construct
  BY DEF ss!Construct, ssp!Construct
<1> QED BY <1>1, Stream, ssp!InitStream

LEMMA StreamBeginsAgain == ASSUME ss!ConstructAgain PROVE ssp!StreamInv'
<1>1. ssp!ConstructAgain
  BY DEF ss!ConstructAgain, ssp!ConstructAgain
<1> QED BY <1>1, Stream, ssp!InitAgain

LEMMA StreamWrites == ASSUME ssp!StreamInv, NEW s \in Seq(Byte), ss!Write(s) PROVE ssp!StreamInv'
<1>1. ssp!Write(s)
  BY DEF ss!Write, ssp!Write, ss!Grown, ssp!Grown, ss!GrownSize, ssp!GrownSize
<1> QED BY <1>1, Stream, ssp!WriteStep

LEMMA StreamIsKept == ASSUME ssp!StreamInv, UNCHANGED ssVars PROVE ssp!StreamInv'
  BY DEF ssVars, ssp!StreamInv, ssp!StreamTypeOK, ssp!PointersInside, ssp!ContentsKept

\* str() is the log.
LEMMA StrIsLog == ASSUME ssp!StreamInv PROVE ss!Str = log
<1>1. /\ write_ptr_ = Len(log) /\ log \in Seq(Byte)
      /\ \A i \in 1 .. Len(log) : buffer[i - 1] = log[i]
  BY DEF ssp!StreamInv, ssp!StreamTypeOK, ssp!ContentsKept
<1>2. ss!Str = [i \in 1 .. Len(log) |-> log[i]]
  BY <1>1 DEF ss!Str
<1> QED BY <1>1, <1>2

-----------------------------------------------------------------------------
(* The reader *)

\* A new reader: every text of 7-bit characters will do.
LEMMA ReaderBegins ==
    ASSUME NEW s \in Seq(Ascii), NEW tokens, \A tok \in tokens : tok \in Token /\ tok.start = 0,
           Construct(s, tokens), pending' \in Nat, g_has_error' \in BOOLEAN
    PROVE  ReaderInv'
<1>1. cur_tok_' \in Token /\ cur_tok_'.start = 0
  BY DEF Construct
<1>2. /\ len_' = Len(s) /\ ptr_' = [i \in 0 .. (Len(s) - 1) |-> s[i + 1]] /\ original' = ptr_'
      /\ cur_offset_' = 0 /\ esc_count' = 0 /\ lex' = "skip"
      /\ decoded' = <<>>
  BY DEF Construct
<1>3. Len(s) \in Nat /\ \A i \in 0 .. (Len(s) - 1) : s[i + 1] \in Ascii
  <2>1. Len(s) \in Nat
    OBVIOUS
  <2>2. ASSUME NEW i \in 0 .. (Len(s) - 1) PROVE s[i + 1] \in Ascii
    <3>1. i + 1 \in 1 .. Len(s)
      BY <2>1
    <3> QED BY <3>1
  <2> QED BY <2>1, <2>2
<1>4. original' \in [0 .. (len_' - 1) -> Ascii]
  BY <1>2, <1>3
<1>5. \A c \in Ascii : c \in Byte
  BY DEF Ascii, Byte
<1>6. ptr_' \in [0 .. (len_' - 1) -> Byte]
  BY <1>2, <1>4, <1>5
<1>7. do_next' \in BOOLEAN
  BY Zenon DEF Construct
<1>8. cur_offset_' \in 0 .. len_' /\ decoded' \in Seq(Byte) /\ esc_count' \in Nat
  BY <1>2, <1>3
<1>9. ReaderTypeOK'
  BY <1>1, <1>2, <1>3, <1>4, <1>6, <1>7, <1>8 DEF ReaderTypeOK
<1>10. LooksAtText'
  BY <1>1, <1>2, <1>3 DEF LooksAtText
<1> QED BY <1>2, <1>9, <1>10 DEF ReaderInv, TextInv, UnreadIsKept, UnescapedInPlace

\* A token that is not there, and one that is not initialized.
LEMMA TokensBegin ==
    /\ \A tok \in {NoToken} : tok \in Token /\ tok.start = 0
    /\ \A tok \in Uninitialized : tok \in Token /\ tok.start = 0
  BY UninitializedAssumption DEF NoToken, Token, TokenTypes

LEMMA ReaderEnds ==
    ASSUME Destroy, g_has_error' \in BOOLEAN
    PROVE  ReaderInv' /\ pending' = 0 /\ stack' = <<>>
<1>1. <<>> \in Seq(Ascii) /\ Construct(<<>>, {NoToken}) /\ pending' = 0 /\ stack' = <<>>
  BY DEF Destroy
<1> QED BY <1>1, TokensBegin, ReaderBegins

\* What a step of the readers above it does to reader_t.
FieldMoves ==
    /\ pending = 0 /\ stack # <<>>
    /\ pending' \in Nat
    /\ g_has_error' \in BOOLEAN
    /\ g_has_error => g_has_error'
    /\ UNCHANGED <<ptr_, len_, cur_offset_, cur_tok_, esc_count, lex, do_next, original, decoded>>

LEMMA Continues ==
    ASSUME NEW f, NEW n \in Nat, Continue(f, n) \/ Call(f, n)
    PROVE  /\ pending' \in Nat
           /\ UNCHANGED <<ptr_, len_, cur_offset_, cur_tok_, esc_count, lex, do_next, original,
                          decoded>>
  BY DEF Continue, Call

LEMMA Leaves ==
    ASSUME Leave
    PROVE  /\ pending' \in Nat
           /\ UNCHANGED <<ptr_, len_, cur_offset_, cur_tok_, esc_count, lex, do_next, original,
                          decoded>>
<1>1. CASE Len(stack) = 1
  BY <1>1, Continues DEF Leave
<1>2. CASE Len(stack) # 1
  BY <1>2 DEF Leave
<1> QED BY <1>1, <1>2

LEMMA Flags ==
    ASSUME g_has_error \in BOOLEAN, NEW bad_, Check(bad_) \/ NoError \/ Error
    PROVE  g_has_error' \in BOOLEAN /\ (g_has_error => g_has_error')
  BY Zenon DEF Check, NoError, Error

LEMMA FieldStepMoves == ASSUME FieldStep, g_has_error \in BOOLEAN PROVE FieldMoves
<1> DEFINE Kept == /\ pending' \in Nat
                   /\ UNCHANGED <<ptr_, len_, cur_offset_, cur_tok_, esc_count, lex, do_next,
                                  original, decoded>>
           Flag == g_has_error' \in BOOLEAN /\ (g_has_error => g_has_error')
           InCall == pending = 0 /\ stack # <<>>
           Moves == Kept /\ Flag /\ InCall
<1>c. \A f, n : n \in Nat /\ (Continue(f, n) \/ Call(f, n)) => Kept
  BY Continues
<1>l. Leave => Kept
  BY Leaves
<1>f. \A b : Check(b) \/ NoError \/ Error => Flag
  BY Flags
<1>a. \A ks, pl : At(ks, pl) => InCall
  BY DEF At
<1>n. 0 \in Nat /\ 1 \in Nat /\ 2 \in Nat /\ 3 \in Nat
  OBVIOUS
<1> HIDE DEF Kept, Flag, InCall
<1>1. ReadValue => Moves
  BY <1>c, <1>f, <1>a, <1>n, Zenon DEF ReadValue
<1>2. \A k, b : OpenContainer(k, b) => Moves
  BY <1>c, <1>f, <1>a, <1>n, Zenon DEF OpenContainer
<1>3. OpenStruct => Moves
  BY <1>c, <1>f, <1>a, <1>n, Zenon DEF OpenStruct
<1>4. NextElement => Moves
  BY <1>c, <1>l, <1>f, <1>a, <1>n, Zenon DEF NextElement
<1>5. NextKey => Moves
  BY <1>c, <1>l, <1>f, <1>a, <1>n, Zenon DEF NextKey
<1>6. KeyColon => Moves
  BY <1>c, <1>l, <1>f, <1>a, <1>n, Zenon DEF KeyColon
<1>7. MoreElements => Moves
  BY <1>c, <1>l, <1>f, <1>a, <1>n DEF MoreElements
<1>8. NextField => Moves
  BY <1>c, <1>l, <1>f, <1>a, <1>n DEF NextField
<1>9. FieldName => Moves
  BY <1>c, <1>l, <1>f, <1>a, <1>n, Zenon DEF FieldName
<1>10. FieldLoop => Moves
  <2>1. \A c : (IF c THEN 1 ELSE 0) \in Nat
    OBVIOUS
  <2> QED BY <1>c, <1>l, <1>f, <1>a, <2>1, Zenon DEF FieldLoop
<1>11. FieldKey => Moves
  BY <1>c, <1>l, <1>f, <1>a, <1>n, Zenon DEF FieldKey
<1>12. NextItem => Moves
  BY <1>c, <1>l, <1>f, <1>a, <1>n, Zenon DEF NextItem
<1>13. ItemAssigned => Moves
  BY <1>c, <1>l, <1>f, <1>a, <1>n, Zenon DEF ItemAssigned
<1>14. Moves
  BY <1>1, <1>2, <1>3, <1>4, <1>5, <1>6, <1>7, <1>8, <1>9, <1>10, <1>11, <1>12, <1>13
     DEF FieldStep, OpenVector, OpenMap
<1> QED BY <1>14 DEF FieldMoves, Kept, Flag, InCall

\* The reader's invariant is kept by the readers above it.
LEMMA FieldKeepsReader == ASSUME ReaderInv, FieldMoves PROVE ReaderInv'
<1>1. ReaderTypeOK'
  BY DEF FieldMoves, ReaderInv, TextInv, ReaderTypeOK
<1> QED
  BY <1>1 DEF FieldMoves, ReaderInv, TextInv, LooksAtText, UnreadIsKept, UnescapedInPlace,
             WriteAt, Here, Read

\* The tokenizer moves in a call of next() only, and never clears the error flag.
LEMMA LexKeepsFlag ==
    ASSUME LexStep, g_has_error \in BOOLEAN
    PROVE  pending > 0 /\ (g_has_error => g_has_error')
<1> DEFINE Flag == g_has_error => g_has_error'
           Same == g_has_error' = g_has_error
           Wrong(b) == g_has_error' = (g_has_error \/ b)
           Kept == pending > 0 /\ (Same \/ Error \/ \E b : Wrong(b))
<1>k. Kept => pending > 0 /\ Flag
  <2>1. Same => Flag
    OBVIOUS
  <2>2. Error => Flag
    BY Zenon DEF Error
  <2>3. \A b : Wrong(b) => Flag
    BY Zenon
  <2> HIDE DEF Same, Wrong, Flag
  <2> QED BY <2>1, <2>2, <2>3, Zenon
<1>n. \A m : InNext(m) => pending > 0
  BY DEF InNext
<1>1. CASE SkipBlank \/ EndToken \/ CtrlToken \/ QuoteToken \/ NumberToken \/ PlainToken
  <2>1. Kept
    BY <1>1, <1>n DEF SkipBlank, EndToken, CtrlToken, QuoteToken, NumberToken, PlainToken, OtherToken
  <2> QED BY <2>1, <1>k
<1>2. CASE CommentBegins \/ NotAComment \/ InLineComment \/ InBlockComment \/ BlockCommentEnds
           \/ BlockCommentCut
  <2>1. Kept
    BY <1>2, <1>n DEF CommentBegins, NotAComment, InLineComment, InBlockComment, BlockCommentEnds,
                     BlockCommentCut, Slash
  <2> QED BY <2>1, <1>k
<1>s. \A o : StringFails(o) => Error
  BY DEF StringFails
<1>e. \A o : StringEnds(o) => Same
  BY DEF StringEnds
<1>o. NoError => Same
  BY DEF NoError
<1>i. \A m, ls : InEscape(m, ls) => pending > 0
  BY <1>n DEF InEscape
<1>u. \A mode, more : UnicodeEscape(mode, more) => Kept
  BY <1>i DEF UnicodeEscape
<1>l. \A mode : LetterEscape(mode) => Kept
  BY <1>i DEF LetterEscape, NoError
<1>c. \A ts : StringChar(ts) => Same
  BY DEF StringChar, NoError
<1>3. CASE ReadQuoted
  <2> HIDE DEF Same
  <2>1. Kept
    BY <1>3, <1>s, <1>e, <1>u, <1>l, <1>c, <1>n, <1>i, <1>o, Zenon
     DEF ReadQuoted, QuotedChar, QuotedEnds, QuotedFails, QuotedLetter, QuotedSame, QuotedUnicode,
         QuotedUnknown
  <2> QED BY <2>1, <1>k
<1>4. CASE ReadPlain
  <2> HIDE DEF Same
  <2>1. Kept
    BY <1>4, <1>s, <1>e, <1>u, <1>l, <1>c, <1>n, <1>i, <1>o, Zenon
     DEF ReadPlain, PlainChar, PlainEnds, PlainFails, PlainLetter, PlainUnicode, PlainUnknown
  <2> QED BY <2>1, <1>k
<1>5. CASE ReadNumber
  <2>1. Kept
    BY <1>5, <1>n DEF ReadNumber, NumberDigit, NumberDot, NumberEnds
  <2> QED BY <2>1, <1>k
<1> QED BY <1>1, <1>2, <1>3, <1>4, <1>5 DEF LexStep

LEMMA ReaderIsKept == ASSUME ReaderInv, UNCHANGED <<readerVars, g_has_error>> PROVE ReaderInv'
  BY StepReader

-----------------------------------------------------------------------------
(* The invariant *)
ProgramOK ==
    /\ task \in {"idle", "render", "open", "write", "parse", "items"}
    /\ ret \in BOOLEAN \union {None}
    /\ failed \in BOOLEAN
    /\ calls \in 0 .. MaxCalls
    /\ source.how \in {"whole", "cut", "edited"}

\* The text of persist_conf is that of its value, and is what is in the stream once
\* it was written there.
TextIsOfValue ==
    /\ task \in {"render", "open", "write"} => value \in Values /\ text = ToJson(Conf, value)
    /\ task = "render" => log = <<>>
    /\ task \in {"open", "write"} => log = text

\* A file that source calls whole is the text of the value it names, and one that
\* is called cut is the first bytes of that text, and not all of them.
FileIsAsTold ==
    /\ source.how = "whole" =>
          \/ file = ToJson(Conf, source.value)
          \/ <<file, source.value>> \in Reordered
    /\ source.how = "cut" =>
          \E n \in 0 .. (Len(ToJson(Conf, source.value)) - 1) :
              file = SubSeq(ToJson(Conf, source.value), 1, n)

FileOK == (file = Missing \/ file \in Seq(Ascii)) /\ FileIsAsTold

\* Between the calls that read there is no reader, and the error flag is as the last
\* of them left it; from_json_container begins with it.
NothingIsRead(f) ==
    f \in [type : {Items(ItemType)}, val : {<<>>}, ordered : BOOLEAN, at : {"item", "done"},
           idx : Nat, count : Nat, key : {<<>>}]

FlagIsLeft ==
    /\ task \notin {"parse", "items"} => pending = 0 /\ stack = <<>> /\ g_has_error = failed
    /\ task = "items" /\ failed => g_has_error /\ \E f : stack = <<f>> /\ NothingIsRead(f)

ConfigureInv ==
    ReaderInv /\ ssp!StreamInv /\ ProgramOK /\ TextIsOfValue /\ FileOK /\ FlagIsLeft

-----------------------------------------------------------------------------
LEMMA Texts ==
    /\ \A s \in Seq(Ascii) : s \in Seq(Byte)
    /\ \A v \in Values : ToJson(Conf, v) \in Seq(Ascii) /\ ToJson(Conf, v) # <<>>
    /\ \A list \in ItemLists : ToJson(Vec(ItemType), list) \in Seq(Ascii)
<1>1. \A c \in Ascii : c \in Byte
  BY DEF Ascii, Byte
<1> QED BY <1>1, ConfigureParameters DEF ConfigureAssumption

LEMMA InitReads == ASSUME Init PROVE ReaderInv
<1>1. NoToken \in Token
  BY DEF NoToken, Token, TokenTypes
<1>2. /\ len_ = 0 /\ ptr_ = <<>> /\ original = <<>> /\ cur_offset_ = 0 /\ cur_tok_ = NoToken
      /\ esc_count = 0 /\ lex = "skip" /\ pending = 0 /\ decoded = <<>>
  BY DEF Init
<1>3. do_next \in BOOLEAN /\ g_has_error \in BOOLEAN
  BY Zenon DEF Init
<1>4. ptr_ \in [0 .. (len_ - 1) -> Byte] /\ original \in [0 .. (len_ - 1) -> Ascii]
  BY <1>2
<1>5. ReaderTypeOK
  BY <1>1, <1>2, <1>3, <1>4 DEF ReaderTypeOK
<1>6. LooksAtText
  BY <1>2 DEF LooksAtText, NoToken
<1> QED BY <1>2, <1>5, <1>6 DEF ReaderInv, TextInv, UnreadIsKept, UnescapedInPlace

LEMMA InitHolds == ASSUME Init PROVE ConfigureInv
<1>1. ReaderInv
  BY InitReads
<1>2. ssp!StreamInv
  BY StreamBegins DEF Init
<1>3. ProgramOK
  <2>1. failed \in BOOLEAN
    BY Zenon DEF Init
  <2>2. calls \in 0 .. MaxCalls
    BY ConfigureParameters DEF ConfigureAssumption, Init
  <2>3. source.how \in {"whole", "cut", "edited"}
    BY DEF Init, Source
  <2> QED BY <2>1, <2>2, <2>3 DEF ProgramOK, Init
<1>4. TextIsOfValue
  BY DEF TextIsOfValue, Init
<1>5. FileOK
  <2>1. CASE file = Missing /\ source = Source("edited", None)
    BY <2>1 DEF FileOK, FileIsAsTold, Source
  <2>2. CASE file \in Edited /\ source = Source("edited", None)
    <3>1. file \in Seq(Ascii)
      BY <2>2, ConfigureParameters DEF ConfigureAssumption
    <3> QED BY <2>2, <3>1 DEF FileOK, FileIsAsTold, Source
  <2>3. ASSUME NEW r \in Reordered, file = r[1], source = Source("whole", r[2])
        PROVE  FileOK
    <3>1. file \in Seq(Ascii) /\ r = <<r[1], r[2]>>
      BY <2>3, ConfigureParameters DEF ConfigureAssumption
    <3>2. source.how = "whole" /\ source.value = r[2]
      BY <2>3 DEF Source
    <3> QED BY <2>3, <3>1, <3>2 DEF FileOK, FileIsAsTold
  <2> QED BY <2>1, <2>2, <2>3 DEF Init
<1>6. FlagIsLeft
  <2>1. g_has_error = failed
    BY Zenon DEF Init
  <2> QED BY <2>1 DEF FlagIsLeft, Init
<1> QED BY <1>1, <1>2, <1>3, <1>4, <1>5, <1>6 DEF ConfigureInv

-----------------------------------------------------------------------------
(* Every step keeps the invariant *)

\* What the steps of persist_conf and the crash leave alone is kept.
LEMMA ReadIsKept == ASSUME ReaderInv, UNCHANGED readVars PROVE ReaderInv'
  BY ReaderIsKept DEF readVars

LEMMA PersistHolds ==
    ASSUME ConfigureInv, NEW v \in Values, Persist(v)
    PROVE  ConfigureInv'
<1>1. ReaderInv'
  BY ReadIsKept DEF Persist, ConfigureInv
<1>2. ssp!StreamInv' /\ log' = <<>>
  BY StreamBeginsAgain DEF Persist, ss!ConstructAgain
<1>3. task = "idle" /\ task' = "render" /\ calls < MaxCalls /\ calls' = calls + 1
      /\ value' = v /\ text' = ToJson(Conf, v)
      /\ UNCHANGED <<readVars, file, ret, source, failed>>
  BY DEF Persist, Called
<1>4. ProgramOK'
  BY <1>3, ConfigureParameters DEF ConfigureInv, ProgramOK, ConfigureAssumption
<1>5. TextIsOfValue'
  BY <1>2, <1>3 DEF TextIsOfValue
<1>6. FileOK'
  BY <1>3 DEF ConfigureInv, FileOK, FileIsAsTold
<1>7. FlagIsLeft'
  BY <1>3 DEF ConfigureInv, FlagIsLeft, readVars, readerVars
<1> QED BY <1>1, <1>2, <1>4, <1>5, <1>6, <1>7 DEF ConfigureInv

LEMMA ToStreamHolds ==
    ASSUME ConfigureInv, ToStream
    PROVE  ConfigureInv'
<1>1. ReaderInv'
  BY ReadIsKept DEF ToStream, ConfigureInv
<1>2. task = "render" /\ task' = "open" /\ ss!Write(text)
      /\ UNCHANGED <<readVars, file, value, text, ret, source, failed, calls>>
  BY DEF ToStream
<1>3. value \in Values /\ text = ToJson(Conf, value) /\ log = <<>> /\ text \in Seq(Byte)
  BY <1>2, Texts DEF ConfigureInv, TextIsOfValue
<1>4. ssp!StreamInv'
  BY <1>2, <1>3, StreamWrites DEF ConfigureInv
<1>5. log' = text
  BY <1>2, <1>3 DEF ss!Write
<1>6. ProgramOK'
  BY <1>2 DEF ConfigureInv, ProgramOK
<1>7. TextIsOfValue'
  BY <1>2, <1>3, <1>5 DEF TextIsOfValue
<1>8. FileOK'
  BY <1>2 DEF ConfigureInv, FileOK, FileIsAsTold
<1>9. FlagIsLeft'
  BY <1>2 DEF ConfigureInv, FlagIsLeft, readVars, readerVars
<1> QED BY <1>1, <1>4, <1>6, <1>7, <1>8, <1>9 DEF ConfigureInv

\* persist_conf returns, with a file that is what source says.
LEMMA PersistReturnsHolds ==
    ASSUME ConfigureInv, task \in {"open", "write"}, NEW r \in BOOLEAN, PersistReturns(r), FileOK',
           source'.how \in {"whole", "cut", "edited"}
    PROVE  ConfigureInv'
<1>1. ReaderInv'
  BY ReadIsKept DEF PersistReturns, ConfigureInv
<1>2. ssp!StreamInv'
  BY StreamBeginsAgain DEF PersistReturns
<1>3. task' = "idle" /\ ret' = r /\ UNCHANGED <<readVars, failed, calls>>
  BY DEF PersistReturns
<1>4. ProgramOK'
  BY <1>3 DEF ConfigureInv, ProgramOK
<1>5. TextIsOfValue'
  BY <1>3 DEF TextIsOfValue
<1>6. FlagIsLeft'
  BY <1>3 DEF ConfigureInv, FlagIsLeft, readVars, readerVars
<1> QED BY <1>1, <1>2, <1>4, <1>5, <1>6 DEF ConfigureInv

LEMMA OpenFailsHolds ==
    ASSUME ConfigureInv, OpenFails
    PROVE  ConfigureInv'
<1>1. task = "open" /\ PersistReturns(FALSE) /\ UNCHANGED <<file, source>>
  BY DEF OpenFails
<1>2. FileOK' /\ source'.how \in {"whole", "cut", "edited"}
  BY <1>1 DEF ConfigureInv, FileOK, FileIsAsTold, ProgramOK
<1> QED BY <1>1, <1>2, PersistReturnsHolds

\* The first n bytes of the stream are in the file.
LEMMA Written ==
    ASSUME ConfigureInv, task \in {"open", "write"}, NEW n \in 0 .. Len(ss!Str), WriteFile(n)
    PROVE  FileOK' /\ source'.how \in {"whole", "cut", "edited"}
<1> DEFINE T == ToJson(Conf, value)
<1>1. ss!Str = T /\ T \in Seq(Ascii) /\ T # <<>>
  BY StrIsLog, Texts DEF ConfigureInv, TextIsOfValue
<1>2. file' = SubSeq(T, 1, n) /\ source' = Source(IF n = Len(T) THEN "whole" ELSE "cut", value)
  BY <1>1 DEF WriteFile
<1>3. source'.how = (IF n = Len(T) THEN "whole" ELSE "cut") /\ source'.value = value
  BY <1>2 DEF Source
<1>4. n \in 0 .. Len(T)
  BY <1>1
<1> HIDE DEF T
<1>5. file' \in Seq(Ascii)
  BY <1>1, <1>2, <1>4
<1>6. CASE n = Len(T)
  <2>1. file' = T
    BY <1>1, <1>2, <1>6
  <2> QED BY <1>3, <1>5, <1>6, <2>1 DEF FileOK, FileIsAsTold, T
<1>7. CASE n # Len(T)
  <2>1. n \in 0 .. (Len(T) - 1)
    BY <1>1, <1>4, <1>7
  <2> QED BY <1>2, <1>3, <1>5, <1>7, <2>1 DEF FileOK, FileIsAsTold, T
<1> QED BY <1>6, <1>7

LEMMA CloseFileHolds ==
    ASSUME ConfigureInv, CloseFile
    PROVE  ConfigureInv'
<1>1. task = "write" /\ PersistReturns(TRUE) /\ \E n \in 0 .. Len(ss!Str) : WriteFile(n)
  BY DEF CloseFile
<1>2. FileOK' /\ source'.how \in {"whole", "cut", "edited"}
  BY <1>1, Written
<1> QED BY <1>1, <1>2, PersistReturnsHolds

\* The file is emptied when it is opened: it is the first none of the bytes.
LEMMA OpenFileHolds ==
    ASSUME ConfigureInv, OpenFile
    PROVE  ConfigureInv'
<1>1. task = "open" /\ task' = "write" /\ file' = <<>> /\ source' = Source("cut", value)
      /\ UNCHANGED <<readVars, ssVars, value, text, ret, failed, calls>>
  BY DEF OpenFile
<1>2. ReaderInv'
  BY <1>1, ReadIsKept DEF ConfigureInv
<1>3. ssp!StreamInv' /\ log' = log
  BY <1>1, StreamIsKept DEF ConfigureInv, ssVars
<1>4. source'.how = "cut" /\ source'.value = value
  BY <1>1 DEF Source
<1>5. ProgramOK'
  BY <1>1, <1>4 DEF ConfigureInv, ProgramOK
<1>6. TextIsOfValue'
  BY <1>1, <1>3 DEF ConfigureInv, TextIsOfValue
<1>7. FileOK'
  <2> DEFINE T == ToJson(Conf, value)
  <2>1. T \in Seq(Ascii) /\ T # <<>>
    BY <1>1, Texts DEF ConfigureInv, TextIsOfValue
  <2> HIDE DEF T
  <2>2. 0 \in 0 .. (Len(T) - 1) /\ SubSeq(T, 1, 0) = <<>>
    BY <2>1
  <2>3. \E n \in 0 .. (Len(T) - 1) : file' = SubSeq(T, 1, n)
    BY <1>1, <2>2, Zenon
  <2>4. file' \in Seq(Ascii)
    BY <1>1
  <2> QED BY <1>4, <2>3, <2>4 DEF FileOK, FileIsAsTold, T
<1>8. FlagIsLeft'
  BY <1>1 DEF ConfigureInv, FlagIsLeft, readVars, readerVars
<1> QED BY <1>2, <1>3, <1>5, <1>6, <1>7, <1>8 DEF ConfigureInv

\* The steps of the calls that read leave the stream, the file and what is being
\* written alone.
LEMMA ReadingHolds ==
    ASSUME ConfigureInv, ReaderInv', FlagIsLeft', UNCHANGED <<ssVars, file, source>>,
           task' \in {"idle", "parse", "items"} \/ UNCHANGED <<task, value, text>>,
           task' \in {"idle", "render", "open", "write", "parse", "items"},
           ret' \in BOOLEAN \union {None}, failed' \in BOOLEAN, calls' \in 0 .. MaxCalls
    PROVE  ConfigureInv'
<1>1. ssp!StreamInv' /\ log' = log
  BY StreamIsKept DEF ConfigureInv, ssVars
<1>2. ProgramOK'
  BY DEF ConfigureInv, ProgramOK
<1>3. TextIsOfValue'
  BY <1>1 DEF ConfigureInv, TextIsOfValue
<1>4. FileOK'
  BY DEF ConfigureInv, FileOK, FileIsAsTold
<1> QED BY <1>1, <1>2, <1>3, <1>4 DEF ConfigureInv

LEMMA OneMore == ASSUME ConfigureInv, calls < MaxCalls PROVE calls + 1 \in 0 .. MaxCalls
  BY ConfigureParameters DEF ConfigureAssumption, ConfigureInv, ProgramOK

LEMMA Flagged == ASSUME ConfigureInv PROVE g_has_error \in BOOLEAN /\ failed \in BOOLEAN
  BY DEF ConfigureInv, ReaderInv, TextInv, ReaderTypeOK, ProgramOK

LEMMA ParseHolds ==
    ASSUME ConfigureInv, Parse
    PROVE  ConfigureInv'
<1>1. /\ file # Missing /\ task' = "parse" /\ calls < MaxCalls /\ calls' = calls + 1
      /\ FromJson(Conf, result_, file)
      /\ UNCHANGED <<ssVars, file, ret, source, failed>>
  BY DEF Parse, Called
<1>2. file \in Seq(Ascii) /\ Construct(file, Uninitialized) /\ pending' = 1
  BY <1>1 DEF ConfigureInv, FileOK, FromJson
<1>3. g_has_error' \in BOOLEAN
  BY <1>1, Zenon DEF FromJson
<1>4. ReaderInv'
  BY <1>2, <1>3, TokensBegin, ReaderBegins
<1>5. FlagIsLeft'
  BY <1>1 DEF FlagIsLeft
<1>6. ret' \in BOOLEAN \union {None} /\ failed' \in BOOLEAN
  BY <1>1 DEF ConfigureInv, ProgramOK
<1>7. calls' \in 0 .. MaxCalls
  BY <1>1, OneMore
<1> QED BY <1>1, <1>4, <1>5, <1>6, <1>7, ReadingHolds

LEMMA ParseRefusedHolds ==
    ASSUME ConfigureInv, ParseRefused
    PROVE  ConfigureInv'
<1>1. /\ task = "idle" /\ task' = "idle" /\ calls < MaxCalls /\ calls' = calls + 1
      /\ UNCHANGED <<readVars, ssVars, file, source, failed>>
  BY DEF ParseRefused, Called
<1>2. ret' \in BOOLEAN \union {None}
  BY Zenon DEF ParseRefused
<1>3. ReaderInv'
  BY <1>1, ReadIsKept DEF ConfigureInv
<1>4. FlagIsLeft'
  BY <1>1 DEF ConfigureInv, FlagIsLeft, readVars, readerVars
<1>5. calls' \in 0 .. MaxCalls
  BY <1>1, OneMore
<1>6. failed' \in BOOLEAN
  BY <1>1, Flagged
<1> QED BY <1>1, <1>2, <1>3, <1>4, <1>5, <1>6, ReadingHolds

LEMMA ReadItemsHolds ==
    ASSUME ConfigureInv, NEW list \in ItemLists, ReadItems(list)
    PROVE  ConfigureInv'
<1>1. /\ task = "idle" /\ task' = "items" /\ calls < MaxCalls /\ calls' = calls + 1
      /\ text' = ToJson(Vec(ItemType), list) /\ FromJsonContainer(ItemType, text')
      /\ UNCHANGED <<ssVars, file, ret, source, failed>>
  BY DEF ReadItems, Called
<1>2. /\ Construct(text', Uninitialized) /\ pending' = 2 /\ g_has_error' = g_has_error
      /\ stack' = <<Frame(Items(ItemType), <<>>, TRUE, "item")>>
  BY <1>1 DEF FromJsonContainer
<1>3. text' \in Seq(Ascii) /\ g_has_error' \in BOOLEAN
  BY <1>1, <1>2, Texts, Flagged
<1>4. ReaderInv'
  BY <1>2, <1>3, TokensBegin, ReaderBegins
<1>5. FlagIsLeft'
  <2> DEFINE f == Frame(Items(ItemType), <<>>, TRUE, "item")
  <2>1. NothingIsRead(f)
    <3>1. TRUE \in BOOLEAN /\ 1 \in Nat /\ 0 \in Nat
      OBVIOUS
    <3> QED BY <3>1, Zenon DEF NothingIsRead, Frame
  <2> HIDE DEF f
  <2>2. stack' = <<f>>
    BY <1>2 DEF f
  <2>3. g_has_error = failed
    BY <1>1 DEF ConfigureInv, FlagIsLeft
  <2>4. failed' => g_has_error'
    BY <1>1, <1>2, <2>3
  <2> QED BY <1>1, <2>1, <2>2, <2>4 DEF FlagIsLeft
<1>6. ret' \in BOOLEAN \union {None} /\ failed' \in BOOLEAN
  BY <1>1 DEF ConfigureInv, ProgramOK
<1>7. calls' \in 0 .. MaxCalls
  BY <1>1, OneMore
<1> QED BY <1>1, <1>4, <1>5, <1>6, <1>7, ReadingHolds

\* from_json_container with the flag set leaves its loop before the first element.
LEMMA NothingMore ==
    ASSUME NEW f, stack = <<f>>, NothingIsRead(f), g_has_error, FieldStep
    PROVE  \E g : stack' = <<g>> /\ NothingIsRead(g)
<1>1. Top = f /\ Len(stack) = 1 /\ Front(stack) = <<>>
  BY DEF Top, Last, Front
<1>2. f.type.kind = "items" /\ f.at \in {"item", "done"} /\ f.val = <<>>
  BY DEF NothingIsRead, Items
<1>3. \A ks, pl : At(ks, pl) => "items" \in ks /\ pl \in {"item", "done"}
  BY <1>1, <1>2 DEF At
<1>4. NextItem
  <2>1. /\ \A ks : ~ At(ks, "value") /\ ~ At(ks, "assigned")
        /\ \A pl : ~ At({"struct"}, pl) /\ ~ At({"vec"}, pl) /\ ~ At({"map"}, pl)
        /\ \A pl : ~ At({"vec", "map"}, pl)
    BY <1>3
  <2>2. ~ ReadValue /\ ~ OpenVector /\ ~ OpenMap /\ ~ OpenStruct /\ ~ ItemAssigned
    BY <2>1, Zenon DEF ReadValue, OpenVector, OpenMap, OpenContainer, OpenStruct, ItemAssigned
  <2>3. ~ NextElement /\ ~ NextKey /\ ~ KeyColon /\ ~ MoreElements
    BY <2>1, Zenon DEF NextElement, NextKey, KeyColon, MoreElements
  <2>4. ~ NextField /\ ~ FieldName /\ ~ FieldLoop /\ ~ FieldKey
    BY <2>1, Zenon DEF NextField, FieldName, FieldLoop, FieldKey
  <2> QED BY <2>2, <2>3, <2>4 DEF FieldStep
<1>5. Continue([f EXCEPT !.at = "done"], 0)
  BY <1>1, <1>4 DEF NextItem, Leave
<1>6. stack' = <<[f EXCEPT !.at = "done"]>>
  BY <1>1, <1>5 DEF Continue
<1>7. NothingIsRead([f EXCEPT !.at = "done"])
  BY <1>2 DEF NothingIsRead
<1> QED BY <1>6, <1>7

LEMMA ReaderStepHolds ==
    ASSUME ConfigureInv, ReaderStep
    PROVE  ConfigureInv'
<1>1. /\ (LexStep /\ UNCHANGED stack) \/ FieldStep
      /\ UNCHANGED <<ssVars, file, task, value, text, ret, source, failed, calls>>
  BY DEF ReaderStep
<1>2. g_has_error \in BOOLEAN /\ failed \in BOOLEAN
  BY Flagged
<1>3. ReaderInv' /\ (g_has_error => g_has_error') /\ task \in {"parse", "items"}
  <2>1. CASE LexStep
    <3>1. ReaderInv'
      BY <2>1, StepReader DEF ConfigureInv
    <3>2. pending > 0 /\ (g_has_error => g_has_error')
      BY <1>2, <2>1, LexKeepsFlag
    <3>3. task \in {"parse", "items"}
      BY <3>2 DEF ConfigureInv, FlagIsLeft
    <3> QED BY <3>1, <3>2, <3>3
  <2>2. CASE FieldStep
    <3>1. FieldMoves
      BY <1>2, <2>2, FieldStepMoves
    <3>2. ReaderInv'
      BY <3>1, FieldKeepsReader DEF ConfigureInv
    <3>3. stack # <<>> /\ (g_has_error => g_has_error')
      BY <3>1 DEF FieldMoves
    <3>4. task \in {"parse", "items"}
      BY <3>3 DEF ConfigureInv, FlagIsLeft
    <3> QED BY <3>2, <3>3, <3>4
  <2> QED BY <1>1, <2>1, <2>2
<1>4. FlagIsLeft'
  <2>1. CASE task = "items" /\ failed
    <3>1. PICK f : stack = <<f>> /\ NothingIsRead(f)
      BY <2>1 DEF ConfigureInv, FlagIsLeft
    <3>2. g_has_error
      BY <2>1 DEF ConfigureInv, FlagIsLeft
    <3>3. \E g : stack' = <<g>> /\ NothingIsRead(g)
      <4>1. CASE UNCHANGED stack
        BY <3>1, <4>1
      <4>2. CASE FieldStep
        BY <3>1, <3>2, <4>2, NothingMore
      <4> QED BY <1>1, <4>1, <4>2
    <3> QED BY <1>1, <1>3, <3>2, <3>3 DEF FlagIsLeft, NothingIsRead
  <2>2. CASE ~ (task = "items" /\ failed)
    BY <1>1, <1>3, <2>2 DEF FlagIsLeft
  <2> QED BY <2>1, <2>2
<1>5. /\ ret' \in BOOLEAN \union {None} /\ failed' \in BOOLEAN /\ calls' \in 0 .. MaxCalls
      /\ task' \in {"idle", "render", "open", "write", "parse", "items"}
  BY <1>1 DEF ConfigureInv, ProgramOK
<1>6. UNCHANGED <<ssVars, file, source>> /\ UNCHANGED <<task, value, text>>
  BY <1>1
<1> QED BY <1>3, <1>4, <1>5, <1>6, ReadingHolds

LEMMA ReadReturnsHolds ==
    ASSUME ConfigureInv, NEW next, ReadReturns(next)
    PROVE  ConfigureInv'
<1>1. /\ task' = "idle" /\ Destroy
      /\ UNCHANGED <<g_has_error, ssVars, file, source, calls>>
  BY DEF ReadReturns
<1>2. ret' \in BOOLEAN
  BY Zenon DEF ReadReturns
<1>3. failed' = g_has_error
  BY DEF ReadReturns
<1>4. g_has_error' \in BOOLEAN
  BY <1>1, Flagged
<1>5. ReaderInv' /\ pending' = 0 /\ stack' = <<>>
  BY <1>1, <1>4, ReaderEnds
<1>6. FlagIsLeft'
  BY <1>1, <1>3, <1>5 DEF FlagIsLeft
<1>7. failed' \in BOOLEAN /\ calls' \in 0 .. MaxCalls
  BY <1>1, <1>3, Flagged DEF ConfigureInv, ProgramOK
<1> QED BY <1>1, <1>2, <1>5, <1>6, <1>7, ReadingHolds

LEMMA CrashHolds ==
    ASSUME ConfigureInv, Crash
    PROVE  ConfigureInv'
<1>1. /\ task' = "idle" /\ ret' = None /\ Destroy /\ ss!ConstructAgain /\ UNCHANGED calls
      /\ IF task = "write" THEN \E n \in 0 .. (Len(ss!Str) - 1) : WriteFile(n)
                           ELSE UNCHANGED <<file, source>>
  BY DEF Crash
<1>2. g_has_error' \in BOOLEAN /\ failed' \in BOOLEAN /\ g_has_error' = failed'
  BY Zenon DEF Crash
<1>3. ReaderInv' /\ pending' = 0 /\ stack' = <<>>
  BY <1>1, <1>2, ReaderEnds
<1>4. ssp!StreamInv'
  BY <1>1, StreamBeginsAgain
<1>5. FileOK' /\ source'.how \in {"whole", "cut", "edited"}
  <2>1. CASE task = "write"
    <3>1. PICK n \in 0 .. (Len(ss!Str) - 1) : WriteFile(n)
      BY <1>1, <2>1
    <3>2. Len(ss!Str) \in Nat
      <4>1. ss!Str = log /\ log \in Seq(Byte)
        BY StrIsLog DEF ConfigureInv, ssp!StreamInv, ssp!StreamTypeOK
      <4> QED BY <4>1
    <3>3. n \in 0 .. Len(ss!Str)
      BY <3>2
    <3> QED BY <2>1, <3>1, <3>3, Written
  <2>2. CASE task # "write"
    BY <1>1, <2>2 DEF ConfigureInv, FileOK, FileIsAsTold, ProgramOK
  <2> QED BY <2>1, <2>2
<1>6. ProgramOK'
  BY <1>1, <1>2, <1>5 DEF ConfigureInv, ProgramOK
<1>7. TextIsOfValue'
  BY <1>1 DEF TextIsOfValue
<1>8. FlagIsLeft'
  BY <1>1, <1>2, <1>3 DEF FlagIsLeft
<1> QED BY <1>3, <1>4, <1>5, <1>6, <1>7, <1>8 DEF ConfigureInv

LEMMA StutterHolds ==
    ASSUME ConfigureInv, UNCHANGED vars
    PROVE  ConfigureInv'
<1>1. /\ UNCHANGED readVars /\ UNCHANGED <<ssVars, file, source>> /\ UNCHANGED <<task, value, text>>
      /\ UNCHANGED <<ret, failed, calls>>
  BY DEF vars
<1>2. ReaderInv'
  BY <1>1, ReadIsKept DEF ConfigureInv
<1>3. FlagIsLeft'
  BY <1>1 DEF ConfigureInv, FlagIsLeft, readVars, readerVars, NothingIsRead
<1>4. /\ ret' \in BOOLEAN \union {None} /\ failed' \in BOOLEAN /\ calls' \in 0 .. MaxCalls
      /\ task' \in {"idle", "render", "open", "write", "parse", "items"}
  BY <1>1 DEF ConfigureInv, ProgramOK
<1> QED BY <1>1, <1>2, <1>3, <1>4, ReadingHolds

LEMMA StepHolds ==
    ASSUME ConfigureInv, [Next]_vars
    PROVE  ConfigureInv'
<1>1. CASE \E v \in Values : Persist(v)
  BY <1>1, PersistHolds
<1>2. CASE ToStream \/ OpenFile \/ OpenFails \/ CloseFile
  BY <1>2, ToStreamHolds, OpenFileHolds, OpenFailsHolds, CloseFileHolds
<1>3. CASE Parse \/ ParseRefused \/ ReaderStep
  BY <1>3, ParseHolds, ParseRefusedHolds, ReaderStepHolds
<1>4. CASE ParseReturns \/ ItemsReturn
  BY <1>4, ReadReturnsHolds DEF ParseReturns, ItemsReturn
<1>5. CASE \E list \in ItemLists : ReadItems(list)
  BY <1>5, ReadItemsHolds
<1>6. CASE Crash
  BY <1>6, CrashHolds
<1>7. CASE UNCHANGED vars
  BY <1>7, StutterHolds
<1> QED BY <1>1, <1>2, <1>3, <1>4, <1>5, <1>6, <1>7 DEF Next

LEMMA InvHolds == Spec => []ConfigureInv
  BY InitHolds, StepHolds, PTL DEF Spec

-----------------------------------------------------------------------------
(* The theorems *)

\* The reader, the stream and the program's own variables keep their types, whatever
\* is in the file and wherever the process dies.
THEOREM TypesHold == Spec => []TypeOK
<1>1. ConfigureInv => TypeOK
  BY DEF ConfigureInv, ReaderInv, TextInv, ProgramOK, TypeOK, ssp!StreamInv, ssp!PointersInside,
         ss!PointersInside
<1> QED BY <1>1, InvHolds, PTL

\* The bytes of a string are where its token says they are, for every file that is
\* parsed: reader_t under from_json and from_json_container.
THEOREM UnescapedInFiles == Spec => []UnescapedInPlace
<1>1. ConfigureInv => UnescapedInPlace
  BY DEF ConfigureInv, ReaderInv, TextInv
<1> QED BY <1>1, InvHolds, PTL

\* The file is the text of the value persist_conf was called with, through however
\* many buffers of the stream it went, or the first bytes of it: after a crash at any
\* step, a full disk, and any number of calls.
THEOREM FileIsOfTheValue == Spec => []FileIsAsTold
<1>1. ConfigureInv => FileIsAsTold
  BY DEF ConfigureInv, FileOK
<1> QED BY <1>1, InvHolds, PTL

\* An error that the call before left in g_has_error makes from_json_container return
\* FALSE, with nothing read, whatever the text is.
THEOREM StaleErrorRejects ==
    Spec => [][ItemsReturn /\ failed => ret' = FALSE /\ items' = <<>>]_vars
<1>1. ConfigureInv /\ [Next]_vars => [ItemsReturn /\ failed => ret' = FALSE /\ items' = <<>>]_vars
  <2> SUFFICES ASSUME ConfigureInv, ItemsReturn, failed
               PROVE  ret' = FALSE /\ items' = <<>>
    OBVIOUS
  <2>1. task = "items" /\ items' = Top.val
    BY DEF ItemsReturn, ReadReturns
  <2>2. PICK f : stack = <<f>> /\ NothingIsRead(f)
    BY <2>1 DEF ConfigureInv, FlagIsLeft
  <2>3. g_has_error
    BY <2>1 DEF ConfigureInv, FlagIsLeft
  <2>4. ret' = FALSE
    BY <2>3, Zenon DEF ItemsReturn, ReadReturns
  <2>5. items' = <<>>
    BY <2>1, <2>2 DEF Top, Last, NothingIsRead
  <2> QED BY <2>4, <2>5
<1> QED BY <1>1, InvHolds, PTL DEF Spec
=============================================================================
