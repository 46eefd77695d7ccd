------------------------------ MODULE JsonFields ------------------------------
(***************************************************************************)
(* The readers of serialize.hpp that fill a value from the tokens of        *)
(* JsonReader: read_json for each kind of type, do_read (fields in their    *)
(* order), do_read0 (fields in any order), from_json and                    *)
(* from_json_container.                                                     *)
(*                                                                         *)
(* C++ selects them by type at compile time; here a type is a record.  Each *)
(* call that is not a single switch is a frame on the stack: the type, the  *)
(* value it fills, and the line it goes on at once its calls of next() are  *)
(* done.  Floating-point, enum, array and tuple types are left out.         *)
(***************************************************************************)
EXTENDS JsonReader, SequencesExt

CONSTANTS
    IntBits,    \* width of the integers of the program's types
    Garbage,    \* what an uninitialized integer may hold
    Behind      \* what memory may hold behind a text and its zero

ASSUME IntBitsAssumption == IntBits \in Nat \ {0}
ASSUME BehindAssumption == Behind # {} /\ Behind \subseteq Byte

VARIABLE stack  \* frames of the calls in progress, the innermost last

\* A type; new is a value-initialized object of it.
INT  == [kind |-> "int", new |-> 0]
UINT == [kind |-> "uint", new |-> 0]
BOOL == [kind |-> "bool", new |-> FALSE]
STR  == [kind |-> "str", new |-> <<>>]
Vec(t) == [kind |-> "vec", of |-> t, new |-> <<>>]
Map(t) == [kind |-> "map", of |-> t, new |-> <<>>]          \* its keys are strings
Items(t) == [kind |-> "items", of |-> t, new |-> <<>>]      \* the vector of from_json_container
Struct(fields) == [kind |-> "struct", fields |-> fields,
                   new |-> [i \in DOMAIN fields |-> fields[i].type.new]]

Scalars == {"int", "uint", "bool", "str"}

Default(t) == t.new

Signed(v)   == ((v + 2^(IntBits - 1)) % 2^IntBits) - 2^(IntBits - 1)
Unsigned(v) == v % 2^IntBits

-----------------------------------------------------------------------------
(* Looking at the token *)
FirstChar == Read(cur_tok_.start)

\* What str.len bytes from str.str on may be.  A string that failed has the length of
\* the token before it, which may reach behind the text and its zero.
TokenTexts ==
    LET Offset(i) == cur_tok_.start + i - 1
    IN  {[i \in 1 .. cur_tok_.len |->
             IF Offset(i) <= len_ THEN Read(Offset(i)) ELSE memory[Offset(i)]] :
         memory \in [(len_ + 1) .. Offset(cur_tok_.len) -> Behind]}

\* strtoll of the text from the token on: blanks, a sign, digits.
Strtol ==
    LET first  == CHOOSE o \in cur_tok_.start .. len_ :
                      /\ Read(o) \notin Blanks
                      /\ \A i \in cur_tok_.start .. (o - 1) : Read(i) \in Blanks
        digits == first + IF Read(first) \in {MINUS, 43} THEN 1 ELSE 0
        count  == CHOOSE n \in 0 .. (len_ - first) :
                      /\ Read(digits + n) \notin Digit
                      /\ \A i \in 0 .. (n - 1) : Read(digits + i) \in Digit
        number == FoldLeft(LAMBDA a, i : 10 * a + (Read(digits + i - 1) - ZERO), 0,
                           [i \in 1 .. count |-> i])
    IN  IF Read(first) = MINUS THEN -number ELSE number

IsTrue(txt) == /\ Len(txt) = 4
               /\ \A i \in 1 .. 4 : txt[i] \in {<<116, 114, 117, 101>>[i], <<84, 82, 85, 69>>[i]}

NumberOf(tok) == tok.num \div 10^tok.scale

\* read_json of a signed or an unsigned integral: the value, and whether
\* error() was called.  A negative number is not one for an unsigned type:
\* its sign is in neg, and what is compared with 0 is never negative.
ReadInt(kind, old) ==
    LET Cast(v) == IF kind = "int" THEN Signed(v) ELSE Unsigned(v)
        number  == Cast(NumberOf(cur_tok_))
    IN  CASE cur_tok_.type = "t_string" ->
                [val |-> Cast(Strtol),
                 bad |-> FirstChar # 110 /\ Cast(Strtol) = 0 /\ FirstChar # ZERO]
          [] cur_tok_.type \in {"t_int", "t_uint", "t_number"} ->
                [val |-> IF kind = "int" /\ cur_tok_.neg THEN Cast(-number) ELSE number,
                 bad |-> FALSE]
          [] OTHER -> [val |-> old, bad |-> TRUE]

ReadBool(old, txt) ==
    CASE cur_tok_.type = "t_string" -> [val |-> IsTrue(txt), bad |-> FALSE]
      [] cur_tok_.type \in {"t_int", "t_uint", "t_number"} ->
            [val |-> cur_tok_.num # 0, bad |-> FALSE]
      [] OTHER -> [val |-> old, bad |-> TRUE]

ReadString(old, txt) ==
    IF cur_tok_.type = "t_string" THEN [val |-> txt, bad |-> FALSE]
                                  ELSE [val |-> old, bad |-> TRUE]

ReadScalar(kind, old, txt) ==
    CASE kind \in {"int", "uint"} -> ReadInt(kind, old)
      [] kind = "bool"           -> ReadBool(old, txt)
      [] kind = "str"            -> ReadString(old, txt)

-----------------------------------------------------------------------------
(* Frames *)
Frame(t, v, ordered, at) ==
    [type |-> t, val |-> v, ordered |-> ordered, at |-> at,
     idx |-> 1,        \* the field being read
     count |-> 0,      \* loop_idx of do_read0
     key |-> <<>>]     \* the key of a map, the t of from_json_container

Top == Last(stack)
At(kinds, place) == stack # <<>> /\ pending = 0 /\ Top.type.kind \in kinds /\ Top.at = place

SlotType(f) == IF f.type.kind = "struct" THEN f.type.fields[f.idx].type ELSE f.type.of

\* What the slot holds before it is read: an element is new, the value of a
\* map is a local without an initializer.
SlotValues(f) ==
    CASE f.type.kind = "struct" -> {f.val[f.idx]}
      [] f.type.kind = "map" /\ SlotType(f).kind \in {"int", "uint"} -> Garbage
      [] f.type.kind = "map" /\ SlotType(f).kind = "bool" -> BOOLEAN
      [] OTHER -> {Default(SlotType(f))}

\* The frame once its slot was read: v is stored, and its loop goes on.
Stored(f, v) ==
    CASE f.type.kind = "struct" /\ f.ordered ->
            [f EXCEPT !.val[f.idx] = v, !.idx = @ + 1, !.at = "field"]
      [] f.type.kind = "struct" /\ ~f.ordered ->
            [f EXCEPT !.val[f.idx] = v, !.count = @ + 1, !.at = "loop"]
      [] f.type.kind = "vec" -> [f EXCEPT !.val[Len(f.val)] = v, !.at = "more"]
      [] f.type.kind = "map" ->
            [f EXCEPT !.val = [k \in DOMAIN f.val \union {f.key} |->
                                  IF k = f.key THEN v ELSE f.val[k]], !.at = "more"]
      [] f.type.kind = "items" -> [f EXCEPT !.key = v, !.at = "assigned"]

\* The innermost call goes on as f after n calls of next().
Continue(f, n) ==
    /\ stack' = Append(Front(stack), f)
    /\ pending' = n
    /\ UNCHANGED <<ptr_, len_, cur_offset_, cur_tok_, esc_count, lex, do_next, original, decoded>>

Call(f, n) ==
    /\ stack' = Append(stack, f)
    /\ pending' = n
    /\ UNCHANGED <<ptr_, len_, cur_offset_, cur_tok_, esc_count, lex, do_next, original, decoded>>

\* Faulty: a call leaves its closing bracket to its caller.
LeaveBracket ==
    IF Len(stack) = 1
    THEN Continue([Top EXCEPT !.at = "done"], 0)
    ELSE /\ stack' = Append(SubSeq(stack, 1, Len(stack) - 2),
                            Stored(stack[Len(stack) - 1], Top.val))
         /\ pending' = 0
         /\ UNCHANGED <<ptr_, len_, cur_offset_, cur_tok_, esc_count, lex, do_next, original,
                        decoded>>

\* The innermost call returns, with the one call of next() all of them end with.
Leave ==
    IF Len(stack) = 1
    THEN Continue([Top EXCEPT !.at = "done"], 0)
    ELSE /\ stack' = Append(SubSeq(stack, 1, Len(stack) - 2),
                            Stored(stack[Len(stack) - 1], Top.val))
         /\ pending' = 1
         /\ UNCHANGED <<ptr_, len_, cur_offset_, cur_tok_, esc_count, lex, do_next, original,
                        decoded>>

Check(bad) == g_has_error' = (g_has_error \/ bad)
AnyKind == {"struct", "vec", "map", "items"}

(* read_json: the slot of the innermost call is filled from the token. *)
ReadValue ==
    /\ At(AnyKind, "value")
    /\ SlotType(Top).kind \in Scalars
    /\ \E old \in SlotValues(Top), txt \in TokenTexts :
          LET r == ReadScalar(SlotType(Top).kind, old, txt)
          IN  Check(r.bad) /\ Continue(Stored(Top, r.val), 1)

\* A container whose bracket is missing returns at once, without next().
OpenContainer(kind, bracket) ==
    /\ At(AnyKind, "value")
    /\ SlotType(Top).kind = kind
    /\ \E v \in SlotValues(Top) :
          IF FirstChar = bracket
          THEN Call(Frame(SlotType(Top), v, TRUE, "elem"), 1) /\ NoError
          ELSE Continue(Stored(Top, v), 0) /\ Error

OpenVector == OpenContainer("vec", LBRACKET)
OpenMap    == OpenContainer("map", LBRACE)

\* Nested structs: do_read0 calls itself, everything else calls do_read.
OpenStruct ==
    /\ At(AnyKind, "value")
    /\ SlotType(Top).kind = "struct"
    /\ \E v \in SlotValues(Top) :
          IF Top.type.kind = "struct" /\ ~Top.ordered
          THEN Call(Frame(SlotType(Top), v, FALSE, "loop"), 0)
          ELSE Call(Frame(SlotType(Top), v, TRUE, "field"), 0)
    /\ NoError

-----------------------------------------------------------------------------
(* Sequence and associative containers *)
NextElement ==
    /\ At({"vec"}, "elem")
    /\ IF FirstChar # RBRACKET \/ cur_tok_.type = "t_end"
       THEN Continue([Top EXCEPT !.val = Append(@, Default(Top.type.of)), !.at = "value"], 0)
       ELSE Leave
    /\ NoError

NextKey ==
    /\ At({"map"}, "elem")
    /\ IF FirstChar = RBRACE
       THEN Leave /\ NoError
       ELSE \E txt \in TokenTexts :
               LET r == ReadString(<<>>, txt)
               IN  Check(r.bad) /\ Continue([Top EXCEPT !.key = r.val, !.at = "colon"], 1)

KeyColon ==
    /\ At({"map"}, "colon")
    /\ IF FirstChar = COLON
       THEN Continue([Top EXCEPT !.at = "value"], 1) /\ NoError
       ELSE Leave /\ Error

MoreElements ==
    /\ At({"vec", "map"}, "more")
    /\ CASE FirstChar = COMMA -> Continue([Top EXCEPT !.at = "elem"], 1) /\ NoError
         [] FirstChar = (IF Top.type.kind = "vec" THEN RBRACKET ELSE RBRACE) -> Leave /\ NoError
         [] OTHER -> Leave /\ Error

-----------------------------------------------------------------------------
(* do_read: the fields of a struct in their order; only a field that is no  *)
(* struct itself has its name compared, and is left out if it is another.   *)
NextField ==
    /\ At({"struct"}, "field")
    /\ CASE Top.idx > Len(Top.type.fields)   -> Leave
         [] OTHER ->
              IF SlotType(Top).kind = "struct"
              THEN Continue([Top EXCEPT !.at = "value"], 3)
              ELSE Continue([Top EXCEPT !.at = "name"], 1)
    /\ NoError

FieldName ==
    /\ At({"struct"}, "name")
    /\ \E txt \in TokenTexts :
          IF txt = Top.type.fields[Top.idx].name
          THEN Continue([Top EXCEPT !.at = "value"], 2) /\ NoError
          ELSE Continue([Top EXCEPT !.idx = @ + 1, !.at = "field"], 0) /\ Error

(* do_read0: fields in any order. *)
FieldLoop ==
    /\ At({"struct"}, "loop")
    /\ IF cur_tok_.type = "t_end"
       THEN Leave
       ELSE Continue([Top EXCEPT !.at = "key"],
                     IF Top.count # Len(Top.type.fields) THEN 1 ELSE 0)
    /\ NoError

FieldKey ==
    /\ At({"struct"}, "key")
    /\ \E txt \in TokenTexts :
          \/ \E i \in DOMAIN Top.type.fields :
                /\ Top.type.fields[i].name = txt
                /\ Continue([Top EXCEPT !.idx = i, !.at = "value"], 2)
          \/ /\ \A i \in DOMAIN Top.type.fields : Top.type.fields[i].name # txt
             /\ IF cur_tok_.type \in {"t_end", "t_ctrl"}
                THEN Leave
                ELSE Continue([Top EXCEPT !.at = "loop"], 3)
    /\ NoError

(* from_json_container of a vector: a bad element ends it, by the error    *)
(* flag, which it does not reset.                                           *)
NextItem ==
    /\ At({"items"}, "item")
    /\ IF cur_tok_.type = "t_end" \/ g_has_error
       THEN Leave
       ELSE Continue([Top EXCEPT !.at = "value"], 0)
    /\ NoError

\* Faulty: the comma behind an element is not skipped.
ItemAssignedNoComma ==
    /\ At({"items"}, "assigned")
    /\ IF g_has_error
       THEN Continue([Top EXCEPT !.at = "item"], 0)
       ELSE Continue([Top EXCEPT !.val = Append(@, Top.key), !.at = "item"], 0)
    /\ NoError

ItemAssigned ==
    /\ At({"items"}, "assigned")
    /\ IF g_has_error
       THEN Continue([Top EXCEPT !.at = "item"], 0)
       ELSE Continue([Top EXCEPT !.val = Append(@, Top.key), !.at = "item"], 1)
    /\ NoError

FieldStep ==
    \/ ReadValue \/ OpenVector \/ OpenMap \/ OpenStruct
    \/ NextElement \/ NextKey \/ KeyColon \/ MoreElements
    \/ NextField \/ FieldName \/ FieldLoop \/ FieldKey
    \/ NextItem \/ ItemAssigned

\* A reader_t is made for a text and a call begins: from_json reads into t and
\* clears the error flag; from_json_container begins with an empty vector and
\* with the flag as it is, and takes the opening bracket on trust.
Construct(text, tokens) ==
    /\ ptr_' = [i \in 0 .. (Len(text) - 1) |-> text[i + 1]]
    /\ original' = ptr_'
    /\ len_' = Len(text)
    /\ cur_offset_' = 0
    /\ cur_tok_' \in tokens
    /\ esc_count' = 0
    /\ lex' = "skip"
    /\ do_next' = FALSE
    /\ decoded' = <<>>

FromJson(t, v, text) ==
    /\ Construct(text, Uninitialized)
    /\ pending' = 1
    /\ stack' = <<Frame(t, v, FALSE, "loop")>>
    /\ g_has_error' = FALSE

FromJsonContainer(t, text) ==
    /\ Construct(text, Uninitialized)
    /\ pending' = 2
    /\ stack' = <<Frame(Items(t), <<>>, TRUE, "item")>>
    /\ UNCHANGED g_has_error

Returned == stack # <<>> /\ Top.at = "done"

\* The call returned, or the process died: there is no reader_t any more.
Destroy == Construct(<<>>, {NoToken}) /\ pending' = 0 /\ stack' = <<>>
=============================================================================
