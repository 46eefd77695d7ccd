------------------------------- MODULE Configure -------------------------------
(***************************************************************************)
(* configure<T> of configure.hpp with everything under it: persist_conf     *)
(* renders a value into a string_stream and writes it to the file,          *)
(* parse_conf reads the file into result_.  Around it are the program's     *)
(* other reader (from_json_container, which shares the error flag), a       *)
(* process that can die at any step, and a file that may be edited or cut.  *)
(***************************************************************************)
EXTENDS JsonWriter

CONSTANTS
    Conf,           \* T, a struct type
    Values,         \* values of T the program persists
    Edited,         \* files that do not come from persist_conf
    Reordered,      \* <<file, value>>: a value of T rendered with its fields in another order
    ItemType,       \* the type of another vector the program reads
    ItemLists,      \* vectors of it
    INIT_BUFF_SIZE,
    Missing,        \* there is no file
    None,           \* no call has returned yet
    MaxCalls        \* bound: calls the program makes, over all its restarts

VARIABLES
    buffer, length_, read_ptr_, write_ptr_, bad, got, log,  \* the string_stream
    result_,    \* the member of configure<T>
    file,       \* the bytes of the file
    task,       \* what the program is doing
    value,      \* what it is persisting, or read back as a vector
    text,       \* what to_json makes of it
    ret,        \* what the last call returned
    items,      \* the vector from_json_container fills
    source,     \* history: what the file or text being read was made from
    before,     \* history: result_ when parse_conf was called
    failed,     \* history: the process's last call that read a text reported an error
    calls       \* history: calls made

ss == INSTANCE StringStream WITH Unset <- None, Chunks <- {}, MaxLength <- 0, NoBytes <- None

\* What the theorems assume of the parameters: texts are of 7-bit characters, and a
\* rendered object is not empty.
ConfigureAssumption ==
    /\ INIT_BUFF_SIZE \in Nat \ {0}
    /\ MaxCalls \in Nat
    /\ None \notin Byte
    /\ Missing \notin Seq(Ascii)
    /\ \A s \in Edited : s \in Seq(Ascii)
    /\ \A r \in Reordered : r[1] \in Seq(Ascii) /\ r = <<r[1], r[2]>>
    /\ \A v \in Values : ToJson(Conf, v) \in Seq(Ascii) \ {<<>>}
    /\ \A list \in ItemLists : ToJson(Vec(ItemType), list) \in Seq(Ascii)

ASSUME ConfigureParameters == ConfigureAssumption

readVars == <<readerVars, stack, g_has_error>>
ssVars == <<buffer, length_, read_ptr_, write_ptr_, bad, got, log>>
vars == <<readVars, ssVars, result_, file, task, value, text, ret, items, source, before,
          failed, calls>>

\* How a text came about: whole is what to_json made of value, cut is a proper
\* prefix of it, edited is anything else.
Source(how, v) == [how |-> how, value |-> v]

Init ==
    /\ task = "idle" /\ ret = None /\ value = None /\ text = <<>> /\ items = <<>> /\ failed = FALSE
    /\ result_ = Default(Conf) /\ before = result_
    /\ g_has_error = FALSE
    /\ pending = 0 /\ stack = <<>>
    /\ ss!Construct
    /\ ptr_ = <<>> /\ original = <<>> /\ len_ = 0 /\ cur_offset_ = 0 /\ lex = "skip"
    /\ cur_tok_ = NoToken
    /\ esc_count = 0 /\ do_next = FALSE /\ decoded = <<>>
    /\ calls = 0
    /\ \/ file = Missing /\ source = Source("edited", None)
       \/ file \in Edited /\ source = Source("edited", None)
       \/ \E r \in Reordered : file = r[1] /\ source = Source("whole", r[2])

Called(next) ==
    /\ task = "idle"
    /\ calls < MaxCalls
    /\ calls' = calls + 1
    /\ task' = next

-----------------------------------------------------------------------------
(* persist_conf *)
Persist(v) ==
    /\ Called("render")
    /\ value' = v
    /\ text' = ToJson(Conf, v)
    /\ ss!ConstructAgain
    /\ UNCHANGED <<readVars, result_, file, ret, items, source, before, failed>>

ToStream ==
    /\ task = "render"
    /\ ss!Write(text)
    /\ task' = "open"
    /\ UNCHANGED <<readVars, result_, file, value, text, ret, items, source, before, failed, calls>>

\* The stream and the value are destroyed.
PersistReturns(r) ==
    /\ task' = "idle"
    /\ ret' = r
    /\ value' = None
    /\ text' = <<>>
    /\ ss!ConstructAgain
    /\ UNCHANGED <<readVars, result_, items, before, failed, calls>>

\* Opening the file empties it.
OpenFile ==
    /\ task = "open"
    /\ task' = "write"
    /\ file' = <<>>
    /\ source' = Source("cut", value)
    /\ UNCHANGED <<readVars, ssVars, result_, value, text, ret, items, before, failed, calls>>

OpenFails ==
    /\ task = "open"
    /\ PersistReturns(FALSE)
    /\ UNCHANGED <<file, source>>

\* n bytes of the stream reach the file.
WriteFile(n) ==
    /\ file' = SubSeq(ss!Str, 1, n)
    /\ source' = Source(IF n = Len(ss!Str) THEN "whole" ELSE "cut", value)

\* write and close: their result is not looked at, a full disk cuts the file.
CloseFile ==
    /\ task = "write"
    /\ \E n \in 0 .. Len(ss!Str) : WriteFile(n)
    /\ PersistReturns(TRUE)

-----------------------------------------------------------------------------
(* parse_conf *)
Parse ==
    /\ file # Missing
    /\ Called("parse")
    /\ FromJson(Conf, result_, file)
    /\ before' = result_
    /\ UNCHANGED <<ssVars, result_, file, value, text, ret, items, source, failed>>

\* The file does not exist, or cannot be opened.
ParseRefused ==
    /\ Called("idle")
    /\ ret' = FALSE
    /\ UNCHANGED <<readVars, ssVars, result_, file, value, text, items, source, before, failed>>

ReaderStep ==
    /\ (LexStep /\ UNCHANGED stack) \/ FieldStep
    /\ UNCHANGED <<ssVars, result_, file, task, value, text, ret, items, source, before, failed,
                   calls>>

\* The call that reads returns, with its reader and its frames.
ReadReturns(next) ==
    /\ Returned
    /\ task = next
    /\ task' = "idle"
    /\ ret' = ~ g_has_error
    /\ failed' = g_has_error
    /\ Destroy
    /\ value' = None
    /\ text' = <<>>
    /\ UNCHANGED <<g_has_error, ssVars, file, source, before, calls>>

ParseReturns == ReadReturns("parse") /\ result_' = Top.val /\ UNCHANGED items

-----------------------------------------------------------------------------
(* from_json_container, called by the rest of the program on a vector it    *)
(* rendered with to_json.                                                   *)
ReadItems(list) ==
    /\ Called("items")
    /\ text' = ToJson(Vec(ItemType), list)
    /\ value' = list
    /\ FromJsonContainer(ItemType, text')
    /\ UNCHANGED <<ssVars, result_, file, ret, items, source, before, failed>>

ItemsReturn == ReadReturns("items") /\ items' = Top.val /\ UNCHANGED result_

\* The process dies and starts again: what it was writing stays cut.
Crash ==
    /\ IF task = "write"
       THEN \E n \in 0 .. (Len(ss!Str) - 1) : WriteFile(n)
       ELSE UNCHANGED <<file, source>>
    /\ task # "idle"
    /\ task' = "idle" /\ ret' = None /\ value' = None /\ text' = <<>> /\ items' = <<>> /\ failed' = FALSE
    /\ result_' = Default(Conf) /\ before' = result_'
    /\ g_has_error' = FALSE
    /\ Destroy
    /\ ss!ConstructAgain
    /\ UNCHANGED calls

Next ==
    \/ \E v \in Values : Persist(v)
    \/ ToStream \/ OpenFile \/ OpenFails \/ CloseFile
    \/ Parse \/ ParseRefused \/ ReaderStep \/ ParseReturns
    \/ \E list \in ItemLists : ReadItems(list)
    \/ ItemsReturn
    \/ Crash

Spec == Init /\ [][Next]_vars

\* A call that was made runs on until it returns, unless the process dies.
Running == ToStream \/ OpenFile \/ OpenFails \/ CloseFile \/ ReaderStep \/ ParseReturns \/ ItemsReturn

FairSpec == Spec /\ WF_vars(Running)

-----------------------------------------------------------------------------
(* Correctness *)

\* The reader, the stream and the program's own variables have their types, and the
\* reader is within its text.
TypeOK ==
    /\ ReaderTypeOK /\ LooksAtText
    /\ ss!PointersInside
    /\ task \in {"idle", "render", "open", "write", "parse", "items"}
    /\ ret \in BOOLEAN \union {None}
    /\ failed \in BOOLEAN
    /\ calls \in 0 .. MaxCalls
    /\ source.how \in {"whole", "cut", "edited"}

\* A vector the program rendered itself is read back, but for an empty one,
\* whose closing bracket is taken for an element, and unless the call before
\* failed: from_json_container does not clear the flag that call left.
OnlyAStaleErrorRejects ==
    [][ItemsReturn => /\ ret' = (~failed /\ value # <<>>)
                      /\ ret' => items' = value]_vars

\* Every call returns, whatever is in the file: no text keeps the reader in one
\* of its loops.
CallReturns == task # "idle" ~> task = "idle"
=============================================================================
