-------------------------- MODULE MultipartParser --------------------------
(***************************************************************************)
(* The class multipart_parser: the automaton of MultipartAutomaton, whose  *)
(* switch parser_data repeats, with callbacks that collect the parts of    *)
(* the message.  A member of Messages says, besides its bytes, which parts *)
(* and form fields its sender put into them, where the first character is  *)
(* that no message may have there (its length, if there is none), and      *)
(* whether its preamble has two hyphens in a row, or a header no value.    *)
(***************************************************************************)
EXTENDS MultipartAutomaton

CONSTANTS
    QUOTE,        \* the character that encloses the name of a field
    Disposition   \* "Content-Disposition"

VARIABLES
    body_beg_called_, body_end_called_,
    header_name_, header_value_,
    parts_        \* the parts, each with its headers and its body

classVars == <<body_beg_called_, body_end_called_, header_name_, header_value_, parts_>>
vars == <<message, last, p, state, index, failed, called,
          body_beg_called_, body_end_called_, header_name_, header_value_, parts_>>

-----------------------------------------------------------------------------
Init ==
    /\ AutomatonInit
    /\ body_beg_called_ = FALSE /\ body_end_called_ = FALSE
    /\ header_name_ = <<>> /\ header_value_ = <<>>
    /\ parts_ = <<>>

-----------------------------------------------------------------------------
(* The callbacks.                                                          *)

\* The header whose name and value have been collected, put into the last part.
WithHeader(part) ==
    [part EXCEPT !.headers = {h \in @ : h.name # header_name_}
                                \cup {[name |-> header_name_, value |-> header_value_]}]

OnHeaderDone == parts_' = [parts_ EXCEPT ![Len(parts_)] = WithHeader(@)]

OnPartBegin ==
    /\ "part_begin" \in called'.on
    /\ parts_' = Append(parts_, [headers |-> {}, body |-> <<>>])
    /\ UNCHANGED <<header_name_, header_value_>>

\* The header before is done when it has a value; one without a value runs into
\* the next one.
OnHeaderField ==
    /\ "header_field" \in called'.on
    /\ IF header_value_ # <<>>
       THEN OnHeaderDone /\ header_name_' = called'.data /\ header_value_' = <<>>
       ELSE header_name_' = header_name_ \o called'.data /\ UNCHANGED <<header_value_, parts_>>

\* A faulty variant of OnHeaderValue: the second piece of a value replaces the first.
OnHeaderValueReplaces ==
    /\ "header_value" \in called'.on
    /\ header_value_' = called'.data
    /\ UNCHANGED <<header_name_, parts_>>

OnHeaderValue ==
    /\ "header_value" \in called'.on
    /\ header_value_' = header_value_ \o called'.data
    /\ UNCHANGED <<header_name_, parts_>>

OnHeadersComplete ==
    /\ "headers_complete" \in called'.on
    /\ IF header_value_ # <<>>
       THEN OnHeaderDone /\ header_name_' = <<>> /\ header_value_' = <<>>
       ELSE UNCHANGED <<header_name_, header_value_, parts_>>

OnData ==
    /\ "data" \in called'.on
    /\ parts_' = [parts_ EXCEPT ![Len(parts_)].body = @ \o called'.data]
    /\ UNCHANGED <<header_name_, header_value_>>

OnNone ==
    /\ called'.on \cap {"part_begin", "header_field", "header_value", "headers_complete", "data"} = {}
    /\ UNCHANGED <<header_name_, header_value_, parts_>>

\* part_end does nothing; body_begin and body_end set their flags.
Callbacks ==
    /\ body_beg_called_' = (body_beg_called_ \/ "body_begin" \in called'.on)
    /\ body_end_called_' = (body_end_called_ \/ "body_end" \in called'.on)
    /\ \/ OnPartBegin \/ OnHeaderField \/ OnHeaderValue \/ OnHeadersComplete \/ OnData \/ OnNone

ParserData == Execute /\ Callbacks

Next == ParserData \/ (Call /\ UNCHANGED classVars)

Spec == Init /\ [][Next]_vars

\* A call of parser_data runs until it returns.
FairSpec == Spec /\ WF_vars(ParserData)

-----------------------------------------------------------------------------
(* get_multipart_data                                                      *)

\* The text between the first and the last quote of a value; with one quote, the
\* text behind it.
Quoted(value) ==
    LET quotes == {i \in DOMAIN value : value[i] = QUOTE} IN
    IF quotes = {} THEN <<>> ELSE
    LET first == CHOOSE i \in quotes : \A j \in quotes : i <= j
        final == CHOOSE i \in quotes : \A j \in quotes : i >= j
    IN IF first = final THEN SubSeq(value, first + 1, Len(value))
                        ELSE SubSeq(value, first + 1, final - 1)

Key(part) ==
    IF \E h \in part.headers : h.name = Disposition
    THEN Quoted((CHOOSE h \in part.headers : h.name = Disposition).value)
    ELSE <<>>

\* A faulty variant of FirstPartOf: a second part of the same name replaces the first.
LastPartOf(parts, key) ==
    CHOOSE i \in DOMAIN parts :
        Key(parts[i]) = key /\ \A j \in DOMAIN parts : Key(parts[j]) = key => j <= i

\* The first part of a name counts: emplace.
FirstPartOf(parts, key) ==
    CHOOSE i \in DOMAIN parts :
        Key(parts[i]) = key /\ \A j \in DOMAIN parts : Key(parts[j]) = key => i <= j

GetMultipartData(parts) ==
    [k \in {Key(parts[i]) : i \in DOMAIN parts} |-> parts[FirstPartOf(parts, k)].body]

-----------------------------------------------------------------------------
(* Properties.                                                             *)

States == {"s_preamble", "s_preamble_hy_hy", "s_first_boundary", "s_header_field_start",
           "s_header_field", "s_header_value_start", "s_header_value", "s_header_value_cr",
           "s_headers_done", "s_data", "s_data_cr", "s_data_cr_lf", "s_data_cr_lf_hy",
           "s_data_boundary_start", "s_data_boundary", "s_data_boundary_done",
           "s_data_boundary_done_cr_lf", "s_data_boundary_done_hy_hy", "s_epilogue"}

Callback == {"body_begin", "part_begin", "header_field", "header_value", "headers_complete",
             "data", "part_end", "body_end"}

PartType == [headers : SUBSET [name : Seq(Char), value : Seq(Char)], body : Seq(Char)]

\* boundary_ is read only within its length: only in the first boundary does index_
\* go beyond it, to stand for the CR and the LF.
TypeOK ==
    /\ message \in Messages
    /\ last \in 0..Len(input) /\ p \in 0..last
    /\ state \in States
    /\ index \in 0..(IF state = "s_first_boundary" THEN Len(Boundary) + 1 ELSE Len(Boundary))
    /\ failed \in BOOLEAN
    /\ called \in [on : SUBSET Callback, data : Seq(Char)]
    /\ body_beg_called_ \in BOOLEAN /\ body_end_called_ \in BOOLEAN
    /\ header_name_ \in Seq(Char) /\ header_value_ \in Seq(Char)
    /\ parts_ \in Seq(PartType)

\* The states before the first boundary was read to its end.
BeforeParts == {"s_preamble", "s_preamble_hy_hy", "s_first_boundary"}

\* parts_.back() is used only when there is a part: no header and no data is
\* reported before a part has begun.
PartIsOpen ==
    /\ state \notin BeforeParts => parts_ # <<>> /\ body_beg_called_
    /\ called.on \cap {"header_field", "header_value", "headers_complete", "data"} # {}
            => parts_ # <<>>

Finished == p = Len(input)

\* However the message is cut into pieces, its parts arrive as they were sent, with
\* every header and every character of their bodies, and get_multipart_data returns
\* the fields of its form; where a boundary breaks off, the CR LF and the hyphens
\* before it are missing.  A message with a header that has no value is exempt: the
\* class runs its name into the next one.  Names arrive as they came: that they are
\* lowercased (multipart_parser.h:23) is not so, and not said here, for the model's
\* characters have no case.
MessageArrives ==
    Finished /\ ~message.hyphens /\ ~message.valueless /\ message.errorAt = Len(input) =>
        parts_ = message.parts /\ GetMultipartData(parts_) = message.fields

\* A bad message is rejected at its first bad character, a good one never, however
\* they are cut into pieces.
RejectedWhereBad ==
    /\ ~message.hyphens => p <= message.errorAt
    /\ failed /\ ~message.hyphens => p = message.errorAt
    /\ body_end_called_ => message.errorAt = Len(input)

\* What follows the last boundary changes nothing, whatever it is: "Must be ignored
\* according to rfc 1341."
EpilogueIgnored ==
    [][body_end_called_ => UNCHANGED <<failed, index, header_name_, header_value_, parts_>>]_vars

\* A call returns: looking at a character again never goes on for ever.
CallReturns == (p < last) ~> (p = last \/ failed)

\* "else ignore everything before first boundary" (multipart_parser.cpp:24): what
\* precedes it is no error.
PreambleIsIgnored == failed => body_beg_called_ \/ message.errorAt < Len(input)
=============================================================================
