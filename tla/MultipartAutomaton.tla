------------------------- MODULE MultipartAutomaton -------------------------
(***************************************************************************)
(* multipartparser_execute: the incremental parser of multipart/form-data. *)
(* The caller hands it the message in pieces; an action is one pass through*)
(* its switch, which consumes characters of the piece, or none when it goes*)
(* to reexecute, and makes the callbacks named in called.  Runs of         *)
(* characters are reported piece by piece, as the code does.               *)
(*                                                                         *)
(* The callbacks are set and return 0.  Characters are members of a small  *)
(* set: only those the switch tells apart matter.                          *)
(***************************************************************************)
EXTENDS Naturals, Sequences

CONSTANTS
    Char, CR, LF, HYPHEN, COLON, BLANK,  \* BLANK is SP or HT
    NameChars,  \* the characters header_field_chars does not map to 0
    Boundary,   \* at most 69 characters: strncpy of the C parser cuts at boundary[70]
    Messages    \* messages with what their sender put in, see MultipartParser

ASSUME CharAssumption ==
    {CR, LF, HYPHEN, COLON, BLANK} \subseteq Char /\ NameChars \subseteq Char
ASSUME BoundaryAssumption == Boundary \in Seq(Char)
ASSUME MessagesAssumption == \A m \in Messages : m.bytes \in Seq(Char)

VARIABLES
    message,  \* the message that arrives, a member of Messages
    last,     \* number of characters handed over, in one or more calls
    p,        \* number of characters consumed
    state,
    index,
    failed,   \* multipartparser_execute returned less than the piece's size
    called    \* the callbacks of the step, and the data of one

automatonVars == <<message, last, p, state, index, failed, called>>

-----------------------------------------------------------------------------
input == message.bytes

Silence == [on |-> {}, data |-> <<>>]

AutomatonInit ==
    /\ message \in Messages
    /\ last = 0 /\ p = 0
    /\ state = "s_preamble" /\ index = 0
    /\ failed = FALSE /\ called = Silence

\* The next character, and whether the parser looks at it in state s.
c == input[p + 1]
At(s) == ~failed /\ p < last /\ state = s

\* Consume it and go to state s; or look at it again there.
Consume(s) == p' = p + 1 /\ state' = s /\ UNCHANGED <<message, last, failed>>
Reexecute(s) == p' = p /\ state' = s /\ UNCHANGED <<message, last, failed>>

Silent == called' = Silence
Notify(names) == called' = [on |-> names, data |-> <<>>]
Data(name, d) == called' = [on |-> {name}, data |-> d]

\* The end of the run of characters of S that starts at c, within the piece.
RunEnds(S) ==
    {q \in p..last : /\ \A i \in (p + 1)..q : input[i] \in S
                     /\ \/ q = last
                        \/ input[q + 1] \notin S}

\* The callback for the run up to q, if there is one.
RunData(name, q) == IF q > p THEN Data(name, SubSeq(input, p + 1, q)) ELSE Silent

\* The run up to q is consumed and the piece with it.
Exhaust(q, s) == p' = q /\ state' = s /\ UNCHANGED <<message, last, failed>>

-----------------------------------------------------------------------------
(* Faulty variants of definitions below: plausible bugs, each of which some *)
(* property must detect.                                                    *)

\* A bad character counts as parsed.
ErrorAfter ==
    failed' = TRUE /\ p' = p + 1 /\ Silent /\ UNCHANGED <<message, last, state, index>>

\* The index is not reset after the first boundary.
FirstBoundaryKeepsIndex(expected) ==
    /\ c = expected
    /\ IF index = Len(Boundary) + 1
       THEN Consume("s_header_field_start") /\ Notify({"body_begin", "part_begin"}) /\ UNCHANGED index
       ELSE Consume(state) /\ index' = index + 1 /\ Silent

\* The first part is begun only by its headers.
FirstBoundaryNoPart(expected) ==
    /\ c = expected
    /\ IF index = Len(Boundary) + 1
       THEN Consume("s_header_field_start") /\ Notify({"body_begin"}) /\ index' = 0
       ELSE Consume(state) /\ index' = index + 1 /\ Silent

\* The character after CR LF is not looked at again.
DataCrLfConsumes ==
    /\ At("s_data_cr_lf")
    /\ UNCHANGED index
    /\ IF c = HYPHEN THEN Consume("s_data_cr_lf_hy") /\ Silent
       ELSE Consume("s_data") /\ Data("data", <<CR, LF>>)

\* Behind the last boundary the parser looks for headers.
LastPartNoEnd ==
    /\ At("s_data_boundary_done_hy_hy")
    /\ c = HYPHEN
    /\ Consume("s_header_field_start") /\ Notify({"part_end", "body_end"}) /\ UNCHANGED index

-----------------------------------------------------------------------------
\* goto error: the characters before c count as parsed.
Error ==
    failed' = TRUE /\ Silent /\ UNCHANGED <<message, last, p, state, index>>

\* The next call, with any part of the rest of the message.
Call ==
    /\ ~failed /\ p = last
    /\ \E n \in (last + 1)..Len(input) : last' = n
    /\ Silent
    /\ UNCHANGED <<message, p, state, index, failed>>

Preamble ==
    /\ At("s_preamble")
    /\ IF c = HYPHEN THEN Consume("s_preamble_hy_hy") ELSE Consume("s_preamble")
    /\ UNCHANGED index /\ Silent

PreambleHyHy ==
    /\ At("s_preamble_hy_hy")
    /\ IF c = HYPHEN THEN Consume("s_first_boundary") ELSE Consume("s_preamble")
    /\ UNCHANGED index /\ Silent

\* The character that continues the first boundary, its CR and LF included.
Expected ==
    IF index = Len(Boundary) THEN CR ELSE
    IF index = Len(Boundary) + 1 THEN LF ELSE Boundary[index + 1]

FirstBoundaryStep(expected) ==
    /\ c = expected
    /\ IF index = Len(Boundary) + 1
       THEN Consume("s_header_field_start") /\ Notify({"body_begin", "part_begin"}) /\ index' = 0
       ELSE Consume(state) /\ index' = index + 1 /\ Silent

FirstBoundary == At("s_first_boundary") /\ FirstBoundaryStep(Expected)

FirstBoundaryError == At("s_first_boundary") /\ c # Expected /\ Error

HeadersEnd ==
    /\ At("s_header_field_start") /\ c = CR
    /\ Consume("s_headers_done") /\ UNCHANGED index /\ Silent

HeaderField ==
    /\ At("s_header_field") \/ (At("s_header_field_start") /\ c # CR)
    /\ UNCHANGED index
    /\ \E q \in RunEnds(NameChars) :
        /\ RunData("header_field", q)
        /\ \/ /\ q = last
              /\ Exhaust(q, "s_header_field")
           \/ /\ q < last /\ input[q + 1] = COLON
              /\ Exhaust(q + 1, "s_header_value_start")
           \/ /\ q < last /\ input[q + 1] # COLON
              /\ failed' = TRUE /\ p' = q /\ state' = "s_header_field"
              /\ UNCHANGED <<message, last>>

SkipBlank ==
    /\ At("s_header_value_start") /\ c = BLANK
    /\ Consume(state) /\ UNCHANGED index /\ Silent

HeaderValue ==
    /\ At("s_header_value") \/ (At("s_header_value_start") /\ c # BLANK)
    /\ UNCHANGED index
    /\ \E q \in RunEnds(Char \ {CR}) :
        /\ RunData("header_value", q)
        /\ IF q = last THEN Exhaust(q, "s_header_value") ELSE Exhaust(q + 1, "s_header_value_cr")

HeaderValueCr ==
    /\ At("s_header_value_cr")
    /\ IF c = LF THEN Consume("s_header_field_start") /\ Silent /\ UNCHANGED index ELSE Error

HeadersDone ==
    /\ At("s_headers_done")
    /\ IF c = LF THEN Consume("s_data") /\ Notify({"headers_complete"}) /\ UNCHANGED index
       ELSE Error

PartData ==
    /\ At("s_data")
    /\ UNCHANGED index
    /\ \E q \in RunEnds(Char \ {CR}) :
        /\ RunData("data", q)
        /\ IF q = last THEN Exhaust(q, "s_data") ELSE Exhaust(q + 1, "s_data_cr")

\* What could have been the beginning of a boundary is data.
DataCr ==
    /\ At("s_data_cr")
    /\ UNCHANGED index
    /\ IF c = LF THEN Consume("s_data_cr_lf") /\ Silent
       ELSE Reexecute("s_data") /\ Data("data", <<CR>>)

DataCrLf ==
    /\ At("s_data_cr_lf")
    /\ UNCHANGED index
    /\ IF c = HYPHEN THEN Consume("s_data_cr_lf_hy") /\ Silent
       ELSE Reexecute("s_data") /\ Data("data", <<CR, LF>>)

DataCrLfHy ==
    /\ At("s_data_cr_lf_hy")
    /\ UNCHANGED index
    /\ IF c = HYPHEN THEN Consume("s_data_boundary_start") /\ Silent
       ELSE Reexecute("s_data") /\ Data("data", <<CR, LF, HYPHEN>>)

\* The index at which c is compared: s_data_boundary_start resets it.
BoundaryIndex == IF state = "s_data_boundary_start" THEN 0 ELSE index

\* A faulty variant of DataBoundary: the state stays when the boundary is complete.
DataBoundaryStuck ==
    /\ At("s_data_boundary_start") \/ At("s_data_boundary")
    /\ LET i == BoundaryIndex IN
        \/ /\ i = Len(Boundary)
           /\ Reexecute(state) /\ Silent /\ UNCHANGED index
        \/ /\ i # Len(Boundary) /\ c = Boundary[i + 1]
           /\ Consume("s_data_boundary") /\ index' = i + 1 /\ Silent
        \/ /\ i # Len(Boundary) /\ c # Boundary[i + 1]
           /\ Reexecute("s_data") /\ index' = i /\ Data("data", SubSeq(Boundary, 1, i))

\* When the boundary breaks off, what matched of it is data; the CR LF and the two
\* hyphens before it are not.
DataBoundary ==
    /\ At("s_data_boundary_start") \/ At("s_data_boundary")
    /\ LET i == BoundaryIndex IN
        \/ /\ i = Len(Boundary)
           /\ Reexecute("s_data_boundary_done") /\ index' = 0 /\ Silent
        \/ /\ i # Len(Boundary) /\ c = Boundary[i + 1]
           /\ Consume("s_data_boundary") /\ index' = i + 1 /\ Silent
        \/ /\ i # Len(Boundary) /\ c # Boundary[i + 1]
           /\ Reexecute("s_data") /\ index' = i /\ Data("data", SubSeq(Boundary, 1, i))

DataBoundaryDone ==
    /\ At("s_data_boundary_done")
    /\ \/ /\ c = CR
          /\ Consume("s_data_boundary_done_cr_lf") /\ Silent /\ UNCHANGED index
       \/ /\ c = HYPHEN
          /\ Consume("s_data_boundary_done_hy_hy") /\ Silent /\ UNCHANGED index
       \/ c \notin {CR, HYPHEN} /\ Error

NextPart ==
    /\ At("s_data_boundary_done_cr_lf")
    /\ IF c = LF
       THEN /\ Consume("s_header_field_start") /\ Notify({"part_end", "part_begin"})
            /\ UNCHANGED index
       ELSE Error

LastPart ==
    /\ At("s_data_boundary_done_hy_hy")
    /\ IF c = HYPHEN
       THEN Consume("s_epilogue") /\ Notify({"part_end", "body_end"}) /\ UNCHANGED index
       ELSE Error

Epilogue == At("s_epilogue") /\ Consume(state) /\ UNCHANGED index /\ Silent

-----------------------------------------------------------------------------
Header == HeadersEnd \/ HeaderField \/ SkipBlank \/ HeaderValue \/ HeaderValueCr \/ HeadersDone

Body == PartData \/ DataCr \/ DataCrLf \/ DataCrLfHy \/ DataBoundary

\* One pass through the switch.
Execute ==
    \/ Preamble \/ PreambleHyHy \/ FirstBoundary \/ FirstBoundaryError
    \/ Header \/ Body
    \/ DataBoundaryDone \/ NextPart \/ LastPart \/ Epilogue
=============================================================================
