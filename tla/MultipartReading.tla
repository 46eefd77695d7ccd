--------------------------- MODULE MultipartReading ---------------------------
(***************************************************************************)
(* What multipart_parser promises: a function of the message, read one     *)
(* character after another.  MultipartParser is handed pieces, reports runs*)
(* of characters and looks at some of them again; how a message is cut must*)
(* make no difference.                                                     *)
(***************************************************************************)
EXTENDS MultipartParser

ASSUME DistinctAssumption == CR # HYPHEN

Empty == <<>>

\* What is known of a message after some of its characters.
Start == [state |-> "s_preamble", index |-> 0, failed |-> FALSE,
          begun |-> FALSE, ended |-> FALSE, name |-> Empty, value |-> Empty, parts |-> Empty]

To(v, s) == [v EXCEPT !.state = s]
AtIndex(v, i) == [v EXCEPT !.index = i]
Wrong(v) == [v EXCEPT !.failed = TRUE]
Begun(v) == [v EXCEPT !.begun = TRUE]
Ended(v) == [v EXCEPT !.ended = TRUE]
WithName(v, d) == [v EXCEPT !.name = v.name \o d]
WithValue(v, d) == [v EXCEPT !.value = v.value \o d]

\* A part is begun; the last one gets data, or a header.
PartBegun(parts) == Append(parts, [headers |-> {}, body |-> <<>>])
MoreData(parts, d) == [parts EXCEPT ![Len(parts)].body = @ \o d]
HeaderIn(parts, h) ==
    [parts EXCEPT ![Len(parts)].headers = {g \in @ : g.name # h.name} \cup {h}]

WithPart(v) == [v EXCEPT !.parts = PartBegun(v.parts)]
WithData(v, d) == [v EXCEPT !.parts = MoreData(v.parts, d)]

\* A header with a value is filed when the next one, or the body, begins; the name
\* of one without a value stays, and the next name is added to it.
Filed(v) ==
    IF v.value = Empty THEN v
    ELSE [v EXCEPT !.parts = HeaderIn(v.parts, [name |-> v.name, value |-> v.value]),
                   !.name = Empty, !.value = Empty]

-----------------------------------------------------------------------------
(* The character ch behind v. *)

AfterFirst(v, ch) ==
    LET expected == IF v.index = Len(Boundary) THEN CR ELSE
                    IF v.index = Len(Boundary) + 1 THEN LF ELSE Boundary[v.index + 1] IN
    IF ch # expected THEN Wrong(v) ELSE
    IF v.index = Len(Boundary) + 1
    THEN To(AtIndex(Begun(WithPart(v)), 0), "s_header_field_start")
    ELSE AtIndex(v, v.index + 1)

AfterName(v, ch) ==
    IF ch \in NameChars THEN To(WithName(Filed(v), <<ch>>), "s_header_field") ELSE
    IF ch = COLON THEN To(v, "s_header_value_start") ELSE Wrong(v)

AfterValue(v, ch) ==
    IF ch = CR THEN To(v, "s_header_value_cr")
    ELSE To(WithValue(v, <<ch>>), "s_header_value")

AfterData(v, ch) == IF ch = CR THEN To(v, "s_data_cr") ELSE To(WithData(v, <<ch>>), "s_data")

\* A boundary goes on with next in state s, or was none: held is data.
AfterHeld(v, ch, next, s, held) == IF ch = next THEN To(v, s) ELSE AfterData(WithData(v, held), ch)

AfterEnd(v, ch) ==
    IF ch = CR THEN To(v, "s_data_boundary_done_cr_lf") ELSE
    IF ch = HYPHEN THEN To(v, "s_data_boundary_done_hy_hy") ELSE Wrong(v)

AfterBoundary(v, ch, i) ==
    IF i = Len(Boundary) THEN AfterEnd(To(AtIndex(v, 0), "s_data_boundary_done"), ch) ELSE
    IF ch = Boundary[i + 1] THEN To(AtIndex(v, i + 1), "s_data_boundary")
    ELSE AfterData(WithData(AtIndex(v, i), SubSeq(Boundary, 1, i)), ch)

After(v, ch) ==
    LET OnlyIf(expected, w) == IF ch = expected THEN w ELSE Wrong(v) IN
    IF v.failed THEN v ELSE
    CASE v.state = "s_preamble" -> To(v, IF ch = HYPHEN THEN "s_preamble_hy_hy" ELSE "s_preamble")
      [] v.state = "s_preamble_hy_hy" ->
            To(v, IF ch = HYPHEN THEN "s_first_boundary" ELSE "s_preamble")
      [] v.state = "s_first_boundary" -> AfterFirst(v, ch)
      [] v.state = "s_header_field_start" ->
            IF ch = CR THEN To(v, "s_headers_done") ELSE AfterName(v, ch)
      [] v.state = "s_header_field" -> AfterName(v, ch)
      [] v.state = "s_header_value_start" -> IF ch = BLANK THEN v ELSE AfterValue(v, ch)
      [] v.state = "s_header_value" -> AfterValue(v, ch)
      [] v.state = "s_header_value_cr" -> OnlyIf(LF, To(v, "s_header_field_start"))
      [] v.state = "s_headers_done" -> OnlyIf(LF, To(Filed(v), "s_data"))
      [] v.state = "s_data" -> AfterData(v, ch)
      [] v.state = "s_data_cr" -> AfterHeld(v, ch, LF, "s_data_cr_lf", <<CR>>)
      [] v.state = "s_data_cr_lf" -> AfterHeld(v, ch, HYPHEN, "s_data_cr_lf_hy", <<CR, LF>>)
      [] v.state = "s_data_cr_lf_hy" ->
            AfterHeld(v, ch, HYPHEN, "s_data_boundary_start", <<CR, LF, HYPHEN>>)
      [] v.state = "s_data_boundary_start" -> AfterBoundary(v, ch, 0)
      [] v.state = "s_data_boundary" -> AfterBoundary(v, ch, v.index)
      [] v.state = "s_data_boundary_done" -> AfterEnd(v, ch)
      [] v.state = "s_data_boundary_done_cr_lf" ->
            OnlyIf(LF, To(WithPart(v), "s_header_field_start"))
      [] v.state = "s_data_boundary_done_hy_hy" ->
            OnlyIf(HYPHEN, To(Ended(v), "s_epilogue"))
      [] v.state = "s_epilogue" -> v

\* What is known after each of the characters.
Reading(bytes) ==
    LET r[n \in 0..Len(bytes)] == IF n = 0 THEN Start ELSE After(r[n - 1], bytes[n]) IN r

-----------------------------------------------------------------------------
\* What the parser has become.
View == [state |-> state, index |-> index, failed |-> failed,
         begun |-> body_beg_called_, ended |-> body_end_called_,
         name |-> header_name_, value |-> header_value_, parts |-> parts_]

\* However a message is cut, the parser is after each piece where it would be had
\* it read the message character by character, and rejects the same character.
DivisionIrrelevant ==
    /\ p = last => View = Reading(input)[p]
    /\ failed => p < last /\ Reading(input)[p + 1].failed
    /\ ~Reading(input)[p].failed

\* The fields of a form: under each name the body of the first part that has it.
AreFields(fields, parts) ==
    /\ fields = [k \in {Key(parts[i]) : i \in DOMAIN parts} |-> fields[k]]
    /\ \A i \in DOMAIN parts :
        (\A j \in 1..(i - 1) : Key(parts[j]) # Key(parts[i])) => fields[Key(parts[i])] = parts[i].body

\* What a message says of itself is what it means, read character by character,
\* but for what the class makes of two hyphens in a preamble and of a header that
\* has no value.
Means(m) ==
    LET r == Reading(m.bytes)
        n == Len(m.bytes) IN
    /\ m.errorAt \in 0..n
    /\ m.errorAt < n => ~r[n].ended
    /\ ~m.hyphens =>
        /\ ~r[m.errorAt].failed
        /\ m.errorAt < n => r[m.errorAt + 1].failed
        /\ m.errorAt = n /\ ~m.valueless => r[n].parts = m.parts /\ AreFields(m.fields, m.parts)

ASSUME MeaningAssumption == \A m \in Messages : Means(m)
=============================================================================
