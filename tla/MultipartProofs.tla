-------------------------- MODULE MultipartProofs --------------------------
(***************************************************************************)
(* Proofs about MultipartParser, for every boundary, every set of messages *)
(* and every division into pieces.  The second half shows that it computes *)
(* what MultipartReading does, one character after another.                *)
(***************************************************************************)
EXTENDS MultipartReading, SequenceTheorems, WellFoundedInduction, TLAPS

\* The last boundary was read to its end only in s_epilogue.
AtEnd == body_end_called_ => state = "s_epilogue" /\ ~failed

IInv == TypeOK /\ PartIsOpen /\ AtEnd

\* A run of characters is a sequence of them, and ends within the piece.
LEMMA RunType ==
    ASSUME TypeOK, NEW S, NEW q \in RunEnds(S)
    PROVE  /\ q \in p..last
           /\ SubSeq(input, p + 1, q) \in Seq(Char)
<1>1. input \in Seq(Char)  BY MessagesAssumption DEF TypeOK, input
<1>2. q \in p..last /\ q \in Nat /\ p \in Nat /\ last \in Nat /\ q <= Len(input) /\ Len(input) \in Nat
  BY <1>1 DEF RunEnds, TypeOK
<1>3. SubSeq(input, p + 1, q) \in Seq(Char)
  BY <1>1, <1>2, SubSeqProperties
<1> QED  BY <1>2, <1>3

-----------------------------------------------------------------------------
(* One pass through the switch.                                            *)

\* The automaton's part of TypeOK.
AutoType ==
    /\ message \in Messages
    /\ last \in 0..Len(input) /\ p \in 0..last
    /\ state \in States
    /\ index \in 0..(IF state = "s_first_boundary" THEN Len(Boundary) + 1 ELSE Len(Boundary))
    /\ failed \in BOOLEAN
    /\ called \in [on : SUBSET Callback, data : Seq(Char)]

\* The callbacks that use the last part.
Uses == {"header_field", "header_value", "headers_complete", "data"}

\* What a pass may do to the states outside the automaton.
PassFacts ==
    /\ AutoType'
    /\ called'.on \cap Uses # {} => state \notin BeforeParts
    /\ state' \in BeforeParts \/ state \notin BeforeParts \/ {"part_begin", "body_begin"} \subseteq called'.on
    /\ "body_end" \in called'.on => state' = "s_epilogue" /\ ~failed'
    /\ state = "s_epilogue" => UNCHANGED <<state, failed, index>> /\ called' = Silence

\* The callbacks of the automaton's steps are callbacks, with characters for data.
LEMMA CalledTypes ==
    /\ Silence \in [on : SUBSET Callback, data : Seq(Char)]
    /\ \A names \in SUBSET Callback : [on |-> names, data |-> <<>>] \in [on : SUBSET Callback, data : Seq(Char)]
    /\ \A name \in Callback, d \in Seq(Char) : [on |-> {name}, data |-> d] \in [on : SUBSET Callback, data : Seq(Char)]
BY DEF Silence

\* The preamble and the first boundary.
LEMMA FirstPass == ASSUME TypeOK, Preamble \/ PreambleHyHy \/ FirstBoundary \/ FirstBoundaryError
                   PROVE  PassFacts
<1> USE CalledTypes DEF At, Consume, Silent, TypeOK, AutoType, PassFacts, States, BeforeParts, Uses, input
<1>0. Len(Boundary) \in Nat /\ Len(message.bytes) \in Nat  BY BoundaryAssumption, MessagesAssumption
<1>1. CASE Preamble  BY <1>0, <1>1 DEF Preamble, Silence
<1>2. CASE PreambleHyHy  BY <1>0, <1>2 DEF PreambleHyHy, Silence
<1>3. CASE FirstBoundary
  <2>1. CASE index = Len(Boundary) + 1
    <3>1. called' = [on |-> {"body_begin", "part_begin"}, data |-> <<>>]
      BY <1>3, <2>1 DEF FirstBoundary, FirstBoundaryStep, Notify
    <3>2. called' \in [on : SUBSET Callback, data : Seq(Char)]  BY <3>1 DEF Callback
    <3> QED  BY <1>0, <1>3, <2>1, <3>1, <3>2 DEF FirstBoundary, FirstBoundaryStep
  <2>2. CASE index # Len(Boundary) + 1
    <3>1. /\ called' = Silence /\ UNCHANGED <<message, last, failed, state>>
          /\ state = "s_first_boundary" /\ p < last /\ p' = p + 1 /\ index' = index + 1
      BY <1>3, <2>2 DEF FirstBoundary, FirstBoundaryStep
    <3>2. AutoType'  BY <1>0, <2>2, <3>1
    <3> QED  BY <3>1, <3>2 DEF Silence
  <2> QED  BY <2>1, <2>2
<1>4. CASE FirstBoundaryError  BY <1>0, <1>4 DEF FirstBoundaryError, Error, Silence
<1> QED  BY <1>1, <1>2, <1>3, <1>4

\* A pass within a part.
LEMMA PartPass ==
    ASSUME TypeOK, AutoType', state \notin BeforeParts \cup {"s_epilogue"}, "body_end" \notin called'.on
    PROVE  PassFacts
BY DEF PassFacts

\* Of the types, a pass within a part changes these.
LEMMA PartTypes ==
    ASSUME TypeOK, UNCHANGED <<message, last>>, p' \in p..last, failed' \in BOOLEAN,
           state' \in States \ {"s_first_boundary"}, index' \in 0..Len(Boundary),
           called' \in [on : SUBSET Callback, data : Seq(Char)]
    PROVE  AutoType'
<1>1. p \in Nat /\ last \in Nat  BY MessagesAssumption DEF TypeOK, input
<1> QED  BY <1>1 DEF AutoType, TypeOK, input

\* A callback with no data, and one with a run of characters.
LEMMA NotifyCalled ==
    ASSUME NEW names \in SUBSET Callback, Notify(names)
    PROVE  called' \in [on : SUBSET Callback, data : Seq(Char)] /\ called'.on = names
BY CalledTypes DEF Notify

\* A silent pass calls nothing back.
LEMMA SilentCalled ==
    ASSUME Silent
    PROVE  called' \in [on : SUBSET Callback, data : Seq(Char)] /\ called'.on = {}
BY CalledTypes DEF Silent, Silence

\* Data makes one callback with its characters.
LEMMA DataCalled ==
    ASSUME NEW name \in Callback, NEW d \in Seq(Char), Data(name, d)
    PROVE  called' \in [on : SUBSET Callback, data : Seq(Char)] /\ called'.on = {name}
BY CalledTypes DEF Data

\* RunData makes one callback, or none for an empty run.
LEMMA RunCalled ==
    ASSUME TypeOK, NEW S, NEW q \in RunEnds(S), NEW name \in Callback, RunData(name, q)
    PROVE  called' \in [on : SUBSET Callback, data : Seq(Char)] /\ called'.on \subseteq {name}
<1>1. SubSeq(input, p + 1, q) \in Seq(Char)  BY RunType
<1>2. CASE q > p  BY <1>1, <1>2, DataCalled DEF RunData
<1>3. CASE ~(q > p)  BY <1>3, SilentCalled DEF RunData
<1> QED  BY <1>2, <1>3

\* The headers of a part.
LEMMA HeaderPass == ASSUME TypeOK, Header PROVE PassFacts
<1> USE DEF At, Consume, Exhaust, AutoType, States, BeforeParts
<1>0. Len(Boundary) \in Nat /\ Len(message.bytes) \in Nat  BY BoundaryAssumption, MessagesAssumption DEF TypeOK
<1>1. CASE HeadersEnd  BY <1>0, <1>1, SilentCalled, PartPass DEF HeadersEnd, TypeOK, input
<1>2. CASE HeaderField
  <2> PICK q \in RunEnds(NameChars) : HeaderField!3!(q)  BY <1>2 DEF HeaderField
  <2>1. q \in p..last  BY RunType
  <2>2. called' \in [on : SUBSET Callback, data : Seq(Char)] /\ called'.on \subseteq {"header_field"}
    BY RunCalled DEF Callback
  <2>3. state \in {"s_header_field_start", "s_header_field"} /\ UNCHANGED index  BY <1>2 DEF HeaderField
  <2>4. UNCHANGED <<message, last>> /\ p' \in p..last /\ state' \in States /\ failed' \in BOOLEAN
        /\ state' # "s_first_boundary"
    <3>1. p \in Nat /\ last \in Nat /\ q \in Nat /\ failed \in BOOLEAN  BY <1>0, <2>1 DEF TypeOK, input
    <3>2. CASE q = last /\ Exhaust(q, "s_header_field")  BY <2>1, <3>1, <3>2
    <3>3. CASE q < last /\ Exhaust(q + 1, "s_header_value_start")  BY <2>1, <3>1, <3>3
    <3>4. CASE failed' = TRUE /\ p' = q /\ state' = "s_header_field" /\ UNCHANGED <<message, last>>
      BY <2>1, <3>1, <3>4
    <3> QED  BY <3>2, <3>3, <3>4
  <2>5. index' \in 0..Len(Boundary)  BY <1>0, <2>3 DEF TypeOK
  <2>6. AutoType'
    <3> HIDE DEF AutoType, States
    <3> QED  BY <2>2, <2>4, <2>5, PartTypes
  <2> QED  BY <2>2, <2>3, <2>6, PartPass
<1>3. CASE SkipBlank  BY <1>0, <1>3, SilentCalled, PartPass DEF SkipBlank, TypeOK, input
<1>4. CASE HeaderValue
  <2> PICK q \in RunEnds(Char \ {CR}) : HeaderValue!3!(q)  BY <1>4 DEF HeaderValue
  <2>1. q \in p..last  BY RunType
  <2>2. called' \in [on : SUBSET Callback, data : Seq(Char)] /\ called'.on \subseteq {"header_value"}
    BY RunCalled DEF Callback
  <2>3. state \in {"s_header_value_start", "s_header_value"} /\ UNCHANGED index  BY <1>4 DEF HeaderValue
  <2>4. AutoType'  BY <1>0, <2>1, <2>2, <2>3 DEF TypeOK, input
  <2>5. state \notin BeforeParts \cup {"s_epilogue"} /\ "body_end" \notin called'.on  BY <2>2, <2>3
  <2> HIDE DEF AutoType, BeforeParts, Exhaust
  <2> QED  BY <2>4, <2>5, PartPass
<1>5. CASE HeaderValueCr
  <2>1. CASE c = LF  BY <1>0, <1>5, <2>1, SilentCalled, PartPass DEF HeaderValueCr, TypeOK, input
  <2>2. CASE c # LF  BY <1>0, <1>5, <2>2, SilentCalled, PartPass DEF HeaderValueCr, Error, TypeOK, input
  <2> QED  BY <2>1, <2>2
<1>6. CASE HeadersDone
  <2>1. state = "s_headers_done" /\ UNCHANGED index /\ p < last  BY <1>6 DEF HeadersDone, Error
  <2>2. called' \in [on : SUBSET Callback, data : Seq(Char)] /\ called'.on \subseteq {"headers_complete"}
    BY <1>6, NotifyCalled, SilentCalled DEF HeadersDone, Callback, Error
  <2>3. UNCHANGED <<message, last>> /\ p' \in p..last /\ state' \in States /\ failed' \in BOOLEAN
        /\ state' # "s_first_boundary"
    <3>1. UNCHANGED <<message, last>> /\ p' \in {p, p + 1} /\ state' \in {"s_headers_done", "s_data"}
          /\ failed' \in BOOLEAN
      BY <1>6, <2>1 DEF HeadersDone, Error, TypeOK
    <3>2. p \in Nat /\ last \in Nat  BY <1>0 DEF TypeOK, input
    <3> QED  BY <2>1, <3>1, <3>2
  <2>4. index' \in 0..Len(Boundary)  BY <1>0, <2>1 DEF TypeOK
  <2>5. AutoType'
    <3> HIDE DEF AutoType, States
    <3> QED  BY <2>2, <2>3, <2>4, PartTypes
  <2> QED  BY <2>1, <2>2, <2>5, PartPass
<1> QED  BY <1>1, <1>2, <1>3, <1>4, <1>5, <1>6 DEF Header

\* The body of a part.
LEMMA BodyPass == ASSUME TypeOK, Body PROVE PassFacts
<1> USE DEF At, Consume, Reexecute, Exhaust, AutoType, States, BeforeParts
<1>0. Len(Boundary) \in Nat /\ Len(message.bytes) \in Nat  BY BoundaryAssumption, MessagesAssumption DEF TypeOK
<1>1. CASE PartData
  <2> PICK q \in RunEnds(Char \ {CR}) : PartData!3!(q)  BY <1>1 DEF PartData
  <2>1. q \in p..last  BY RunType
  <2>2. called' \in [on : SUBSET Callback, data : Seq(Char)] /\ called'.on \subseteq {"data"}
    BY RunCalled DEF Callback
  <2>3. state = "s_data" /\ UNCHANGED index  BY <1>1 DEF PartData
  <2>4. AutoType'  BY <1>0, <2>1, <2>2, <2>3 DEF TypeOK, input
  <2> QED  BY <2>2, <2>3, <2>4, PartPass
<1>2. <<CR>> \in Seq(Char) /\ <<CR, LF>> \in Seq(Char) /\ <<CR, LF, HYPHEN>> \in Seq(Char)
  BY CharAssumption
<1>3. ASSUME DataCr \/ DataCrLf \/ DataCrLfHy PROVE PassFacts
  <2>1. called' \in [on : SUBSET Callback, data : Seq(Char)] /\ called'.on \subseteq {"data"}
    BY <1>2, <1>3, DataCalled, SilentCalled DEF DataCr, DataCrLf, DataCrLfHy, Callback
  <2>2. /\ state \in {"s_data_cr", "s_data_cr_lf", "s_data_cr_lf_hy"}
        /\ UNCHANGED <<index, message, last, failed>> /\ p < last /\ p' \in {p, p + 1}
        /\ state' \in {"s_data", "s_data_cr_lf", "s_data_cr_lf_hy", "s_data_boundary_start"}
    BY <1>3 DEF DataCr, DataCrLf, DataCrLfHy
  <2>3. AutoType'  BY <1>0, <2>1, <2>2 DEF TypeOK, input
  <2> QED  BY <2>1, <2>2, <2>3, PartPass
<1>4. CASE DataBoundary
  <2> DEFINE i == BoundaryIndex
  <2>1. i \in 0..Len(Boundary) /\ state \in {"s_data_boundary_start", "s_data_boundary"}
    BY <1>0, <1>4 DEF DataBoundary, BoundaryIndex, TypeOK
  <2>2. SubSeq(Boundary, 1, i) \in Seq(Char)
    <3> HIDE DEF i
    <3> QED  BY <1>0, <2>1, BoundaryAssumption, SubSeqProperties
  <2>3. called' \in [on : SUBSET Callback, data : Seq(Char)] /\ called'.on \subseteq {"data"}
    BY <1>4, <2>2, DataCalled, SilentCalled DEF DataBoundary, Callback
  <2>4. /\ UNCHANGED <<message, last, failed>> /\ p < last /\ p' \in {p, p + 1}
        /\ state' \in {"s_data", "s_data_boundary", "s_data_boundary_done"}
        /\ index' \in 0..Len(Boundary)
    BY <1>0, <1>4, <2>1 DEF DataBoundary
  <2>5. AutoType'  BY <1>0, <2>3, <2>4 DEF TypeOK, input
  <2> QED  BY <2>1, <2>3, <2>5, PartPass
<1> QED  BY <1>1, <1>3, <1>4 DEF Body

\* Behind a boundary.
LEMMA EndPass == ASSUME TypeOK, DataBoundaryDone \/ NextPart \/ LastPart \/ Epilogue PROVE PassFacts
<1> USE DEF At, Consume, AutoType, States, BeforeParts
<1>0. Len(Boundary) \in Nat /\ Len(message.bytes) \in Nat  BY BoundaryAssumption, MessagesAssumption DEF TypeOK
<1>1. CASE DataBoundaryDone
  <2>1. state = "s_data_boundary_done" /\ UNCHANGED <<index, message, last>> /\ p < last /\ p' \in {p, p + 1}
        /\ state' \in States \ {"s_first_boundary"} /\ failed' \in BOOLEAN /\ Silent
    BY <1>1 DEF DataBoundaryDone, Error, TypeOK
  <2>2. p' \in p..last /\ index' \in 0..Len(Boundary)  BY <1>0, <2>1 DEF TypeOK, input
  <2>3. AutoType'
    <3> HIDE DEF AutoType, States
    <3> QED  BY <2>1, <2>2, SilentCalled, PartTypes
  <2>4. state \notin BeforeParts \cup {"s_epilogue"} /\ "body_end" \notin called'.on  BY <2>1, SilentCalled
  <2> QED  BY <2>3, <2>4, PartPass
<1>2. CASE NextPart
  <2>1. called' \in [on : SUBSET Callback, data : Seq(Char)] /\ called'.on \subseteq {"part_end", "part_begin"}
    BY <1>2, NotifyCalled, SilentCalled DEF NextPart, Error, Callback
  <2>2. state = "s_data_boundary_done_cr_lf" /\ p < last  BY <1>2 DEF NextPart
  <2>3. UNCHANGED <<index, message, last>> /\ p' \in {p, p + 1} /\ failed' \in BOOLEAN
        /\ state' \in States \ {"s_first_boundary"}
    BY <1>2 DEF NextPart, Error, TypeOK
  <2>4. p' \in p..last /\ index' \in 0..Len(Boundary)  BY <1>0, <2>2, <2>3 DEF TypeOK, input
  <2>5. AutoType'
    <3> HIDE DEF AutoType, States
    <3> QED  BY <2>1, <2>3, <2>4, PartTypes
  <2> QED  BY <2>1, <2>2, <2>5, PartPass
<1>3. CASE LastPart
  <2>1. state = "s_data_boundary_done_hy_hy" /\ p < last /\ ~failed  BY <1>3 DEF LastPart
  <2>2. CASE c = HYPHEN
    <3>1. called' \in [on : SUBSET Callback, data : Seq(Char)] /\ called'.on = {"part_end", "body_end"}
      BY <1>3, <2>2, NotifyCalled DEF LastPart, Callback
    <3>2. AutoType'  BY <1>0, <1>3, <2>1, <2>2, <3>1 DEF LastPart, TypeOK, input
    <3> QED  BY <1>3, <2>1, <2>2, <3>1, <3>2 DEF LastPart, PassFacts, Uses
  <2>3. CASE c # HYPHEN
    <3>1. called' \in [on : SUBSET Callback, data : Seq(Char)] /\ called'.on = {}
      BY <1>3, <2>3, SilentCalled DEF LastPart, Error
    <3>2. AutoType'  BY <1>0, <1>3, <2>1, <2>3, <3>1 DEF LastPart, Error, TypeOK, input
    <3> QED  BY <2>1, <3>1, <3>2, PartPass
  <2> QED  BY <2>2, <2>3
<1>4. CASE Epilogue
  BY <1>0, <1>4, CalledTypes DEF Epilogue, Silent, Silence, PassFacts, Uses, TypeOK, input
<1> QED  BY <1>1, <1>2, <1>3, <1>4

\* Any pass through the switch.
LEMMA ExecutePass == ASSUME TypeOK, Execute PROVE PassFacts
BY FirstPass, HeaderPass, BodyPass, EndPass DEF Execute

-----------------------------------------------------------------------------
(* The callbacks.                                                          *)

\* The class's part of TypeOK.
ClassType ==
    /\ body_beg_called_ \in BOOLEAN /\ body_end_called_ \in BOOLEAN
    /\ header_name_ \in Seq(Char) /\ header_value_ \in Seq(Char)
    /\ parts_ \in Seq(PartType)

\* A finished header goes into the last part.
LEMMA HeaderDone ==
    ASSUME TypeOK, parts_ # <<>>, OnHeaderDone
    PROVE  parts_' \in Seq(PartType) /\ parts_' # <<>>
<1>1. Len(parts_) \in 1..Len(parts_) /\ parts_[Len(parts_)] \in PartType
  BY DEF TypeOK
<1>2. ASSUME NEW part \in PartType PROVE WithHeader(part) \in PartType
  <2>1. [name |-> header_name_, value |-> header_value_] \in [name : Seq(Char), value : Seq(Char)]
    BY DEF TypeOK
  <2> DEFINE headers == {h \in part.headers : h.name # header_name_}
                            \cup {[name |-> header_name_, value |-> header_value_]}
  <2>2. part.headers \in SUBSET [name : Seq(Char), value : Seq(Char)]  BY DEF PartType
  <2>3. headers \in SUBSET [name : Seq(Char), value : Seq(Char)]  BY <2>1, <2>2
  <2>4. WithHeader(part) = [part EXCEPT !.headers = headers]  BY DEF WithHeader
  <2> HIDE DEF headers
  <2> QED  BY <2>3, <2>4 DEF PartType
<1>3. parts_' = [parts_ EXCEPT ![Len(parts_)] = WithHeader(parts_[Len(parts_)])]
  BY DEF OnHeaderDone
<1>4. parts_' \in Seq(PartType) /\ Len(parts_') = Len(parts_)
  BY <1>1, <1>2, <1>3, ExceptSeq DEF TypeOK
<1> QED  BY <1>1, <1>4

\* The callbacks keep the class's types, and never lose a part.
LEMMA CallbacksPass ==
    ASSUME TypeOK, AutoType', Callbacks, called'.on \cap Uses # {} => parts_ # <<>>
    PROVE  /\ ClassType'
           /\ parts_ # <<>> => parts_' # <<>>
           /\ "part_begin" \in called'.on => parts_' # <<>>
<1>0. called'.data \in Seq(Char) /\ header_name_ \in Seq(Char) /\ header_value_ \in Seq(Char)
      /\ parts_ \in Seq(PartType)
  BY DEF AutoType, TypeOK
<1>1. (body_beg_called_ \in BOOLEAN /\ body_end_called_ \in BOOLEAN)'
  BY DEF TypeOK, Callbacks
<1>2. header_name_ \o called'.data \in Seq(Char) /\ header_value_ \o called'.data \in Seq(Char)
      /\ <<>> \in Seq(Char)
  BY <1>0, ConcatProperties, EmptySeq
<1>3. CASE OnPartBegin
  <2>1. [headers |-> {}, body |-> <<>>] \in PartType  BY DEF PartType
  <2> QED  BY <1>0, <1>1, <1>3, <2>1, AppendProperties DEF OnPartBegin, ClassType
<1>4. CASE OnHeaderField
  BY <1>0, <1>1, <1>2, <1>4, HeaderDone DEF OnHeaderField, ClassType, Uses
<1>5. CASE OnHeaderValue
  BY <1>0, <1>1, <1>2, <1>5 DEF OnHeaderValue, ClassType, Uses
<1>6. CASE OnHeadersComplete
  BY <1>0, <1>1, <1>2, <1>6, HeaderDone DEF OnHeadersComplete, ClassType, Uses
<1>7. CASE OnData
  <2>1. parts_ # <<>>  BY <1>7 DEF OnData, Uses
  <2>2. Len(parts_) \in 1..Len(parts_) /\ parts_[Len(parts_)] \in PartType  BY <1>0, <2>1
  <2>3. parts_[Len(parts_)].body \o called'.data \in Seq(Char)
    BY <1>0, <2>2, ConcatProperties DEF PartType
  <2> DEFINE part == [parts_[Len(parts_)] EXCEPT !.body = @ \o called'.data]
  <2>4. part \in PartType  BY <2>2, <2>3 DEF PartType
  <2>5. parts_' = [parts_ EXCEPT ![Len(parts_)] = part] /\ UNCHANGED <<header_name_, header_value_>>
    BY <1>7 DEF OnData
  <2> HIDE DEF part
  <2>6. parts_' \in Seq(PartType) /\ Len(parts_') = Len(parts_)
    BY <1>0, <2>2, <2>4, <2>5, ExceptSeq
  <2> QED  BY <1>0, <1>1, <2>2, <2>5, <2>6 DEF ClassType
<1>8. CASE OnNone
  BY <1>0, <1>1, <1>8 DEF OnNone, ClassType
<1> QED  BY <1>3, <1>4, <1>5, <1>6, <1>7, <1>8 DEF Callbacks

-----------------------------------------------------------------------------
(* The theorems.                                                           *)

\* The two parts of TypeOK, now and in the next state.
LEMMA Types == AutoType /\ ClassType => TypeOK
BY DEF TypeOK, AutoType, ClassType

\* The same of the next state.
LEMMA TypesNext == AutoType' /\ ClassType' => TypeOK'
BY DEF TypeOK, AutoType, ClassType

\* The invariant holds initially.
LEMMA InitInv == Init => IInv
<1> SUFFICES ASSUME Init PROVE IInv  OBVIOUS
<1>1. Len(Boundary) \in Nat /\ Len(input) \in Nat
  BY BoundaryAssumption, MessagesAssumption DEF Init, AutomatonInit, input
<1>2. AutoType
  <2>1. called \in [on : SUBSET Callback, data : Seq(Char)]
    BY CalledTypes DEF Init, AutomatonInit
  <2>2. last \in 0..Len(input) /\ p \in 0..last  BY <1>1 DEF Init, AutomatonInit
  <2>3. index = 0 /\ state = "s_preamble"  BY DEF Init, AutomatonInit
  <2>4. index \in 0..(IF state = "s_first_boundary" THEN Len(Boundary) + 1 ELSE Len(Boundary))
    BY <1>1, <2>3
  <2> QED  BY <2>1, <2>2, <2>3, <2>4 DEF Init, AutomatonInit, AutoType, States
<1>3. ClassType  BY EmptySeq DEF Init, ClassType
<1>4. PartIsOpen /\ AtEnd
  BY DEF Init, AutomatonInit, PartIsOpen, AtEnd, BeforeParts, Silence
<1> QED  BY <1>2, <1>3, <1>4, Types DEF IInv

\* A call changes nothing but what is there to be parsed.
LEMMA CallInv == ASSUME IInv, Call, UNCHANGED classVars PROVE IInv'
<1>1. PICK n \in (last + 1)..Len(input) : last' = n  BY DEF Call
<1>2. last' \in 0..Len(input) /\ p \in 0..last'
  BY <1>1, MessagesAssumption DEF IInv, TypeOK, input
<1>3. AutoType'
  BY <1>2, SilentCalled DEF Call, IInv, TypeOK, AutoType, input
<1>4. ClassType' /\ AtEnd'  BY DEF Call, IInv, TypeOK, ClassType, classVars, AtEnd
<1>5. PartIsOpen'
  BY SilentCalled DEF Call, IInv, classVars, PartIsOpen, BeforeParts
<1> QED  BY <1>3, <1>4, <1>5, TypesNext DEF IInv

\* Every step preserves the invariant.
LEMMA StepInv == IInv /\ [Next]_vars => IInv'
<1> SUFFICES ASSUME IInv, [Next]_vars PROVE IInv'  OBVIOUS
<1>1. CASE ParserData
  <2>1. PassFacts  BY <1>1, ExecutePass DEF ParserData, IInv
  <2>2. called'.on \cap Uses # {} => parts_ # <<>>
    BY <2>1 DEF PassFacts, IInv, PartIsOpen
  <2>3. /\ ClassType'
        /\ parts_ # <<>> => parts_' # <<>>
        /\ "part_begin" \in called'.on => parts_' # <<>>
    BY <1>1, <2>1, <2>2, CallbacksPass DEF ParserData, IInv, PassFacts
  <2>4. PartIsOpen'
    BY <1>1, <2>1, <2>2, <2>3 DEF PassFacts, IInv, PartIsOpen, ParserData, Callbacks, Uses, BeforeParts
  <2>5. AtEnd'
    BY <1>1, <2>1 DEF PassFacts, IInv, AtEnd, ParserData, Callbacks
  <2> QED  BY <2>1, <2>3, <2>4, <2>5, TypesNext DEF IInv, PassFacts
<1>2. CASE Call /\ UNCHANGED classVars  BY <1>2, CallInv
<1>3. CASE UNCHANGED vars
  BY <1>3 DEF vars, IInv, TypeOK, PartIsOpen, AtEnd, input
<1> QED  BY <1>1, <1>2, <1>3 DEF Next

\* The inductive invariant holds in every reachable state.
THEOREM Invariant == Spec => []IInv
BY InitInv, StepInv, PTL DEF Spec

\* The boundary is read only within its length.
THEOREM TypeCorrect == Spec => []TypeOK
BY Invariant, PTL DEF IInv

\* No header and no data is reported before a part has begun.
THEOREM PartOpened == Spec => []PartIsOpen
BY Invariant, PTL DEF IInv

\* What follows the last boundary changes nothing.
THEOREM EpilogueInert == Spec => EpilogueIgnored
<1>1. IInv /\ [Next]_vars => [body_end_called_ => UNCHANGED <<failed, index, header_name_, header_value_, parts_>>]_vars
  <2> SUFFICES ASSUME IInv, Next, body_end_called_
               PROVE  UNCHANGED <<failed, index, header_name_, header_value_, parts_>>
    OBVIOUS
  <2>1. CASE ParserData
    <3>1. UNCHANGED <<failed, index>> /\ called' = Silence
      BY <2>1, ExecutePass DEF ParserData, IInv, AtEnd, PassFacts
    <3>2. called'.on = {}  BY <3>1 DEF Silence
    <3> QED  BY <2>1, <3>1, <3>2 DEF ParserData, Callbacks, OnPartBegin, OnHeaderField, OnHeaderValue,
                                     OnHeadersComplete, OnData, OnNone
  <2>2. CASE Call /\ UNCHANGED classVars  BY <2>2 DEF Call, classVars
  <2> QED  BY <2>1, <2>2 DEF Next
<1> QED  BY <1>1, Invariant, PTL DEF Spec, EpilogueIgnored
-----------------------------------------------------------------------------
(* Induction: the least number outside a set.                              *)

\* The order of the naturals, as a relation.
LessThan == {ss \in Nat \X Nat : ss[1] < ss[2]}

\* A set of naturals that is not empty has a least member.
LEMMA Least == ASSUME NEW T \in SUBSET Nat, T # {} PROVE \E m \in T : \A k \in T : m <= k
<1>1. IsWellFoundedOn(LessThan, Nat)  BY NatLessThanWellFounded DEF OpToRel, LessThan
<1>2. PICK m \in T : \A y \in T : <<y, m>> \notin LessThan
  <2>1. \E m \in T : \A y \in T : ~ (<<y, m>> \in LessThan)  BY <1>1, WFMin
  <2> QED  BY <2>1
<1>3. ASSUME NEW k \in T PROVE m <= k
  <2>1. k \in Nat /\ m \in Nat /\ <<k, m>> \notin LessThan  BY <1>2
  <2> QED  BY <2>1 DEF LessThan
<1> QED  BY <1>3

\* A set with a and with the successor of each member below b has all from a to b.
LEMMA SetInduction ==
    ASSUME NEW S, NEW a \in Nat, NEW b \in Nat, a \in S, \A n \in a..(b - 1) : n \in S => n + 1 \in S
    PROVE  \A n \in a..b : n \in S
<1> SUFFICES ASSUME NEW n \in a..b, n \notin S PROVE FALSE  OBVIOUS
<1> DEFINE T == {k \in a..b : k \notin S}
<1>1. T \in SUBSET Nat /\ T # {}  OBVIOUS
<1>2. PICK m \in T : \A k \in T : m <= k  BY <1>1, Least
<1>3. m # a /\ m \in a..b /\ m \notin S  OBVIOUS
<1>4. m - 1 \in a..(b - 1) /\ m - 1 \notin T  BY <1>2, <1>3
<1>5. m - 1 \in S  BY <1>4
<1>6. (m - 1) + 1 \in S  BY <1>4, <1>5
<1> QED  BY <1>3, <1>6

-----------------------------------------------------------------------------
(* Reading one character after another.                                    *)

\* The function exists, for every number of characters.
LEMMA ReadingDef ==
    ASSUME NEW bytes \in Seq(Char)
    PROVE  Reading(bytes) = [n \in 0..Len(bytes) |->
                               IF n = 0 THEN Start ELSE After(Reading(bytes)[n - 1], bytes[n])]
<1> DEFINE Is(r, n) == r = [k \in 0..n |-> IF k = 0 THEN Start ELSE After(r[k - 1], bytes[k])]
           S == {n \in 0..Len(bytes) : \E r : Is(r, n)}
<1>0. Len(bytes) \in Nat  OBVIOUS
<1>1. 0 \in S
  <2>1. Is([k \in {0} |-> Start], 0)  OBVIOUS
  <2> HIDE DEF Is
  <2> QED  BY <1>0, <2>1
<1>2. ASSUME NEW n \in 0..(Len(bytes) - 1), n \in S PROVE n + 1 \in S
  <2>1. PICK r : Is(r, n)  BY <1>2
  <2> DEFINE s == [k \in 0..(n + 1) |-> IF k = n + 1 THEN After(r[n], bytes[n + 1]) ELSE r[k]]
  <2>2. \A k \in 0..(n + 1) : s[k] = IF k = 0 THEN Start ELSE After(s[k - 1], bytes[k])
    <3> TAKE k \in 0..(n + 1)
    <3>1. CASE k = n + 1  BY <3>1
    <3>2. CASE k # n + 1  BY <2>1, <3>2
    <3> QED  BY <3>1, <3>2
  <2>3. Is(s, n + 1)  BY <2>2
  <2> HIDE DEF Is, s
  <2> QED  BY <1>0, <2>3
<1>3. Len(bytes) \in S
  <2> HIDE DEF S
  <2>1. \A n \in 0..Len(bytes) : n \in S  BY <1>0, <1>1, <1>2, SetInduction
  <2> QED  BY <1>0, <2>1
<1>4. \E r : Is(r, Len(bytes))  BY <1>3
<1> QED  BY <1>4 DEF Reading

\* Its values: what was known before, and one more character.
LEMMA ReadingStep ==
    ASSUME NEW bytes \in Seq(Char)
    PROVE  /\ Reading(bytes)[0] = Start
           /\ \A n \in 0..(Len(bytes) - 1) :
                Reading(bytes)[n + 1] = After(Reading(bytes)[n], bytes[n + 1])
<1>1. Len(bytes) \in Nat  OBVIOUS
<1> DEFINE R == Reading(bytes)
<1>2. R = [n \in 0..Len(bytes) |-> IF n = 0 THEN Start ELSE After(R[n - 1], bytes[n])]
  BY ReadingDef
<1> HIDE DEF R
<1>3. R[0] = Start  BY <1>1, <1>2
<1>4. ASSUME NEW n \in 0..(Len(bytes) - 1) PROVE R[n + 1] = After(R[n], bytes[n + 1])
  BY <1>1, <1>2
<1> QED  BY <1>3, <1>4 DEF R

\* What is wrong stays wrong, and the end is the end: from there on nothing changes.
LEMMA Settled ==
    ASSUME NEW bytes \in Seq(Char), NEW k \in 0..Len(bytes), NEW n \in k..Len(bytes),
           Reading(bytes)[k].failed \/ Reading(bytes)[k].state = "s_epilogue"
    PROVE  Reading(bytes)[n] = Reading(bytes)[k]
<1> DEFINE R == Reading(bytes)
           S == {m \in k..Len(bytes) : R[m] = R[k]}
<1>0. Len(bytes) \in Nat /\ k \in Nat  OBVIOUS
<1>1. k \in S  BY <1>0
<1>2. ASSUME NEW m \in k..(Len(bytes) - 1), m \in S PROVE m + 1 \in S
  <2>1. R[m + 1] = After(R[m], bytes[m + 1])  BY <1>0, ReadingStep
  <2>2. R[m] = R[k]  BY <1>2
  <2> HIDE DEF R
  <2>3. After(R[m], bytes[m + 1]) = R[m]
    <3>1. R[k].failed \/ R[k].state = "s_epilogue"  BY DEF R
    <3> QED  BY <2>2, <3>1 DEF After
  <2> QED  BY <1>0, <2>1, <2>2, <2>3
<1>3. \A m \in k..Len(bytes) : m \in S
  <2> HIDE DEF S
  <2> QED  BY <1>0, <1>1, <1>2, SetInduction
<1> QED  BY <1>3

-----------------------------------------------------------------------------
(* What a pass makes of View.                                              *)

\* A flag that is set.
Yes == TRUE

\* A record of what is known.
Known(s, i, f, b, e, n, v, ps) ==
    [state |-> s, index |-> i, failed |-> f, begun |-> b, ended |-> e, name |-> n, value |-> v, parts |-> ps]

\* Its fields.
LEMMA KnownFields ==
    ASSUME NEW s, NEW i, NEW f, NEW b, NEW e, NEW n, NEW v, NEW ps
    PROVE  LET r == Known(s, i, f, b, e, n, v, ps) IN
           /\ r.state = s /\ r.index = i /\ r.failed = f /\ r.begun = b /\ r.ended = e
           /\ r.name = n /\ r.value = v /\ r.parts = ps
BY DEF Known

\* What the updates make of it.
LEMMA KnownUpdates ==
    /\ \A s, i, f, b, e, n, v, ps, x : To(Known(s, i, f, b, e, n, v, ps), x) = Known(x, i, f, b, e, n, v, ps)
    /\ \A s, i, f, b, e, n, v, ps, x : AtIndex(Known(s, i, f, b, e, n, v, ps), x) = Known(s, x, f, b, e, n, v, ps)
    /\ \A s, i, f, b, e, n, v, ps : Wrong(Known(s, i, f, b, e, n, v, ps)) = Known(s, i, Yes, b, e, n, v, ps)
    /\ \A s, i, f, b, e, n, v, ps : Begun(Known(s, i, f, b, e, n, v, ps)) = Known(s, i, f, Yes, e, n, v, ps)
    /\ \A s, i, f, b, e, n, v, ps : Ended(Known(s, i, f, b, e, n, v, ps)) = Known(s, i, f, b, Yes, n, v, ps)
    /\ \A s, i, f, b, e, n, v, ps, x : WithName(Known(s, i, f, b, e, n, v, ps), x) = Known(s, i, f, b, e, n \o x, v, ps)
    /\ \A s, i, f, b, e, n, v, ps, x : WithValue(Known(s, i, f, b, e, n, v, ps), x) = Known(s, i, f, b, e, n, v \o x, ps)
    /\ \A s, i, f, b, e, n, v, ps : WithPart(Known(s, i, f, b, e, n, v, ps)) = Known(s, i, f, b, e, n, v, PartBegun(ps))
    /\ \A s, i, f, b, e, n, v, ps, x : WithData(Known(s, i, f, b, e, n, v, ps), x) = Known(s, i, f, b, e, n, v, MoreData(ps, x))
<1>1. \A s, i, f, b, e, n, v, ps, x :
        To(Known(s, i, f, b, e, n, v, ps), x) = Known(x, i, f, b, e, n, v, ps)
  BY DEF Known, To
<1>2. \A s, i, f, b, e, n, v, ps, x :
        AtIndex(Known(s, i, f, b, e, n, v, ps), x) = Known(s, x, f, b, e, n, v, ps)
  BY DEF Known, AtIndex
<1>3. \A s, i, f, b, e, n, v, ps :
        Wrong(Known(s, i, f, b, e, n, v, ps)) = Known(s, i, Yes, b, e, n, v, ps)
  <2> TAKE s, i, f, b, e, n, v, ps
  <2> DEFINE r == Known(s, i, f, b, e, n, v, ps)
  <2>1. \A y : [r EXCEPT !.failed = y] = Known(s, i, y, b, e, n, v, ps)  BY DEF Known
  <2> HIDE DEF r
  <2>2. Wrong(r) = [r EXCEPT !.failed = Yes]  BY DEF Wrong, Yes
  <2> QED  BY <2>1, <2>2 DEF r
<1>4. \A s, i, f, b, e, n, v, ps :
        Begun(Known(s, i, f, b, e, n, v, ps)) = Known(s, i, f, Yes, e, n, v, ps)
  <2> TAKE s, i, f, b, e, n, v, ps
  <2> DEFINE r == Known(s, i, f, b, e, n, v, ps)
  <2>1. \A y : [r EXCEPT !.begun = y] = Known(s, i, f, y, e, n, v, ps)  BY DEF Known
  <2> HIDE DEF r
  <2>2. Begun(r) = [r EXCEPT !.begun = Yes]  BY DEF Begun, Yes
  <2> QED  BY <2>1, <2>2 DEF r
<1>5. \A s, i, f, b, e, n, v, ps :
        Ended(Known(s, i, f, b, e, n, v, ps)) = Known(s, i, f, b, Yes, n, v, ps)
  <2> TAKE s, i, f, b, e, n, v, ps
  <2> DEFINE r == Known(s, i, f, b, e, n, v, ps)
  <2>1. \A y : [r EXCEPT !.ended = y] = Known(s, i, f, b, y, n, v, ps)  BY DEF Known
  <2> HIDE DEF r
  <2>2. Ended(r) = [r EXCEPT !.ended = Yes]  BY DEF Ended, Yes
  <2> QED  BY <2>1, <2>2 DEF r
<1>6. \A s, i, f, b, e, n, v, ps, x :
        WithName(Known(s, i, f, b, e, n, v, ps), x) = Known(s, i, f, b, e, n \o x, v, ps)
  <2> TAKE s, i, f, b, e, n, v, ps, x
  <2> DEFINE r == Known(s, i, f, b, e, n, v, ps)
  <2>1. r.name = n  BY DEF Known
  <2>2. \A y : [r EXCEPT !.name = y] = Known(s, i, f, b, e, y, v, ps)  BY DEF Known
  <2> HIDE DEF r
  <2> QED  BY <2>1, <2>2 DEF WithName, r
<1>7. \A s, i, f, b, e, n, v, ps, x :
        WithValue(Known(s, i, f, b, e, n, v, ps), x) = Known(s, i, f, b, e, n, v \o x, ps)
  <2> TAKE s, i, f, b, e, n, v, ps, x
  <2> DEFINE r == Known(s, i, f, b, e, n, v, ps)
  <2>1. r.value = v  BY DEF Known
  <2>2. \A y : [r EXCEPT !.value = y] = Known(s, i, f, b, e, n, y, ps)  BY DEF Known
  <2> HIDE DEF r
  <2> QED  BY <2>1, <2>2 DEF WithValue, r
<1>8. \A s, i, f, b, e, n, v, ps :
        WithPart(Known(s, i, f, b, e, n, v, ps)) = Known(s, i, f, b, e, n, v, PartBegun(ps))
  <2> TAKE s, i, f, b, e, n, v, ps
  <2> DEFINE r == Known(s, i, f, b, e, n, v, ps)
  <2>1. r.parts = ps  BY DEF Known
  <2>2. \A y : [r EXCEPT !.parts = y] = Known(s, i, f, b, e, n, v, y)  BY DEF Known
  <2> HIDE DEF r
  <2> QED  BY <2>1, <2>2 DEF WithPart, r
<1>9. \A s, i, f, b, e, n, v, ps, x :
        WithData(Known(s, i, f, b, e, n, v, ps), x) = Known(s, i, f, b, e, n, v, MoreData(ps, x))
  <2> TAKE s, i, f, b, e, n, v, ps, x
  <2> DEFINE r == Known(s, i, f, b, e, n, v, ps)
  <2>1. r.parts = ps  BY DEF Known
  <2>2. \A y : [r EXCEPT !.parts = y] = Known(s, i, f, b, e, n, v, y)  BY DEF Known
  <2> HIDE DEF r
  <2> QED  BY <2>1, <2>2 DEF WithData, r
<1> QED  BY <1>1, <1>2, <1>3, <1>4, <1>5, <1>6, <1>7, <1>8, <1>9

\* What filing its header makes of it.
LEMMA KnownFiled ==
    \A s, i, f, b, e, n, v, ps :
        /\ v = Empty => Filed(Known(s, i, f, b, e, n, v, ps)) = Known(s, i, f, b, e, n, v, ps)
        /\ v # Empty => Filed(Known(s, i, f, b, e, n, v, ps)) =
                            Known(s, i, f, b, e, Empty, Empty, HeaderIn(ps, [name |-> n, value |-> v]))
<1> TAKE s, i, f, b, e, n, v, ps
<1> DEFINE r == Known(s, i, f, b, e, n, v, ps)
           new == HeaderIn(ps, [name |-> n, value |-> v])
           r1 == [r EXCEPT !.parts = new]
           r2 == [r1 EXCEPT !.name = Empty]
           r3 == [r2 EXCEPT !.value = Empty]
<1>1. r.name = n /\ r.value = v /\ r.parts = ps  BY KnownFields
<1>2. r1 = Known(s, i, f, b, e, n, v, new)
  <2> HIDE DEF new
  <2> QED  BY DEF Known
<1>3. r2 = Known(s, i, f, b, e, Empty, v, new)
  <2> HIDE DEF new, r1
  <2> QED  BY <1>2 DEF Known
<1>4. r3 = Known(s, i, f, b, e, Empty, Empty, new)
  <2> HIDE DEF new, r2
  <2> QED  BY <1>3 DEF Known
<1>5. [r EXCEPT !.parts = new, !.name = Empty, !.value = Empty] = r3  OBVIOUS
<1> HIDE DEF r, new, r3
<1>6. CASE v = Empty  BY <1>1, <1>6 DEF Filed, r
<1>7. CASE v # Empty
  <2>1. Filed(r) = [r EXCEPT !.parts = new, !.name = Empty, !.value = Empty]
    BY <1>1, <1>7 DEF Filed, new
  <2> QED  BY <1>4, <1>5, <1>7, <2>1 DEF r, new
<1> QED  BY <1>6, <1>7

\* View is one, now and in the next state.
LEMMA ViewKnown ==
    /\ View = Known(state, index, failed, body_beg_called_, body_end_called_, header_name_, header_value_, parts_)
    /\ View' = Known(state', index', failed', body_beg_called_', body_end_called_', header_name_',
                     header_value_', parts_')
<1>1. View = Known(state, index, failed, body_beg_called_, body_end_called_, header_name_, header_value_, parts_)
  BY DEF View, Known
<1>2. View' = Known(state', index', failed', body_beg_called_', body_end_called_', header_name_',
                    header_value_', parts_')
  BY DEF View, Known
<1> QED  BY <1>1, <1>2

\* A pass that calls nothing back.
LEMMA SilentClass ==
    ASSUME TypeOK, Callbacks, Silent
    PROVE  UNCHANGED <<body_beg_called_, body_end_called_, header_name_, header_value_, parts_>>
<1>1. called'.on = {}  BY SilentCalled
<1> QED
  BY <1>1 DEF Callbacks, TypeOK, OnPartBegin, OnHeaderField, OnHeaderValue, OnHeadersComplete, OnData, OnNone

\* Where it goes.
LEMMA SilentView ==
    ASSUME TypeOK, Callbacks, Silent, UNCHANGED failed
    PROVE  View' = To(AtIndex(View, index'), state')
BY SilentClass, ViewKnown, KnownUpdates

\* A pass that reports data.
LEMMA DataView ==
    ASSUME TypeOK, Callbacks, NEW d, Data("data", d), UNCHANGED failed
    PROVE  View' = To(WithData(AtIndex(View, index'), d), state')
<1>1. called'.on = {"data"} /\ called'.data = d  BY DEF Data
<1>2. /\ UNCHANGED <<body_beg_called_, body_end_called_, header_name_, header_value_>>
      /\ parts_' = MoreData(parts_, d)
  BY <1>1 DEF Callbacks, TypeOK, OnPartBegin, OnHeaderField, OnHeaderValue, OnHeadersComplete, OnData, OnNone,
              MoreData
<1> QED  BY <1>2, ViewKnown, KnownUpdates

\* A pass that reports a run of a value.
LEMMA ValueView ==
    ASSUME TypeOK, Callbacks, NEW d, Data("header_value", d), UNCHANGED <<index, failed>>
    PROVE  View' = To(WithValue(View, d), state')
<1>1. called'.on = {"header_value"} /\ called'.data = d  BY DEF Data
<1>2. UNCHANGED <<body_beg_called_, body_end_called_, header_name_, parts_>> /\ header_value_' = header_value_ \o d
  BY <1>1 DEF Callbacks, TypeOK, OnPartBegin, OnHeaderField, OnHeaderValue, OnHeadersComplete, OnData, OnNone
<1> QED  BY <1>2, ViewKnown, KnownUpdates

\* Filing a header is what on_header_field and on_headers_complete do.
LEMMA HeaderDoneParts ==
    ASSUME OnHeaderDone
    PROVE  parts_' = HeaderIn(parts_, [name |-> header_name_, value |-> header_value_])
<1> DEFINE h == [name |-> header_name_, value |-> header_value_]
           headers == {g \in parts_[Len(parts_)].headers : g.name # header_name_} \cup {h}
<1>1. parts_' = [parts_ EXCEPT ![Len(parts_)] = WithHeader(parts_[Len(parts_)])]  BY DEF OnHeaderDone
<1>2. WithHeader(parts_[Len(parts_)]) = [parts_[Len(parts_)] EXCEPT !.headers = headers]  BY DEF WithHeader
<1>3. h.name = header_name_  OBVIOUS
<1> HIDE DEF h
<1>4. HeaderIn(parts_, h) = [parts_ EXCEPT ![Len(parts_)].headers = headers]  BY <1>3 DEF HeaderIn
<1> HIDE DEF headers
<1> QED  BY <1>1, <1>2, <1>4 DEF h

\* A pass that reports a run of a name.
LEMMA NameView ==
    ASSUME TypeOK, Callbacks, NEW d \in Seq(Char), Data("header_field", d), UNCHANGED <<index, failed>>
    PROVE  View' = To(WithName(Filed(View), d), state')
<1>1. called'.on = {"header_field"} /\ called'.data = d  BY DEF Data
<1>2. OnHeaderField /\ UNCHANGED <<body_beg_called_, body_end_called_>>
  BY <1>1 DEF Callbacks, TypeOK, OnPartBegin, OnHeaderField, OnHeaderValue, OnHeadersComplete, OnData, OnNone
<1>3. CASE header_value_ = Empty
  <2>1. header_name_' = header_name_ \o d /\ UNCHANGED <<header_value_, parts_>>
    BY <1>1, <1>2, <1>3 DEF OnHeaderField, Empty
  <2>2. Filed(View) = View
    <3>1. View.value = Empty  BY <1>3 DEF View
    <3> QED  BY <3>1 DEF Filed
  <2> QED  BY <1>2, <2>1, <2>2, ViewKnown, KnownUpdates
<1>4. CASE header_value_ # Empty
  <2>1. header_name_' = Empty \o d /\ header_value_' = Empty
    BY <1>1, <1>2, <1>4, ConcatEmptySeq DEF OnHeaderField, Empty
  <2>2. parts_' = HeaderIn(parts_, [name |-> header_name_, value |-> header_value_])
    BY <1>1, <1>2, <1>4, HeaderDoneParts DEF OnHeaderField, Empty
  <2>3. Filed(View) = Known(state, index, failed, body_beg_called_, body_end_called_, Empty, Empty, parts_')
    BY <1>4, <2>2, ViewKnown, KnownFiled
  <2> QED  BY <1>2, <2>1, <2>3, ViewKnown, KnownUpdates
<1> QED  BY <1>3, <1>4

-----------------------------------------------------------------------------
(* The parser is where the reading is.                                     *)

\* Where the parser looks at a character again, it is where it will be behind it.
Tracks ==
    /\ ~Reading(input)[p].failed
    /\ ~failed /\ p = last => View = Reading(input)[p]
    /\ ~failed /\ p < last => After(View, c) = Reading(input)[p + 1]
    /\ failed => p < last /\ Reading(input)[p + 1].failed

\* The reading of this message.
LEMMA Read ==
    ASSUME TypeOK
    PROVE  /\ input \in Seq(Char) /\ p \in Nat /\ last \in Nat /\ p <= last /\ last <= Len(input)
           /\ Len(input) \in Nat
           /\ Reading(input)[0] = Start
           /\ \A n \in 0..(Len(input) - 1) :
                Reading(input)[n + 1] = After(Reading(input)[n], input[n + 1])
<1>1. input \in Seq(Char)  BY MessagesAssumption DEF TypeOK, input
<1>2. p \in Nat /\ last \in Nat /\ p <= last /\ last <= Len(input) /\ Len(input) \in Nat
  BY <1>1 DEF TypeOK
<1> QED  BY <1>1, <1>2, ReadingStep

\* A pass ends behind q characters, with what is known after them.
LEMMA Arrived ==
    ASSUME TypeOK, UNCHANGED <<message, last>>, NEW q \in p..last, p' = q, ~failed', View' = Reading(input)[q]
    PROVE  Tracks'
<1> DEFINE R == Reading(input)
<1>1. q \in Nat /\ last \in Nat /\ last <= Len(input) /\ Len(input) \in Nat /\ q <= last  BY Read
<1>2. input' = input  BY DEF input
<1>3. R' = R /\ c' = input[q + 1]  BY <1>2 DEF c
<1>4. ~R[q].failed  BY DEF View
<1>5. q < last => After(R[q], input[q + 1]) = R[q + 1]
  BY <1>1, Read
<1> HIDE DEF R
<1> QED  BY <1>1, <1>2, <1>3, <1>4, <1>5 DEF Tracks, R

\* A pass that reads one character.
LEMMA Consumed ==
    ASSUME TypeOK, Tracks, ~failed, ~failed', p < last, p' = p + 1, UNCHANGED <<message, last>>,
           View' = After(View, c)
    PROVE  Tracks'
<1>1. p + 1 \in p..last  BY Read
<1>2. View' = Reading(input)[p + 1]  BY DEF Tracks
<1> QED  BY <1>1, <1>2, Arrived

\* A pass that looks at the character again.
LEMMA LookedAgain ==
    ASSUME TypeOK, Tracks, ~failed, ~failed', p < last, p' = p, UNCHANGED <<message, last>>,
           After(View', c) = After(View, c)
    PROVE  Tracks'
<1>1. input' = input /\ c' = c  BY DEF input, c
<1>2. p \in Nat /\ last \in Nat  BY Read
<1> QED  BY <1>1, <1>2 DEF Tracks

\* A pass that rejects the character behind q others.
LEMMA Rejected ==
    ASSUME TypeOK, NEW q \in p..(last - 1), p' = q, UNCHANGED <<message, last>>, failed' = TRUE,
           ~Reading(input)[q].failed, Reading(input)[q + 1].failed
    PROVE  Tracks'
<1>1. input' = input  BY DEF input
<1>2. q \in Nat /\ last \in Nat /\ q < last  BY Read
<1> QED  BY <1>1, <1>2 DEF Tracks

\* goto error.
LEMMA ErrorTracks ==
    ASSUME TypeOK, Tracks, ~failed, p < last, Error, After(View, c).failed
    PROVE  Tracks'
<1>1. p \in p..(last - 1)  BY Read
<1>2. Reading(input)[p + 1].failed  BY DEF Tracks
<1> QED  BY <1>1, <1>2, Rejected DEF Error, Tracks

-----------------------------------------------------------------------------
(* How the updates combine.                                                *)

IsKnown(r) == \E s, i, f, b, e, n, v, ps : r = Known(s, i, f, b, e, n, v, ps)

\* What the parser has become is a record of what is known.
LEMMA ViewIsKnown == IsKnown(View) /\ IsKnown(Filed(View)) /\ AtIndex(View, index) = View
<1>1. IsKnown(View) /\ AtIndex(View, index) = View  BY ViewKnown, KnownUpdates DEF IsKnown
<1>2. CASE header_value_ = Empty
  <2>1. View.value = Empty  BY <1>2 DEF View
  <2> QED  BY <1>1, <2>1 DEF Filed
<1>3. CASE header_value_ # Empty
  <2>1. Filed(View) = Known(state, index, failed, body_beg_called_, body_end_called_, Empty, Empty,
                            HeaderIn(parts_, [name |-> header_name_, value |-> header_value_]))
    BY <1>3, ViewKnown, KnownFiled
  <2> QED  BY <1>1, <2>1 DEF IsKnown
<1> QED  BY <1>1, <1>2, <1>3

\* The fields an update leaves alone.
LEMMA UpdateFields ==
    ASSUME NEW r, IsKnown(r), NEW x, NEW t
    PROVE  /\ To(r, x).state = x /\ To(r, x).failed = r.failed /\ To(r, x).value = r.value
           /\ To(r, x).index = r.index
           /\ WithName(r, x).failed = r.failed /\ WithName(r, x).value = r.value
           /\ WithValue(r, x).failed = r.failed
           /\ WithData(r, x).failed = r.failed
           /\ AtIndex(r, x).failed = r.failed
           /\ IsKnown(To(r, x)) /\ IsKnown(WithName(r, x)) /\ IsKnown(WithValue(r, x))
           /\ IsKnown(WithData(r, x)) /\ IsKnown(AtIndex(r, x))
           /\ To(To(r, x), t) = To(r, t)
           /\ WithData(To(r, x), t) = To(WithData(r, t), x)
           /\ WithName(To(r, x), t) = To(WithName(r, t), x)
           /\ WithValue(To(r, x), t) = To(WithValue(r, t), x)
           /\ Wrong(r).failed
<1> PICK s, i, f, b, e, n, v, ps : r = Known(s, i, f, b, e, n, v, ps)  BY DEF IsKnown
<1>1. /\ To(r, x).state = x /\ To(r, x).failed = r.failed /\ To(r, x).value = r.value
      /\ To(r, x).index = r.index
  BY KnownUpdates, KnownFields
<1>2. WithName(r, x).failed = r.failed /\ WithName(r, x).value = r.value
  BY KnownUpdates, KnownFields
<1>3. /\ WithValue(r, x).failed = r.failed
      /\ WithData(r, x).failed = r.failed
      /\ AtIndex(r, x).failed = r.failed
  BY KnownUpdates, KnownFields
<1>4. /\ IsKnown(To(r, x)) /\ IsKnown(WithName(r, x)) /\ IsKnown(WithValue(r, x))
      /\ IsKnown(WithData(r, x)) /\ IsKnown(AtIndex(r, x))
  <2>1. To(r, x) = Known(x, i, f, b, e, n, v, ps)  BY KnownUpdates
  <2>2. WithName(r, x) = Known(s, i, f, b, e, n \o x, v, ps)  BY KnownUpdates
  <2>3. WithValue(r, x) = Known(s, i, f, b, e, n, v \o x, ps)  BY KnownUpdates
  <2>4. WithData(r, x) = Known(s, i, f, b, e, n, v, MoreData(ps, x))  BY KnownUpdates
  <2>5. AtIndex(r, x) = Known(s, x, f, b, e, n, v, ps)  BY KnownUpdates
  <2>6. IsKnown(To(r, x))  BY <2>1 DEF IsKnown
  <2>7. IsKnown(WithName(r, x))  BY <2>2 DEF IsKnown
  <2>8. IsKnown(WithValue(r, x))  BY <2>3 DEF IsKnown
  <2>9. IsKnown(WithData(r, x))  BY <2>4 DEF IsKnown
  <2>10. IsKnown(AtIndex(r, x))  BY <2>5 DEF IsKnown
  <2> QED  BY <2>6, <2>7, <2>8, <2>9, <2>10
<1>5. /\ To(To(r, x), t) = To(r, t)
      /\ WithData(To(r, x), t) = To(WithData(r, t), x)
      /\ WithName(To(r, x), t) = To(WithName(r, t), x)
      /\ WithValue(To(r, x), t) = To(WithValue(r, t), x)
  BY KnownUpdates
<1>6. Wrong(r).failed  BY DEF Known, Wrong
<1> QED  BY <1>1, <1>2, <1>3, <1>4, <1>5, <1>6

\* Runs of a name, of a value or of data, one behind the other.
LEMMA UpdateTwice ==
    ASSUME NEW r, IsKnown(r), NEW d \in Seq(Char), NEW e \in Seq(Char)
    PROVE  /\ r.name \in Seq(Char) => WithName(WithName(r, d), e) = WithName(r, d \o e)
           /\ r.value \in Seq(Char) => WithValue(WithValue(r, d), e) = WithValue(r, d \o e)
           /\ r.parts \in Seq(PartType) /\ r.parts # <<>> =>
                WithData(WithData(r, d), e) = WithData(r, d \o e)
<1> PICK s, i, f, b, en, n, v, ps : r = Known(s, i, f, b, en, n, v, ps)  BY DEF IsKnown
<1>0. r.name = n /\ r.value = v /\ r.parts = ps  BY KnownFields
<1>1. ASSUME r.name \in Seq(Char) PROVE WithName(WithName(r, d), e) = WithName(r, d \o e)
  <2>1. (n \o d) \o e = n \o (d \o e)  BY <1>0, <1>1, ConcatAssociative
  <2>2. WithName(WithName(r, d), e) = Known(s, i, f, b, en, (n \o d) \o e, v, ps)  BY KnownUpdates
  <2>3. WithName(r, d \o e) = Known(s, i, f, b, en, n \o (d \o e), v, ps)  BY KnownUpdates
  <2> QED  BY <2>1, <2>2, <2>3
<1>2. ASSUME r.value \in Seq(Char) PROVE WithValue(WithValue(r, d), e) = WithValue(r, d \o e)
  <2>1. (v \o d) \o e = v \o (d \o e)  BY <1>0, <1>2, ConcatAssociative
  <2>2. WithValue(WithValue(r, d), e) = Known(s, i, f, b, en, n, (v \o d) \o e, ps)  BY KnownUpdates
  <2>3. WithValue(r, d \o e) = Known(s, i, f, b, en, n, v \o (d \o e), ps)  BY KnownUpdates
  <2> QED  BY <2>1, <2>2, <2>3
<1>3. ASSUME ps \in Seq(PartType), ps # <<>>
      PROVE  MoreData(MoreData(ps, d), e) = MoreData(ps, d \o e)
  <2> DEFINE k == Len(ps)
             part == ps[k]
             one == [part EXCEPT !.body = part.body \o d]
             two == [part EXCEPT !.body = part.body \o (d \o e)]
             qs == [ps EXCEPT ![k] = one]
  <2>1. k \in 1..Len(ps) /\ part \in PartType  BY <1>3
  <2>2. part.body \in Seq(Char)  BY <2>1 DEF PartType
  <2>3. part.body \o d \in Seq(Char)  BY <2>2, ConcatProperties
  <2>4. one \in PartType /\ one.body = part.body \o d  BY <2>1, <2>3 DEF PartType
  <2>5. MoreData(ps, d) = qs  BY DEF MoreData
  <2>6. qs \in Seq(PartType) /\ Len(qs) = k /\ qs[k] = one
    <3> HIDE DEF one
    <3> QED  BY <1>3, <2>1, <2>4, ExceptSeq
  <2>7. (part.body \o d) \o e = part.body \o (d \o e)
    <3> DEFINE body == part.body
    <3>1. body \in Seq(Char)  BY <2>2
    <3> HIDE DEF body
    <3>2. (body \o d) \o e = body \o (d \o e)  BY <3>1, ConcatAssociative
    <3> QED  BY <3>2 DEF body
  <2>8. [one EXCEPT !.body = one.body \o e] = two
    <3>1. one.body \o e = part.body \o (d \o e)  BY <2>4, <2>7
    <3>2. [one EXCEPT !.body = part.body \o (d \o e)] = two  BY <2>1 DEF PartType
    <3> QED  BY <3>1, <3>2
  <2>9. MoreData(qs, e) = [qs EXCEPT ![k] = two]
    <3>1. MoreData(qs, e) = [qs EXCEPT ![Len(qs)] = [qs[Len(qs)] EXCEPT !.body = qs[Len(qs)].body \o e]]
      BY DEF MoreData
    <3> HIDE DEF qs, one, two
    <3> QED  BY <2>6, <2>8, <3>1
  <2>10. [qs EXCEPT ![k] = two] = [ps EXCEPT ![k] = two]
    <3> HIDE DEF one, two
    <3> QED  BY <1>3, <2>1
  <2>11. MoreData(ps, d \o e) = [ps EXCEPT ![k] = two]  BY DEF MoreData
  <2> QED  BY <2>5, <2>9, <2>10, <2>11
<1>4. ASSUME r.parts \in Seq(PartType), r.parts # <<>> PROVE WithData(WithData(r, d), e) = WithData(r, d \o e)
  BY <1>0, <1>3, <1>4, KnownUpdates
<1> QED  BY <1>1, <1>2, <1>4

-----------------------------------------------------------------------------
(* Runs.                                                                   *)

\* The characters of a run, up to each of them.
LEMMA RunChars ==
    ASSUME TypeOK, p < last
    PROVE  /\ SubSeq(input, p + 1, p + 1) = <<c>>
           /\ \A k \in (p + 1)..last :
                /\ SubSeq(input, p + 1, k) \in Seq(Char)
                /\ k < last => /\ <<input[k + 1]>> \in Seq(Char)
                               /\ SubSeq(input, p + 1, k + 1) = SubSeq(input, p + 1, k) \o <<input[k + 1]>>
<1>1. input \in Seq(Char) /\ p \in Nat /\ last \in Nat /\ last <= Len(input) /\ Len(input) \in Nat
  BY Read
<1>2. ASSUME NEW k \in (p + 1)..last PROVE SubSeq(input, p + 1, k) \in Seq(Char)
  BY <1>1, SubSeqProperties
<1>3. ASSUME NEW k \in (p + 1)..last, k < last
      PROVE  /\ <<input[k + 1]>> \in Seq(Char)
             /\ SubSeq(input, p + 1, k + 1) = SubSeq(input, p + 1, k) \o <<input[k + 1]>>
  <2>1. p + 1 \in 1..Len(input) /\ k + 1 \in (p + 1)..Len(input) /\ (k + 1) - 1 = k  BY <1>1, <1>3
  <2>2. SubSeq(input, p + 1, k + 1) = SubSeq(input, p + 1, (k + 1) - 1) \o <<input[k + 1]>>
    BY <1>1, <2>1, SubSeqRecursiveSecond
  <2>3. input[k + 1] \in Char  BY <1>1, <2>1
  <2>4. <<input[k + 1]>> \in Seq(Char)  BY <2>3
  <2>5. SubSeq(input, p + 1, (k + 1) - 1) = SubSeq(input, p + 1, k)  BY <2>1
  <2> QED  BY <2>2, <2>4, <2>5
<1>4. SubSeq(input, p + 1, p + 1) = <<c>>
  <2>1. p + 1 \in 1..Len(input) /\ p + 1 \in (p + 1)..Len(input) /\ (p + 1) - 1 = p  BY <1>1
  <2>2. SubSeq(input, p + 1, p + 1) = SubSeq(input, p + 1, (p + 1) - 1) \o <<input[p + 1]>>
    BY <1>1, <2>1, SubSeqRecursiveSecond
  <2>3. SubSeq(input, p + 1, p) = <<>>  BY <1>1, SubSeqEmpty
  <2>4. <<input[p + 1]>> \in Seq(Char)  BY <1>1, <2>1
  <2> QED  BY <2>1, <2>2, <2>3, <2>4, ConcatEmptySeq DEF c
<1> QED  BY <1>2, <1>3, <1>4

\* The reading along a run: f says what is known after each of its characters.
LEMMA RunReading ==
    ASSUME TypeOK, NEW q \in (p + 1)..last, NEW f, Reading(input)[p + 1] = f[p + 1],
           \A k \in (p + 1)..(q - 1) : After(f[k], input[k + 1]) = f[k + 1]
    PROVE  Reading(input)[q] = f[q]
<1>1. p \in Nat /\ last \in Nat /\ last <= Len(input) /\ Len(input) \in Nat /\ p + 1 \in Nat /\ q \in Nat
  BY Read
<1> DEFINE R == Reading(input)
           S == {k \in (p + 1)..q : R[k] = f[k]}
<1>2. p + 1 \in S  BY <1>1
<1>3. ASSUME NEW k \in (p + 1)..(q - 1), k \in S PROVE k + 1 \in S
  <2>1. R[k + 1] = After(R[k], input[k + 1])
    <3>1. k \in 0..(Len(input) - 1)  BY <1>1
    <3> QED  BY <3>1, Read
  <2>2. R[k] = f[k]  BY <1>3
  <2> HIDE DEF R
  <2> QED  BY <1>1, <2>1, <2>2
<1>4. \A k \in (p + 1)..q : k \in S
  <2> HIDE DEF S
  <2> QED  BY <1>1, <1>2, <1>3, SetInduction
<1> QED  BY <1>1, <1>4

-----------------------------------------------------------------------------
(* Each pass keeps the parser where the reading is.                        *)

\* What After does in each state.
LEMMA AfterIs ==
    ASSUME NEW v, NEW ch, ~v.failed
    PROVE  /\ v.state = "s_preamble" =>
                After(v, ch) = To(v, IF ch = HYPHEN THEN "s_preamble_hy_hy" ELSE "s_preamble")
           /\ v.state = "s_preamble_hy_hy" =>
                After(v, ch) = To(v, IF ch = HYPHEN THEN "s_first_boundary" ELSE "s_preamble")
           /\ v.state = "s_first_boundary" => After(v, ch) = AfterFirst(v, ch)
           /\ v.state = "s_header_field_start" =>
                After(v, ch) = IF ch = CR THEN To(v, "s_headers_done") ELSE AfterName(v, ch)
           /\ v.state = "s_header_field" => After(v, ch) = AfterName(v, ch)
           /\ v.state = "s_header_value_start" =>
                After(v, ch) = IF ch = BLANK THEN v ELSE AfterValue(v, ch)
           /\ v.state = "s_header_value" => After(v, ch) = AfterValue(v, ch)
           /\ v.state = "s_header_value_cr" =>
                After(v, ch) = IF ch = LF THEN To(v, "s_header_field_start") ELSE Wrong(v)
           /\ v.state = "s_headers_done" =>
                After(v, ch) = IF ch = LF THEN To(Filed(v), "s_data") ELSE Wrong(v)
           /\ v.state = "s_data" => After(v, ch) = AfterData(v, ch)
           /\ v.state = "s_data_cr" => After(v, ch) = AfterHeld(v, ch, LF, "s_data_cr_lf", <<CR>>)
           /\ v.state = "s_data_cr_lf" =>
                After(v, ch) = AfterHeld(v, ch, HYPHEN, "s_data_cr_lf_hy", <<CR, LF>>)
           /\ v.state = "s_data_cr_lf_hy" =>
                After(v, ch) = AfterHeld(v, ch, HYPHEN, "s_data_boundary_start", <<CR, LF, HYPHEN>>)
           /\ v.state = "s_data_boundary_start" => After(v, ch) = AfterBoundary(v, ch, 0)
           /\ v.state = "s_data_boundary" => After(v, ch) = AfterBoundary(v, ch, v.index)
           /\ v.state = "s_data_boundary_done" => After(v, ch) = AfterEnd(v, ch)
           /\ v.state = "s_data_boundary_done_cr_lf" =>
                After(v, ch) = IF ch = LF THEN To(WithPart(v), "s_header_field_start") ELSE Wrong(v)
           /\ v.state = "s_data_boundary_done_hy_hy" =>
                After(v, ch) = IF ch = HYPHEN THEN To(Ended(v), "s_epilogue") ELSE Wrong(v)
           /\ v.state = "s_epilogue" => After(v, ch) = v
BY DEF After

\* The fields of View.
LEMMA ViewFields ==
    /\ View.state = state /\ View.index = index /\ View.failed = failed
    /\ View.name = header_name_ /\ View.value = header_value_ /\ View.parts = parts_
    /\ View'.state = state' /\ View'.failed = failed'
    /\ Wrong(View).failed
<1>1. View.state = state /\ View.index = index /\ View.failed = failed  BY DEF View
<1>2. View.name = header_name_ /\ View.value = header_value_ /\ View.parts = parts_  BY DEF View
<1>3. View'.state = state' /\ View'.failed = failed'  BY DEF View
<1>4. Wrong(View).failed  BY ViewIsKnown, UpdateFields
<1> QED  BY <1>1, <1>2, <1>3, <1>4

\* A silent pass that only consumes a character and goes to a state.
LEMMA SilentTo ==
    ASSUME TypeOK, Callbacks, Silent, UNCHANGED <<index, failed>>
    PROVE  View' = To(View, state')
BY SilentView, ViewIsKnown

\* The preamble.
LEMMA PreambleTracks == ASSUME TypeOK, Tracks, Preamble \/ PreambleHyHy, Callbacks PROVE Tracks'
<1>1. ~failed /\ p < last /\ p' = p + 1 /\ UNCHANGED <<message, last, failed, index>> /\ Silent
  BY DEF Preamble, PreambleHyHy, At, Consume
<1>2. View' = To(View, state')  BY <1>1, SilentTo
<1>3. After(View, c) = To(View, state')
  <2>1. CASE Preamble  BY <1>1, <2>1, ViewFields, AfterIs DEF Preamble, At, Consume
  <2>2. CASE PreambleHyHy  BY <1>1, <2>2, ViewFields, AfterIs DEF PreambleHyHy, At, Consume
  <2> QED  BY <2>1, <2>2
<1> QED  BY <1>1, <1>2, <1>3, Consumed

\* The first boundary.
LEMMA FirstTracks ==
    ASSUME TypeOK, Tracks, FirstBoundary \/ FirstBoundaryError, Callbacks
    PROVE  Tracks'
<1>1. ~failed /\ p < last /\ state = "s_first_boundary"
  BY DEF FirstBoundary, FirstBoundaryError, At
<1>2. After(View, c) = AfterFirst(View, c)  BY <1>1, ViewFields, AfterIs
<1>3. CASE FirstBoundaryError
  <2>1. c # Expected /\ Error  BY <1>3 DEF FirstBoundaryError
  <2>2. AfterFirst(View, c) = Wrong(View)  BY <2>1, ViewFields DEF AfterFirst, Expected
  <2> QED  BY <1>1, <1>2, <2>1, <2>2, ViewFields, ErrorTracks
<1>4. CASE FirstBoundary
  <2>1. c = Expected /\ p' = p + 1 /\ UNCHANGED <<message, last, failed>>
    BY <1>4 DEF FirstBoundary, FirstBoundaryStep, Consume
  <2>2. CASE index = Len(Boundary) + 1
    <3>1. called'.on = {"body_begin", "part_begin"} /\ state' = "s_header_field_start" /\ index' = 0
      BY <1>4, <2>2 DEF FirstBoundary, FirstBoundaryStep, Notify, Consume
    <3>2. parts_' = PartBegun(parts_) /\ UNCHANGED <<body_end_called_, header_name_, header_value_>>
      BY <3>1 DEF Callbacks, TypeOK, OnPartBegin, OnHeaderField, OnHeaderValue, OnHeadersComplete, OnData,
                  OnNone, PartBegun
    <3>5. body_beg_called_' = Yes  BY <3>1 DEF Callbacks, TypeOK, Yes
    <3>3. AfterFirst(View, c) = To(AtIndex(Begun(WithPart(View)), 0), "s_header_field_start")
      BY <2>1, <2>2, ViewFields DEF AfterFirst, Expected
    <3>4. View' = To(AtIndex(Begun(WithPart(View)), 0), "s_header_field_start")
      <4>1. WithPart(View) = Known(state, index, failed, body_beg_called_, body_end_called_, header_name_,
                                   header_value_, parts_')
        BY <3>2, ViewKnown, KnownUpdates
      <4>2. Begun(WithPart(View)) = Known(state, index, failed, body_beg_called_', body_end_called_,
                                          header_name_, header_value_, parts_')
        BY <3>5, <4>1, KnownUpdates
      <4> QED  BY <2>1, <3>1, <3>2, <4>2, ViewKnown, KnownUpdates
    <3> QED  BY <1>1, <1>2, <2>1, <3>3, <3>4, Consumed
  <2>3. CASE index # Len(Boundary) + 1
    <3>1. Silent /\ index' = index + 1 /\ state' = state
      BY <1>4, <2>3 DEF FirstBoundary, FirstBoundaryStep, Consume
    <3>2. View' = To(AtIndex(View, index + 1), state)  BY <2>1, <3>1, SilentView
    <3>3. To(AtIndex(View, index + 1), state) = AtIndex(View, index + 1)  BY ViewKnown, KnownUpdates
    <3>4. AfterFirst(View, c) = AtIndex(View, index + 1)
      BY <2>1, <2>3, ViewFields DEF AfterFirst, Expected
    <3> QED  BY <1>1, <1>2, <2>1, <3>2, <3>3, <3>4, Consumed
  <2> QED  BY <2>2, <2>3
<1> QED  BY <1>3, <1>4

\* The headers, but for the runs of their names and values.
LEMMA HeaderTracks ==
    ASSUME TypeOK, Tracks, HeadersEnd \/ SkipBlank \/ HeaderValueCr \/ HeadersDone, Callbacks
    PROVE  Tracks'
<1>1. ~failed /\ p < last  BY DEF HeadersEnd, SkipBlank, HeaderValueCr, HeadersDone, At
<1>2. CASE HeadersEnd
  <2>1. View' = To(View, state')  BY <1>2, SilentTo DEF HeadersEnd, Consume
  <2>2. After(View, c) = To(View, state')
    BY <1>1, <1>2, ViewFields, AfterIs DEF HeadersEnd, At, Consume
  <2> QED  BY <1>1, <1>2, <2>1, <2>2, Consumed DEF HeadersEnd, Consume
<1>3. CASE SkipBlank
  <2>1. View' = To(View, state')  BY <1>3, SilentTo DEF SkipBlank, Consume
  <2>2. To(View, state') = View  BY <1>3, ViewKnown, KnownUpdates DEF SkipBlank, Consume
  <2>3. After(View, c) = View
    BY <1>1, <1>3, ViewFields, AfterIs DEF SkipBlank, At
  <2> QED  BY <1>1, <1>3, <2>1, <2>2, <2>3, Consumed DEF SkipBlank, Consume
<1>4. CASE HeaderValueCr
  <2>1. After(View, c) = IF c = LF THEN To(View, "s_header_field_start") ELSE Wrong(View)
    BY <1>1, <1>4, ViewFields, AfterIs DEF HeaderValueCr, At
  <2>2. CASE c = LF
    <3>1. View' = To(View, "s_header_field_start")  BY <1>4, <2>2, SilentTo DEF HeaderValueCr, Consume
    <3> QED  BY <1>1, <1>4, <2>1, <2>2, <3>1, Consumed DEF HeaderValueCr, Consume
  <2>3. CASE c # LF
    BY <1>1, <1>4, <2>1, <2>3, ViewFields, ErrorTracks DEF HeaderValueCr
  <2> QED  BY <2>2, <2>3
<1>5. CASE HeadersDone
  <2>1. After(View, c) = IF c = LF THEN To(Filed(View), "s_data") ELSE Wrong(View)
    BY <1>1, <1>5, ViewFields, AfterIs DEF HeadersDone, At
  <2>2. CASE c = LF
    <3>1. called'.on = {"headers_complete"} /\ state' = "s_data" /\ p' = p + 1
          /\ UNCHANGED <<message, last, failed, index>>
      BY <1>5, <2>2 DEF HeadersDone, Notify, Consume
    <3>2. OnHeadersComplete /\ UNCHANGED <<body_beg_called_, body_end_called_>>
      BY <3>1 DEF Callbacks, TypeOK, OnPartBegin, OnHeaderField, OnHeaderValue, OnHeadersComplete, OnData, OnNone
    <3>3. View' = To(Filed(View), "s_data")
      <4>1. CASE header_value_ = Empty
        <5>1. UNCHANGED <<header_name_, header_value_, parts_>>
          BY <3>2, <4>1 DEF OnHeadersComplete, Empty
        <5>2. Filed(View) = View
          <6>1. View.value = Empty  BY <4>1, ViewFields
          <6> QED  BY <6>1 DEF Filed
        <5> QED  BY <3>1, <3>2, <5>1, <5>2, ViewKnown, KnownUpdates
      <4>2. CASE header_value_ # Empty
        <5>1. OnHeaderDone /\ header_name_' = Empty /\ header_value_' = Empty
          BY <3>2, <4>2 DEF OnHeadersComplete, Empty
        <5>2. parts_' = HeaderIn(parts_, [name |-> header_name_, value |-> header_value_])
          BY <5>1, HeaderDoneParts
        <5>3. Filed(View) = Known(state, index, failed, body_beg_called_, body_end_called_, Empty, Empty, parts_')
          BY <4>2, <5>2, ViewKnown, KnownFiled
        <5> QED  BY <3>1, <3>2, <5>1, <5>3, ViewKnown, KnownUpdates
      <4> QED  BY <4>1, <4>2
    <3> QED  BY <1>1, <2>1, <2>2, <3>1, <3>3, Consumed
  <2>3. CASE c # LF
    BY <1>1, <1>5, <2>1, <2>3, ViewFields, ErrorTracks DEF HeadersDone
  <2> QED  BY <2>2, <2>3
<1> QED  BY <1>2, <1>3, <1>4, <1>5

\* What is known behind each character of a run of a value.
LEMMA ValueRun ==
    ASSUME TypeOK, Tracks, ~failed, p < last, NEW q \in (p + 1)..last,
           \A i \in (p + 1)..q : input[i] # CR,
           After(View, c) = AfterValue(View, c)
    PROVE  Reading(input)[q] = To(WithValue(View, SubSeq(input, p + 1, q)), "s_header_value")
<1> DEFINE s == "s_header_value"
           Behind(k) == To(WithValue(View, SubSeq(input, p + 1, k)), s)
           f == [k \in (p + 1)..q |-> Behind(k)]
<1>0. p \in Nat /\ last \in Nat /\ p + 1 \in (p + 1)..q /\ q \in Nat  BY Read
<1>1. header_value_ \in Seq(Char) /\ View.value = header_value_ /\ IsKnown(View) /\ ~View.failed
  BY ViewFields, ViewIsKnown DEF TypeOK
<1>2. Reading(input)[p + 1] = Behind(p + 1)
  <2>1. After(View, c) = To(WithValue(View, <<c>>), s)
    BY <1>0 DEF AfterValue, c
  <2> QED  BY <2>1, RunChars DEF Tracks
<1>3. ASSUME NEW k \in (p + 1)..(q - 1) PROVE After(Behind(k), input[k + 1]) = Behind(k + 1)
  <2> DEFINE d == SubSeq(input, p + 1, k)
             e == <<input[k + 1]>>
             w == WithValue(View, d)
  <2>0. k \in (p + 1)..last /\ k < last /\ k + 1 \in (p + 1)..q  BY <1>0
  <2>1. d \in Seq(Char) /\ e \in Seq(Char) /\ SubSeq(input, p + 1, k + 1) = d \o e
    BY <2>0, RunChars
  <2>2. IsKnown(w) /\ w.failed = View.failed  BY <1>1, UpdateFields
  <2>3. To(w, s).state = s /\ ~To(w, s).failed  BY <1>1, <2>2, UpdateFields
  <2>4. After(To(w, s), input[k + 1]) = AfterValue(To(w, s), input[k + 1])  BY <2>3, AfterIs
  <2>5. @ = To(WithValue(To(w, s), e), s)  BY <2>0 DEF AfterValue
  <2>6. WithValue(To(w, s), e) = To(WithValue(w, e), s)  BY <2>2, UpdateFields
  <2>7. IsKnown(WithValue(w, e))  BY <2>2, UpdateFields
  <2>8. To(To(WithValue(w, e), s), s) = To(WithValue(w, e), s)  BY <2>7, UpdateFields
  <2>9. WithValue(w, e) = WithValue(View, d \o e)  BY <1>1, <2>1, UpdateTwice
  <2> QED  BY <2>1, <2>4, <2>5, <2>6, <2>8, <2>9
<1>4. Reading(input)[p + 1] = f[p + 1]  BY <1>0, <1>2
<1>5. \A k \in (p + 1)..(q - 1) : After(f[k], input[k + 1]) = f[k + 1]
  <2> TAKE k \in (p + 1)..(q - 1)
  <2>1. k \in (p + 1)..q /\ k + 1 \in (p + 1)..q  BY <1>0
  <2>2. f[k] = Behind(k) /\ f[k + 1] = Behind(k + 1)  BY <2>1
  <2> HIDE DEF f, Behind
  <2> QED  BY <1>3, <2>2
<1>6. Reading(input)[q] = f[q]
  <2> HIDE DEF f
  <2> QED  BY <1>4, <1>5, RunReading
<1> QED  BY <1>0, <1>6

\* The same of data, which the last part gets.
LEMMA DataRun ==
    ASSUME TypeOK, Tracks, ~failed, p < last, NEW q \in (p + 1)..last, parts_ # <<>>,
           \A i \in (p + 1)..q : input[i] # CR,
           After(View, c) = AfterData(View, c)
    PROVE  Reading(input)[q] = To(WithData(View, SubSeq(input, p + 1, q)), "s_data")
<1> DEFINE s == "s_data"
           Behind(k) == To(WithData(View, SubSeq(input, p + 1, k)), s)
           f == [k \in (p + 1)..q |-> Behind(k)]
<1>0. p \in Nat /\ last \in Nat /\ p + 1 \in (p + 1)..q /\ q \in Nat  BY Read
<1>1. parts_ \in Seq(PartType) /\ View.parts = parts_ /\ IsKnown(View) /\ ~View.failed
  BY ViewFields, ViewIsKnown DEF TypeOK
<1>2. Reading(input)[p + 1] = Behind(p + 1)
  <2>1. After(View, c) = To(WithData(View, <<c>>), s)
    BY <1>0 DEF AfterData, c
  <2> QED  BY <2>1, RunChars DEF Tracks
<1>3. ASSUME NEW k \in (p + 1)..(q - 1) PROVE After(Behind(k), input[k + 1]) = Behind(k + 1)
  <2> DEFINE d == SubSeq(input, p + 1, k)
             e == <<input[k + 1]>>
             w == WithData(View, d)
  <2>0. k \in (p + 1)..last /\ k < last /\ k + 1 \in (p + 1)..q  BY <1>0
  <2>1. d \in Seq(Char) /\ e \in Seq(Char) /\ SubSeq(input, p + 1, k + 1) = d \o e
    BY <2>0, RunChars
  <2>2. IsKnown(w) /\ w.failed = View.failed  BY <1>1, UpdateFields
  <2>3. To(w, s).state = s /\ ~To(w, s).failed  BY <1>1, <2>2, UpdateFields
  <2>4. After(To(w, s), input[k + 1]) = AfterData(To(w, s), input[k + 1])  BY <2>3, AfterIs
  <2>5. @ = To(WithData(To(w, s), e), s)  BY <2>0 DEF AfterData
  <2>6. WithData(To(w, s), e) = To(WithData(w, e), s)  BY <2>2, UpdateFields
  <2>7. IsKnown(WithData(w, e))  BY <2>2, UpdateFields
  <2>8. To(To(WithData(w, e), s), s) = To(WithData(w, e), s)  BY <2>7, UpdateFields
  <2>9. WithData(w, e) = WithData(View, d \o e)  BY <1>1, <2>1, UpdateTwice
  <2> QED  BY <2>1, <2>4, <2>5, <2>6, <2>8, <2>9
<1>4. Reading(input)[p + 1] = f[p + 1]  BY <1>0, <1>2
<1>5. \A k \in (p + 1)..(q - 1) : After(f[k], input[k + 1]) = f[k + 1]
  <2> TAKE k \in (p + 1)..(q - 1)
  <2>1. k \in (p + 1)..q /\ k + 1 \in (p + 1)..q  BY <1>0
  <2>2. f[k] = Behind(k) /\ f[k + 1] = Behind(k + 1)  BY <2>1
  <2> HIDE DEF f, Behind
  <2> QED  BY <1>3, <2>2
<1>6. Reading(input)[q] = f[q]
  <2> HIDE DEF f
  <2> QED  BY <1>4, <1>5, RunReading
<1> QED  BY <1>0, <1>6

\* What filing leaves: no value, and a name to begin or to go on with.
LEMMA FiledFields ==
    ASSUME TypeOK
    PROVE  /\ Filed(View).value = Empty /\ Filed(View).name \in Seq(Char)
           /\ Filed(View).failed = failed /\ IsKnown(Filed(View))
<1>1. CASE header_value_ = Empty
  <2>1. View.value = Empty  BY <1>1, ViewFields
  <2>2. Filed(View) = View  BY <2>1 DEF Filed
  <2> QED  BY <2>1, <2>2, ViewFields, ViewIsKnown DEF TypeOK
<1>2. CASE header_value_ # Empty
  <2>1. Filed(View) = Known(state, index, failed, body_beg_called_, body_end_called_, Empty, Empty,
                            HeaderIn(parts_, [name |-> header_name_, value |-> header_value_]))
    BY <1>2, ViewKnown, KnownFiled
  <2>2. Empty \in Seq(Char)  BY EmptySeq DEF Empty
  <2> QED  BY <2>1, <2>2, KnownFields, ViewIsKnown
<1> QED  BY <1>1, <1>2

\* The same of a name.
LEMMA NameRun ==
    ASSUME TypeOK, Tracks, ~failed, p < last, NEW q \in (p + 1)..last,
           \A i \in (p + 1)..q : input[i] \in NameChars,
           After(View, c) = AfterName(View, c)
    PROVE  Reading(input)[q] = To(WithName(Filed(View), SubSeq(input, p + 1, q)), "s_header_field")
<1> DEFINE s == "s_header_field"
           v == Filed(View)
           Behind(k) == To(WithName(v, SubSeq(input, p + 1, k)), s)
           f == [k \in (p + 1)..q |-> Behind(k)]
<1>0. p \in Nat /\ last \in Nat /\ p + 1 \in (p + 1)..q /\ q \in Nat  BY Read
<1>1. v.name \in Seq(Char) /\ v.value = Empty /\ IsKnown(v) /\ ~v.failed
  BY FiledFields
<1>2. Reading(input)[p + 1] = Behind(p + 1)
  <2>1. After(View, c) = To(WithName(v, <<c>>), s)
    BY <1>0 DEF AfterName, c
  <2> QED  BY <2>1, RunChars DEF Tracks
<1> HIDE DEF v
<1>3. ASSUME NEW k \in (p + 1)..(q - 1) PROVE After(Behind(k), input[k + 1]) = Behind(k + 1)
  <2> DEFINE d == SubSeq(input, p + 1, k)
             e == <<input[k + 1]>>
             w == WithName(v, d)
  <2>0. k \in (p + 1)..last /\ k < last /\ k + 1 \in (p + 1)..q  BY <1>0
  <2>1. d \in Seq(Char) /\ e \in Seq(Char) /\ SubSeq(input, p + 1, k + 1) = d \o e
    BY <2>0, RunChars
  <2>2. IsKnown(w) /\ w.failed = v.failed /\ w.value = Empty  BY <1>1, UpdateFields
  <2>3. To(w, s).state = s /\ ~To(w, s).failed /\ To(w, s).value = Empty  BY <1>1, <2>2, UpdateFields
  <2>4. After(To(w, s), input[k + 1]) = AfterName(To(w, s), input[k + 1])  BY <2>3, AfterIs
  <2>5. Filed(To(w, s)) = To(w, s)  BY <2>3 DEF Filed
  <2>10. AfterName(To(w, s), input[k + 1]) = To(WithName(To(w, s), e), s)  BY <2>0, <2>5 DEF AfterName
  <2>6. WithName(To(w, s), e) = To(WithName(w, e), s)  BY <2>2, UpdateFields
  <2>7. IsKnown(WithName(w, e))  BY <2>2, UpdateFields
  <2>8. To(To(WithName(w, e), s), s) = To(WithName(w, e), s)  BY <2>7, UpdateFields
  <2>9. WithName(w, e) = WithName(v, d \o e)  BY <1>1, <2>1, UpdateTwice
  <2> QED  BY <2>1, <2>4, <2>10, <2>6, <2>8, <2>9
<1>4. Reading(input)[p + 1] = f[p + 1]  BY <1>0, <1>2
<1>5. \A k \in (p + 1)..(q - 1) : After(f[k], input[k + 1]) = f[k + 1]
  <2> TAKE k \in (p + 1)..(q - 1)
  <2>1. k \in (p + 1)..q /\ k + 1 \in (p + 1)..q  BY <1>0
  <2>2. f[k] = Behind(k) /\ f[k + 1] = Behind(k + 1)  BY <2>1
  <2> HIDE DEF f, Behind
  <2> QED  BY <1>3, <2>2
<1>6. Reading(input)[q] = f[q]
  <2> HIDE DEF f
  <2> QED  BY <1>4, <1>5, RunReading
<1> QED  BY <1>0, <1>6 DEF v

\* What ends a run: the piece, or a character that is not of it.
LEMMA RunEnd ==
    ASSUME TypeOK, p < last, NEW S, NEW q \in RunEnds(S)
    PROVE  /\ q \in p..last /\ q \in Nat /\ p \in Nat /\ last \in Nat
           /\ \A i \in (p + 1)..q : input[i] \in S
           /\ q < last => input[q + 1] \notin S /\ input[q + 1] \in Char
           /\ q = p => input[q + 1] = c /\ q < last
           /\ q # p => q > p /\ q \in (p + 1)..last
           /\ q < last => Reading(input)[q + 1] = After(Reading(input)[q], input[q + 1])
           /\ q < last => q + 1 \in p..last
<1>1. input \in Seq(Char) /\ p \in Nat /\ last \in Nat /\ last <= Len(input) /\ Len(input) \in Nat
  BY Read
<1>2. q \in p..last /\ (\A i \in (p + 1)..q : input[i] \in S) /\ (q = last \/ input[q + 1] \notin S)
  BY DEF RunEnds
<1>3. q < last => input[q + 1] \in Char
  BY <1>1, <1>2
<1>4. q < last => Reading(input)[q + 1] = After(Reading(input)[q], input[q + 1])
  BY <1>1, <1>2, Read
<1> QED  BY <1>1, <1>2, <1>3, <1>4 DEF c

\* The run of a value.
LEMMA ValueTracks == ASSUME TypeOK, Tracks, HeaderValue, Callbacks PROVE Tracks'
<1>1. ~failed /\ p < last /\ state \in {"s_header_value_start", "s_header_value"} /\ UNCHANGED index
  BY DEF HeaderValue, At
<1>2. PICK q \in RunEnds(Char \ {CR}) : HeaderValue!3!(q)  BY DEF HeaderValue
<1>3. /\ q \in p..last /\ q \in Nat /\ p \in Nat /\ last \in Nat
      /\ \A i \in (p + 1)..q : input[i] # CR
      /\ q < last => input[q + 1] = CR /\ q + 1 \in p..last
  BY <1>1, RunEnd
<1>4. UNCHANGED <<message, last, failed>>  BY <1>2 DEF Exhaust
<1>5. After(View, c) = AfterValue(View, c)
  <2>1. CASE state = "s_header_value"  BY <1>1, <2>1, ViewFields, AfterIs
  <2>2. CASE state # "s_header_value"
    <3>1. state = "s_header_value_start" /\ c # BLANK  BY <1>1, <2>2 DEF HeaderValue, At
    <3> QED  BY <1>1, <3>1, ViewFields, AfterIs
  <2> QED  BY <2>1, <2>2
<1>6. CASE q = p
  <2>1. c = CR /\ q < last  BY <1>1, <1>3, <1>6, RunEnd
  <2>2. Silent /\ p' = p + 1 /\ state' = "s_header_value_cr"
    BY <1>2, <1>3, <1>6, <2>1 DEF RunData, Exhaust
  <2>3. View' = To(View, "s_header_value_cr")  BY <1>1, <1>4, <2>2, SilentTo
  <2>4. After(View, c) = To(View, "s_header_value_cr")  BY <1>5, <2>1 DEF AfterValue
  <2> QED  BY <1>1, <1>4, <2>2, <2>3, <2>4, Consumed
<1>7. CASE q # p
  <2> DEFINE d == SubSeq(input, p + 1, q)
             w == WithValue(View, d)
  <2>1. q > p /\ q \in (p + 1)..last  BY <1>1, <1>7, RunEnd
  <2>2. Data("header_value", d)  BY <1>2, <2>1 DEF RunData
  <2>3. View' = To(w, state')  BY <1>1, <1>4, <2>2, ValueView
  <2>4. Reading(input)[q] = To(w, "s_header_value")  BY <1>1, <1>3, <1>5, <2>1, ValueRun
  <2>5. CASE q = last
    <3>1. p' = q /\ state' = "s_header_value"  BY <1>2, <2>5 DEF Exhaust
    <3> QED  BY <1>1, <1>3, <1>4, <2>3, <2>4, <3>1, Arrived
  <2>6. CASE q # last
    <3>1. p' = q + 1 /\ state' = "s_header_value_cr" /\ q < last  BY <1>2, <1>3, <2>6 DEF Exhaust
    <3>2. IsKnown(w) /\ ~w.failed
      <4>1. IsKnown(View) /\ ~View.failed  BY <1>1, ViewFields, ViewIsKnown
      <4> QED  BY <4>1, UpdateFields
    <3>3. To(w, "s_header_value").state = "s_header_value" /\ ~To(w, "s_header_value").failed
      BY <3>2, UpdateFields
    <3>4. Reading(input)[q + 1] = AfterValue(To(w, "s_header_value"), CR)
      <4>1. Reading(input)[q + 1] = After(To(w, "s_header_value"), CR)
        BY <1>1, <1>3, <2>4, <3>1, RunEnd
      <4> QED  BY <3>3, <4>1, AfterIs
    <3>5. @ = To(w, "s_header_value_cr")  BY <3>2, UpdateFields DEF AfterValue
    <3> QED  BY <1>1, <1>3, <1>4, <2>3, <3>1, <3>4, <3>5, Arrived
  <2> QED  BY <2>5, <2>6
<1> QED  BY <1>6, <1>7

\* The run of data.
LEMMA DataTracks == ASSUME TypeOK, Tracks, PartData, Callbacks, parts_ # <<>> PROVE Tracks'
<1>1. ~failed /\ p < last /\ state = "s_data" /\ UNCHANGED index
  BY DEF PartData, At
<1>2. PICK q \in RunEnds(Char \ {CR}) : PartData!3!(q)  BY DEF PartData
<1>3. /\ q \in p..last /\ q \in Nat /\ p \in Nat /\ last \in Nat
      /\ \A i \in (p + 1)..q : input[i] # CR
      /\ q < last => input[q + 1] = CR /\ q + 1 \in p..last
  BY <1>1, RunEnd
<1>4. UNCHANGED <<message, last, failed>>  BY <1>2 DEF Exhaust
<1>5. After(View, c) = AfterData(View, c)  BY <1>1, ViewFields, AfterIs
<1>6. CASE q = p
  <2>1. c = CR /\ q < last  BY <1>1, <1>3, <1>6, RunEnd
  <2>2. Silent /\ p' = p + 1 /\ state' = "s_data_cr"
    BY <1>2, <1>3, <1>6, <2>1 DEF RunData, Exhaust
  <2>3. View' = To(View, "s_data_cr")  BY <1>1, <1>4, <2>2, SilentTo
  <2>4. After(View, c) = To(View, "s_data_cr")  BY <1>5, <2>1 DEF AfterData
  <2> QED  BY <1>1, <1>4, <2>2, <2>3, <2>4, Consumed
<1>7. CASE q # p
  <2> DEFINE d == SubSeq(input, p + 1, q)
             w == WithData(View, d)
  <2>1. q > p /\ q \in (p + 1)..last  BY <1>1, <1>7, RunEnd
  <2>2. Data("data", d)  BY <1>2, <2>1 DEF RunData
  <2>3. View' = To(w, state')
    <3>1. View' = To(WithData(AtIndex(View, index'), d), state')  BY <1>1, <1>4, <2>2, DataView
    <3> QED  BY <1>1, <3>1, ViewIsKnown
  <2>4. Reading(input)[q] = To(w, "s_data")  BY <1>1, <1>3, <1>5, <2>1, DataRun
  <2>5. CASE q = last
    <3>1. p' = q /\ state' = "s_data"  BY <1>2, <2>5 DEF Exhaust
    <3> QED  BY <1>1, <1>3, <1>4, <2>3, <2>4, <3>1, Arrived
  <2>6. CASE q # last
    <3>1. p' = q + 1 /\ state' = "s_data_cr" /\ q < last  BY <1>2, <1>3, <2>6 DEF Exhaust
    <3>2. IsKnown(w) /\ ~w.failed
      <4>1. IsKnown(View) /\ ~View.failed  BY <1>1, ViewFields, ViewIsKnown
      <4> QED  BY <4>1, UpdateFields
    <3>3. To(w, "s_data").state = "s_data" /\ ~To(w, "s_data").failed
      BY <3>2, UpdateFields
    <3>4. Reading(input)[q + 1] = AfterData(To(w, "s_data"), CR)
      <4>1. Reading(input)[q + 1] = After(To(w, "s_data"), CR)
        BY <1>1, <1>3, <2>4, <3>1, RunEnd
      <4> QED  BY <3>3, <4>1, AfterIs
    <3>5. @ = To(w, "s_data_cr")  BY <3>2, UpdateFields DEF AfterData
    <3> QED  BY <1>1, <1>3, <1>4, <2>3, <3>1, <3>4, <3>5, Arrived
  <2> QED  BY <2>5, <2>6
<1> QED  BY <1>6, <1>7

\* The run of a name, and the character behind it.
LEMMA NameTracks == ASSUME TypeOK, Tracks, HeaderField, Callbacks PROVE Tracks'
<1>1. ~failed /\ p < last /\ state \in {"s_header_field_start", "s_header_field"} /\ UNCHANGED index
  BY DEF HeaderField, At
<1>2. PICK q \in RunEnds(NameChars) : HeaderField!3!(q)  BY DEF HeaderField
<1>3. /\ q \in p..last /\ q \in Nat /\ p \in Nat /\ last \in Nat
      /\ \A i \in (p + 1)..q : input[i] \in NameChars
      /\ q < last => input[q + 1] \notin NameChars /\ q + 1 \in p..last
  BY <1>1, RunEnd
<1>4. UNCHANGED <<message, last>>  BY <1>2 DEF Exhaust
<1>5. After(View, c) = AfterName(View, c)
  <2>1. CASE state = "s_header_field"  BY <1>1, <2>1, ViewFields, AfterIs
  <2>2. CASE state # "s_header_field"
    <3>1. state = "s_header_field_start" /\ c # CR  BY <1>1, <2>2 DEF HeaderField, At
    <3> QED  BY <1>1, <3>1, ViewFields, AfterIs
  <2> QED  BY <2>1, <2>2
<1>6. CASE q = p
  <2>1. c \notin NameChars /\ q < last /\ input[q + 1] = c  BY <1>1, <1>3, <1>6, RunEnd
  <2>2. Silent  BY <1>2, <1>3, <1>6 DEF RunData
  <2>3. CASE c = COLON
    <3>1. p' = p + 1 /\ state' = "s_header_value_start" /\ UNCHANGED failed
      BY <1>2, <1>3, <1>6, <2>1, <2>3 DEF Exhaust
    <3>2. View' = To(View, "s_header_value_start")  BY <1>1, <2>2, <3>1, SilentTo
    <3>3. After(View, c) = To(View, "s_header_value_start")  BY <1>5, <2>1, <2>3 DEF AfterName
    <3> QED  BY <1>1, <1>4, <3>1, <3>2, <3>3, Consumed
  <2>4. CASE c # COLON
    <3>1. failed' = TRUE /\ p' = q  BY <1>2, <1>3, <2>1, <2>4 DEF Exhaust
    <3>2. After(View, c).failed  BY <1>5, <2>1, <2>4, ViewFields DEF AfterName
    <3>3. ~Reading(input)[p].failed /\ Reading(input)[p + 1].failed  BY <1>1, <3>2 DEF Tracks
    <3>4. q \in p..(last - 1)  BY <1>3, <2>1
    <3> QED  BY <1>4, <1>6, <3>1, <3>3, <3>4, Rejected
  <2> QED  BY <2>3, <2>4
<1>7. CASE q # p
  <2> DEFINE d == SubSeq(input, p + 1, q)
             w == WithName(Filed(View), d)
             r == To(w, "s_header_field")
  <2>1. q > p /\ q \in (p + 1)..last  BY <1>1, <1>7, RunEnd
  <2>2. Data("header_field", d) /\ d \in Seq(Char)  BY <1>1, <1>2, <2>1, RunChars DEF RunData
  <2>3. UNCHANGED failed => View' = To(w, state')  BY <1>1, <2>2, NameView
  <2>4. Reading(input)[q] = r  BY <1>1, <1>3, <1>5, <2>1, NameRun
  <2>5. IsKnown(w) /\ ~w.failed /\ w.value = Empty  BY <1>1, FiledFields, UpdateFields
  <2>6. r.state = "s_header_field" /\ ~r.failed /\ r.value = Empty /\ IsKnown(r)  BY <2>5, UpdateFields
  <2>7. q < last => Reading(input)[q + 1] = AfterName(r, input[q + 1])
    <3>1. q < last => Reading(input)[q + 1] = After(r, input[q + 1])
      BY <1>1, <2>4, RunEnd
    <3> HIDE DEF r
    <3> QED  BY <2>6, <3>1, AfterIs
  <2>8. CASE q = last /\ Exhaust(q, "s_header_field")
    BY <1>1, <1>3, <1>4, <2>3, <2>4, <2>8, Arrived DEF Exhaust
  <2>9. CASE q < last /\ input[q + 1] = COLON /\ Exhaust(q + 1, "s_header_value_start")
    <3>1. Reading(input)[q + 1] = To(r, "s_header_value_start")  BY <1>3, <2>7, <2>9 DEF AfterName
    <3>2. @ = To(w, "s_header_value_start")  BY <2>5, UpdateFields
    <3> QED  BY <1>1, <1>3, <1>4, <2>3, <2>9, <3>1, <3>2, Arrived DEF Exhaust
  <2>10. CASE q < last /\ input[q + 1] # COLON /\ failed' = TRUE /\ p' = q
    <3>1. Reading(input)[q + 1] = Wrong(r)  BY <1>3, <2>7, <2>10 DEF AfterName
    <3>2. Reading(input)[q + 1].failed  BY <2>6, <3>1, UpdateFields
    <3>3. q \in p..(last - 1)  BY <1>3, <2>10
    <3>4. ~Reading(input)[q].failed  BY <2>4, <2>6
    <3> QED  BY <1>4, <2>10, <3>2, <3>3, <3>4, Rejected
  <2> QED  BY <1>2, <2>8, <2>9, <2>10
<1> QED  BY <1>6, <1>7

\* What is held of a boundary that was none is data, and the character behind it comes next.
LEMMA HeldAgain ==
    ASSUME NEW r, IsKnown(r), ~r.failed, NEW ch, NEW w, w = To(r, "s_data")
    PROVE  After(w, ch) = AfterData(r, ch)
<1>1. w.state = "s_data" /\ ~w.failed  BY UpdateFields
<1>2. After(w, ch) = AfterData(w, ch)  BY <1>1, AfterIs
<1>3. To(w, "s_data_cr") = To(r, "s_data_cr")  BY UpdateFields
<1>4. To(WithData(w, <<ch>>), "s_data") = To(WithData(r, <<ch>>), "s_data")
  <2>1. WithData(w, <<ch>>) = To(WithData(r, <<ch>>), "s_data") /\ IsKnown(WithData(r, <<ch>>))
    BY UpdateFields
  <2> QED  BY <2>1, UpdateFields
<1> QED  BY <1>2, <1>3, <1>4 DEF AfterData

\* The beginning of a boundary, up to its two hyphens.
LEMMA HeldTracks ==
    ASSUME TypeOK, Tracks, Callbacks, ~failed, p < last, UNCHANGED index,
           NEW next, NEW s, NEW held, After(View, c) = AfterHeld(View, c, next, s, held),
           IF c = next THEN Consume(s) /\ Silent ELSE Reexecute("s_data") /\ Data("data", held)
    PROVE  Tracks'
<1>1. CASE c = next
  <2>1. View' = To(View, s)  BY <1>1, SilentTo DEF Consume
  <2>2. After(View, c) = To(View, s)  BY <1>1 DEF AfterHeld
  <2> QED  BY <1>1, <2>1, <2>2, Consumed DEF Consume
<1>2. CASE c # next
  <2> DEFINE r == WithData(View, held)
  <2>1. View' = To(r, "s_data")
    <3>1. View' = To(WithData(AtIndex(View, index'), held), state')  BY <1>2, DataView DEF Reexecute
    <3> QED  BY <1>2, <3>1, ViewIsKnown DEF Reexecute
  <2>2. IsKnown(View) /\ ~View.failed  BY ViewFields, ViewIsKnown
  <2>3. IsKnown(r) /\ ~r.failed  BY <2>2, UpdateFields
  <2>4. After(View', c) = AfterData(r, c)  BY <2>1, <2>3, HeldAgain
  <2>5. After(View, c) = AfterData(r, c)  BY <1>2 DEF AfterHeld
  <2> QED  BY <1>2, <2>4, <2>5, LookedAgain DEF Reexecute
<1> QED  BY <1>1, <1>2

\* A boundary within the body.
LEMMA BoundaryTracks == ASSUME TypeOK, Tracks, DataBoundary, Callbacks PROVE Tracks'
<1> DEFINE i == BoundaryIndex
           n == Len(Boundary)
<1>1. ~failed /\ p < last /\ state \in {"s_data_boundary_start", "s_data_boundary"}
  BY DEF DataBoundary, At
<1>2. After(View, c) = AfterBoundary(View, c, i)
  <2>1. CASE state = "s_data_boundary_start"  BY <1>1, <2>1, ViewFields, AfterIs DEF BoundaryIndex
  <2>2. CASE state = "s_data_boundary"  BY <1>1, <2>2, ViewFields, AfterIs DEF BoundaryIndex
  <2> QED  BY <1>1, <2>1, <2>2
<1>3. IsKnown(View) /\ ~View.failed  BY <1>1, ViewFields, ViewIsKnown
<1>4. CASE i = n /\ Reexecute("s_data_boundary_done") /\ index' = 0 /\ Silent
  <2> DEFINE r == To(AtIndex(View, 0), "s_data_boundary_done")
  <2>1. View' = r  BY <1>4, SilentView DEF Reexecute
  <2>2. IsKnown(AtIndex(View, 0)) /\ ~AtIndex(View, 0).failed  BY <1>3, UpdateFields
  <2>3. r.state = "s_data_boundary_done" /\ ~r.failed  BY <2>2, UpdateFields
  <2>4. After(r, c) = AfterEnd(r, c)
    <3> HIDE DEF r
    <3> QED  BY <2>3, AfterIs
  <2>5. After(View, c) = AfterEnd(r, c)  BY <1>2, <1>4 DEF AfterBoundary
  <2> QED  BY <1>1, <1>4, <2>1, <2>4, <2>5, LookedAgain DEF Reexecute
<1>5. CASE i # n /\ c = Boundary[i + 1] /\ Consume("s_data_boundary") /\ index' = i + 1 /\ Silent
  <2>1. View' = To(AtIndex(View, i + 1), "s_data_boundary")  BY <1>5, SilentView DEF Consume
  <2>2. After(View, c) = To(AtIndex(View, i + 1), "s_data_boundary")  BY <1>2, <1>5 DEF AfterBoundary
  <2> QED  BY <1>1, <1>5, <2>1, <2>2, Consumed DEF Consume
<1>6. CASE /\ i # n /\ c # Boundary[i + 1]
           /\ Reexecute("s_data") /\ index' = i /\ Data("data", SubSeq(Boundary, 1, i))
  <2> DEFINE d == SubSeq(Boundary, 1, i)
             r == WithData(AtIndex(View, i), d)
  <2>1. View' = To(r, "s_data")  BY <1>6, DataView DEF Reexecute
  <2>2. IsKnown(AtIndex(View, i)) /\ ~AtIndex(View, i).failed  BY <1>3, UpdateFields
  <2>3. IsKnown(r) /\ ~r.failed  BY <2>2, UpdateFields
  <2>4. After(View', c) = AfterData(r, c)  BY <2>1, <2>3, HeldAgain
  <2>5. After(View, c) = AfterData(r, c)  BY <1>2, <1>6 DEF AfterBoundary
  <2> QED  BY <1>1, <1>6, <2>4, <2>5, LookedAgain DEF Reexecute
<1> QED  BY <1>4, <1>5, <1>6 DEF DataBoundary

\* Behind a boundary.
LEMMA EndTracks ==
    ASSUME TypeOK, Tracks, DataBoundaryDone \/ NextPart \/ LastPart \/ Epilogue, Callbacks
    PROVE  Tracks'
<1>1. ~failed /\ p < last  BY DEF DataBoundaryDone, NextPart, LastPart, Epilogue, At
<1>2. CASE DataBoundaryDone
  <2>1. After(View, c) = AfterEnd(View, c)  BY <1>1, <1>2, ViewFields, AfterIs DEF DataBoundaryDone, At
  <2>2. CASE c \in {CR, HYPHEN}
    <3>1. /\ Silent /\ p' = p + 1 /\ UNCHANGED <<message, last, failed, index>>
          /\ state' = IF c = CR THEN "s_data_boundary_done_cr_lf" ELSE "s_data_boundary_done_hy_hy"
      BY <1>2, <2>2, DistinctAssumption DEF DataBoundaryDone, Consume
    <3>2. View' = To(View, state')  BY <3>1, SilentTo
    <3>3. After(View, c) = To(View, state')  BY <2>1, <2>2, <3>1 DEF AfterEnd
    <3> QED  BY <1>1, <3>1, <3>2, <3>3, Consumed
  <2>3. CASE c \notin {CR, HYPHEN}
    BY <1>1, <1>2, <2>1, <2>3, ViewFields, ErrorTracks DEF DataBoundaryDone, AfterEnd
  <2> QED  BY <2>2, <2>3
<1>3. CASE NextPart
  <2>1. After(View, c) = IF c = LF THEN To(WithPart(View), "s_header_field_start") ELSE Wrong(View)
    BY <1>1, <1>3, ViewFields, AfterIs DEF NextPart, At
  <2>2. CASE c = LF
    <3>1. /\ called'.on = {"part_end", "part_begin"} /\ p' = p + 1 /\ state' = "s_header_field_start"
          /\ UNCHANGED <<message, last, failed, index>>
      BY <1>3, <2>2 DEF NextPart, Consume, Notify
    <3>2. /\ parts_' = PartBegun(parts_)
          /\ UNCHANGED <<body_beg_called_, body_end_called_, header_name_, header_value_>>
      BY <3>1 DEF Callbacks, TypeOK, OnPartBegin, OnHeaderField, OnHeaderValue, OnHeadersComplete, OnData,
                  OnNone, PartBegun
    <3>3. View' = To(WithPart(View), "s_header_field_start")
      BY <3>1, <3>2, ViewKnown, KnownUpdates
    <3> QED  BY <1>1, <2>1, <2>2, <3>1, <3>3, Consumed
  <2>3. CASE c # LF
    BY <1>1, <1>3, <2>1, <2>3, ViewFields, ErrorTracks DEF NextPart
  <2> QED  BY <2>2, <2>3
<1>4. CASE LastPart
  <2>1. After(View, c) = IF c = HYPHEN THEN To(Ended(View), "s_epilogue") ELSE Wrong(View)
    BY <1>1, <1>4, ViewFields, AfterIs DEF LastPart, At
  <2>2. CASE c = HYPHEN
    <3>1. /\ called'.on = {"part_end", "body_end"} /\ p' = p + 1 /\ state' = "s_epilogue"
          /\ UNCHANGED <<message, last, failed, index>>
      BY <1>4, <2>2 DEF LastPart, Consume, Notify
    <3>2. UNCHANGED <<body_beg_called_, header_name_, header_value_, parts_>>
      BY <3>1 DEF Callbacks, TypeOK, OnPartBegin, OnHeaderField, OnHeaderValue, OnHeadersComplete, OnData, OnNone
    <3>3. body_end_called_' = Yes  BY <3>1 DEF Callbacks, TypeOK, Yes
    <3>4. View' = To(Ended(View), "s_epilogue")
      <4>1. Ended(View) = Known(state, index, failed, body_beg_called_, body_end_called_', header_name_,
                                header_value_, parts_)
        BY <3>3, ViewKnown, KnownUpdates
      <4> QED  BY <3>1, <3>2, <4>1, ViewKnown, KnownUpdates
    <3> QED  BY <1>1, <2>1, <2>2, <3>1, <3>4, Consumed
  <2>3. CASE c # HYPHEN
    BY <1>1, <1>4, <2>1, <2>3, ViewFields, ErrorTracks DEF LastPart
  <2> QED  BY <2>2, <2>3
<1>5. CASE Epilogue
  <2>1. Silent /\ p' = p + 1 /\ UNCHANGED <<message, last, failed, index, state>>
    BY <1>5 DEF Epilogue, Consume
  <2>2. View' = To(View, state)  BY <2>1, SilentTo
  <2>3. To(View, state) = View  BY ViewKnown, KnownUpdates
  <2>4. After(View, c) = View  BY <1>1, <1>5, ViewFields, AfterIs DEF Epilogue, At
  <2> QED  BY <1>1, <2>1, <2>2, <2>3, <2>4, Consumed
<1> QED  BY <1>2, <1>3, <1>4, <1>5

\* Any pass.
LEMMA PassTracks == ASSUME IInv, Tracks, ParserData PROVE Tracks'
<1>1. TypeOK /\ Callbacks /\ Execute  BY DEF IInv, ParserData
<1>2. CASE Preamble \/ PreambleHyHy  BY <1>1, <1>2, PreambleTracks
<1>3. CASE FirstBoundary \/ FirstBoundaryError  BY <1>1, <1>3, FirstTracks
<1>4. CASE Header
  BY <1>1, <1>4, HeaderTracks, NameTracks, ValueTracks DEF Header
<1>5. CASE Body
  <2>1. CASE PartData
    <3>1. parts_ # <<>>  BY <2>1 DEF PartData, At, IInv, PartIsOpen, BeforeParts
    <3> QED  BY <1>1, <2>1, <3>1, DataTracks
  <2>2. CASE DataCr
    <3>1. After(View, c) = AfterHeld(View, c, LF, "s_data_cr_lf", <<CR>>)
      BY <2>2, ViewFields, AfterIs DEF DataCr, At
    <3> QED  BY <1>1, <2>2, <3>1, HeldTracks DEF DataCr, At
  <2>3. CASE DataCrLf
    <3>1. After(View, c) = AfterHeld(View, c, HYPHEN, "s_data_cr_lf_hy", <<CR, LF>>)
      BY <2>3, ViewFields, AfterIs DEF DataCrLf, At
    <3> QED  BY <1>1, <2>3, <3>1, HeldTracks DEF DataCrLf, At
  <2>4. CASE DataCrLfHy
    <3>1. After(View, c) = AfterHeld(View, c, HYPHEN, "s_data_boundary_start", <<CR, LF, HYPHEN>>)
      BY <2>4, ViewFields, AfterIs DEF DataCrLfHy, At
    <3> QED  BY <1>1, <2>4, <3>1, HeldTracks DEF DataCrLfHy, At
  <2>5. CASE DataBoundary  BY <1>1, <2>5, BoundaryTracks
  <2> QED  BY <1>5, <2>1, <2>2, <2>3, <2>4, <2>5 DEF Body
<1>6. CASE DataBoundaryDone \/ NextPart \/ LastPart \/ Epilogue  BY <1>1, <1>6, EndTracks
<1> QED  BY <1>1, <1>2, <1>3, <1>4, <1>5, <1>6 DEF Execute

\* Initially nothing was read.
LEMMA InitTracks == Init => Tracks
<1> SUFFICES ASSUME Init PROVE Tracks  OBVIOUS
<1>1. TypeOK  BY InitInv DEF IInv
<1>2. Reading(input)[0] = Start /\ p = 0 /\ last = 0 /\ ~failed
  BY <1>1, Read DEF Init, AutomatonInit
<1>3. View = Start  BY DEF Init, AutomatonInit, View, Start, Empty
<1>4. ~Start.failed  BY DEF Start
<1> QED  BY <1>2, <1>3, <1>4 DEF Tracks

\* A call hands over a piece; the parser does not move.
LEMMA CallTracks == ASSUME TypeOK, Tracks, Call, UNCHANGED classVars PROVE Tracks'
<1>1. PICK n \in (last + 1)..Len(input) : last' = n  BY DEF Call
<1>2. ~failed /\ p = last /\ UNCHANGED <<message, p, state, index, failed>>  BY DEF Call
<1>3. p \in Nat /\ p < last' /\ last' <= Len(input) /\ Len(input) \in Nat  BY <1>1, <1>2, Read
<1>4. View' = View /\ input' = input /\ c' = c  BY <1>2 DEF View, classVars, input, c
<1>5. View = Reading(input)[p]  BY <1>2 DEF Tracks
<1>6. Reading(input)[p + 1] = After(View, c)
  <2>0. last' \in Nat  BY <1>1, Read
  <2>1. p \in 0..(Len(input) - 1)  BY <1>3, <2>0
  <2>2. Reading(input)[p + 1] = After(Reading(input)[p], input[p + 1])  BY <2>1, Read
  <2> QED  BY <1>5, <2>2 DEF c
<1> QED  BY <1>2, <1>3, <1>4, <1>6 DEF Tracks

\* Any step.
LEMMA StepTracks == IInv /\ Tracks /\ [Next]_vars => Tracks'
<1> SUFFICES ASSUME IInv, Tracks, [Next]_vars PROVE Tracks'  OBVIOUS
<1>1. CASE ParserData  BY <1>1, PassTracks
<1>2. CASE Call /\ UNCHANGED classVars  BY <1>2, CallTracks DEF IInv
<1>3. CASE UNCHANGED vars  BY <1>3 DEF vars, Tracks, View, input, c
<1> QED  BY <1>1, <1>2, <1>3 DEF Next

\* In every reachable state the parser is where the reading of the message one
\* character after another is: runs, pieces and second looks make no difference.
THEOREM InvTracks == Spec => [](IInv /\ Tracks)
<1>1. Init => IInv /\ Tracks  BY InitInv, InitTracks
<1>2. IInv /\ Tracks /\ [Next]_vars => (IInv /\ Tracks)'  BY StepInv, StepTracks
<1> QED  BY <1>1, <1>2, PTL DEF Spec

\* The parser is after each piece where it would be had it read the message character by character.
THEOREM DivisionDoesNotMatter == Spec => []DivisionIrrelevant
<1>1. IInv /\ Tracks => DivisionIrrelevant
  <2> SUFFICES ASSUME IInv, Tracks PROVE DivisionIrrelevant  OBVIOUS
  <2>1. p \in Nat /\ last \in Nat  BY Read DEF IInv
  <2> QED  BY <2>1 DEF Tracks, DivisionIrrelevant
<1> QED  BY <1>1, InvTracks, PTL

\* What the messages say of themselves.
LEMMA Meaning ==
    ASSUME TypeOK
    PROVE  LET r == Reading(input) n == Len(input) IN
           /\ message.errorAt \in 0..n
           /\ message.errorAt < n => ~r[n].ended
           /\ ~message.hyphens =>
                /\ ~r[message.errorAt].failed
                /\ message.errorAt < n => r[message.errorAt + 1].failed
                /\ message.errorAt = n /\ ~message.valueless =>
                    r[n].parts = message.parts /\ AreFields(message.fields, message.parts)
<1>1. Means(message)  BY MeaningAssumption DEF TypeOK
<1> QED  BY <1>1 DEF Means, input

\* FirstPartOf finds a part of the name, before which there is none.
LEMMA FirstOfName ==
    ASSUME NEW T, NEW parts \in Seq(T), NEW i \in DOMAIN parts
    PROVE  LET f == FirstPartOf(parts, Key(parts[i])) IN
           /\ f \in DOMAIN parts /\ Key(parts[f]) = Key(parts[i])
           /\ \A j \in 1..(f - 1) : Key(parts[j]) # Key(parts[i])
<1> DEFINE S == {k \in DOMAIN parts : Key(parts[k]) = Key(parts[i])}
           f == FirstPartOf(parts, Key(parts[i]))
<1>0. DOMAIN parts = 1..Len(parts) /\ Len(parts) \in Nat  OBVIOUS
<1>1. S \in SUBSET Nat /\ S # {}  BY <1>0
<1>2. PICK m \in S : \A k \in S : m <= k  BY <1>1, Least
<1>3. /\ m \in DOMAIN parts /\ Key(parts[m]) = Key(parts[i])
      /\ \A j \in DOMAIN parts : Key(parts[j]) = Key(parts[i]) => m <= j
  BY <1>2
<1>4. /\ f \in DOMAIN parts /\ Key(parts[f]) = Key(parts[i])
      /\ \A j \in DOMAIN parts : Key(parts[j]) = Key(parts[i]) => f <= j
  BY <1>3 DEF FirstPartOf
<1> HIDE DEF f
<1>5. \A j \in 1..(f - 1) : j \in DOMAIN parts /\ ~ (f <= j)  BY <1>0, <1>4
<1> QED  BY <1>4, <1>5 DEF f

\* get_multipart_data returns the fields of the parts.
LEMMA FieldsOfParts ==
    ASSUME NEW T, NEW parts \in Seq(T), NEW fields, AreFields(fields, parts)
    PROVE  GetMultipartData(parts) = fields
<1> DEFINE Keys == {Key(parts[i]) : i \in DOMAIN parts}
<1>1. \A k \in Keys : fields[k] = parts[FirstPartOf(parts, k)].body
  <2> TAKE k \in Keys
  <2>1. PICK i \in DOMAIN parts : k = Key(parts[i])  OBVIOUS
  <2> DEFINE f == FirstPartOf(parts, k)
  <2>2. /\ f \in DOMAIN parts /\ Key(parts[f]) = k
        /\ \A j \in 1..(f - 1) : Key(parts[j]) # k
    BY <2>1, FirstOfName
  <2> HIDE DEF f
  <2> QED  BY <2>2 DEF AreFields, f
<1>2. fields = [k \in Keys |-> fields[k]]  BY DEF AreFields
<1>3. [k \in Keys |-> fields[k]] = [k \in Keys |-> parts[FirstPartOf(parts, k)].body]  BY <1>1
<1> QED  BY <1>2, <1>3 DEF GetMultipartData

\* A message that has arrived as a whole and has no bad character.
LEMMA ArrivedWhole ==
    ASSUME TypeOK, Tracks, Finished, ~message.hyphens, ~message.valueless,
           message.errorAt = Len(input)
    PROVE  parts_ = message.parts /\ GetMultipartData(parts_) = message.fields
<1>1. p = last /\ ~failed  BY Read DEF Finished, Tracks
<1>2. View = Reading(input)[Len(input)]  BY <1>1 DEF Tracks, Finished
<1>3. View.parts = message.parts /\ AreFields(message.fields, message.parts)
  BY <1>2, Meaning
<1>4. parts_ = message.parts  BY <1>3, ViewFields
<1>5. parts_ \in Seq(PartType)  BY DEF TypeOK
<1> QED  BY <1>3, <1>4, <1>5, FieldsOfParts

\* However a message whose headers have values is cut into pieces, its parts arrive
\* as they were sent, and get_multipart_data returns the fields of its form.
THEOREM MessageDoesArrive == Spec => []MessageArrives
<1>1. IInv /\ Tracks => MessageArrives
  <2> SUFFICES ASSUME IInv, Tracks, Finished, ~message.hyphens, ~message.valueless,
                      message.errorAt = Len(input)
               PROVE  parts_ = message.parts /\ GetMultipartData(parts_) = message.fields
    BY DEF MessageArrives
  <2> QED  BY ArrivedWhole DEF IInv
<1> QED  BY <1>1, InvTracks, PTL

\* No character behind the first bad one is read, and no other is rejected.
LEMMA StopsWhereBad ==
    ASSUME TypeOK, Tracks, ~message.hyphens
    PROVE  p <= message.errorAt /\ (failed => p = message.errorAt)
<1> DEFINE R == Reading(input)
           e == message.errorAt
           n == Len(input)
<1>1. p \in Nat /\ last \in Nat /\ p <= last /\ last <= n /\ n \in Nat /\ input \in Seq(Char)  BY Read
<1>2. e \in 0..n /\ ~R[e].failed /\ (e < n => R[e + 1].failed)  BY Meaning
<1>3. \A j \in 0..n : \A k \in j..n : R[j].failed => R[k] = R[j]  BY <1>1, Settled
<1> HIDE DEF R, e, n
<1>4. ~R[p].failed /\ (failed => p < last /\ R[p + 1].failed)  BY DEF Tracks, R
<1>5. p <= e
  <2> SUFFICES ASSUME p > e PROVE FALSE  BY <1>1, <1>2
  <2>1. e + 1 \in 0..n /\ p \in (e + 1)..n /\ e < n  BY <1>1, <1>2
  <2> QED  BY <1>2, <1>3, <1>4, <2>1
<1>6. ASSUME failed PROVE p = e
  <2> SUFFICES ASSUME p # e PROVE FALSE  OBVIOUS
  <2>1. p + 1 \in 0..n /\ e \in (p + 1)..n  BY <1>1, <1>2, <1>4, <1>5, <1>6
  <2> QED  BY <1>2, <1>3, <1>4, <1>6, <2>1
<1> QED  BY <1>5, <1>6 DEF e

\* Once the body has ended, it has ended for the reading too, whatever follows.
LEMMA EndIsTheEnd ==
    ASSUME IInv, Tracks, body_end_called_
    PROVE  message.errorAt = Len(input)
<1> DEFINE R == Reading(input)
           n == Len(input)
<1>0. TypeOK  BY DEF IInv
<1>1. p \in Nat /\ last \in Nat /\ p <= last /\ last <= n /\ n \in Nat /\ input \in Seq(Char)  BY <1>0, Read
<1>2. state = "s_epilogue" /\ ~failed  BY DEF IInv, AtEnd
<1>3. View.state = "s_epilogue" /\ View.ended /\ ~View.failed  BY <1>2 DEF View
<1>4. PICK k \in 0..n : R[k] = View
  <2>1. CASE p = last  BY <1>1, <1>2, <2>1 DEF Tracks
  <2>2. CASE p # last
    <3>1. p < last  BY <1>1, <2>2
    <3>2. After(View, c) = R[p + 1]  BY <1>2, <3>1 DEF Tracks
    <3>3. After(View, c) = View  BY <1>3, AfterIs
    <3>4. p + 1 \in 0..n  BY <1>1, <3>1
    <3> HIDE DEF R, n
    <3> QED  BY <3>2, <3>3, <3>4
  <2> QED  BY <2>1, <2>2
<1>5. R[n] = View
  <2>1. n \in k..n  BY <1>1
  <2> QED  BY <1>1, <1>3, <1>4, <2>1, Settled
<1>6. R[n].ended  BY <1>3, <1>5
<1>7. message.errorAt \in 0..n /\ (message.errorAt < n => ~R[n].ended)  BY <1>0, Meaning
<1> QED  BY <1>1, <1>6, <1>7

\* A bad message is rejected at its first bad character, a good one never.
THEOREM BadIsRejected == Spec => []RejectedWhereBad
<1>1. IInv /\ Tracks => RejectedWhereBad
  BY StopsWhereBad, EndIsTheEnd DEF IInv, RejectedWhereBad
<1> QED  BY <1>1, InvTracks, PTL
=============================================================================
