-------------------------- MODULE StringStreamProofs --------------------------
(***************************************************************************)
(* What holds of basic_string_stream for every size it begins with, every   *)
(* size it is grown to and any order of its operations: the pointers stay   *)
(* inside of the buffer, and str() is what was written.                     *)
(***************************************************************************)
EXTENDS StringStream, TLAPS

\* Division as the nearest multiple below.
LEMMA MultipleBelow ==
    ASSUME NEW b \in Nat \ {0}, NEW x \in Nat
    PROVE  (x \div b) * b \in Nat /\ (x \div b) * b <= x /\ x < (x \div b) * b + b
  OBVIOUS

\* growpup returns what was asked for, or more.
LEMMA GrownIsEnough ==
    ASSUME StreamAssumption, NEW n \in Nat
    PROVE  GrownSize(n) \in Nat /\ GrownSize(n) >= n
<1>1. INIT_BUFF_SIZE \in Nat \ {0} /\ n + INIT_BUFF_SIZE - 1 \in Nat
  BY DEF StreamAssumption
<1>2. /\ GrownSize(n) \in Nat
      /\ n + INIT_BUFF_SIZE - 1 < GrownSize(n) + INIT_BUFF_SIZE
  BY <1>1, MultipleBelow DEF GrownSize
<1> QED BY <1>1, <1>2

StreamInv == StreamTypeOK /\ PointersInside /\ ContentsKept

LEMMA InitStream == ASSUME StreamAssumption, Construct PROVE StreamInv
<1>1. /\ length_ \in Nat \ {0} /\ read_ptr_ = 0 /\ write_ptr_ = 0 /\ read_ptr_ <= length_
      /\ write_ptr_ <= length_
  BY DEF StreamAssumption, Construct
<1>2. 0 \in Byte /\ length_ = INIT_BUFF_SIZE
  BY DEF StreamAssumption, Construct
<1>3. buffer \in [0 .. (length_ - 1) -> Byte \union {Unset}]
  BY <1>2 DEF Construct
<1>4. bad \in BOOLEAN
  BY Zenon DEF Construct
<1>5. got = NoBytes /\ log = <<>> /\ Len(<<>>) = 0 /\ <<>> \in Seq(Byte)
  BY DEF Construct
<1> QED BY <1>1, <1>3, <1>4, <1>5 DEF StreamInv, StreamTypeOK, PointersInside, ContentsKept

LEMMA InitAgain == ASSUME StreamAssumption, ConstructAgain PROVE StreamInv'
<1>1. /\ length_' \in Nat \ {0} /\ read_ptr_' = 0 /\ write_ptr_' = 0 /\ read_ptr_' <= length_'
      /\ write_ptr_' <= length_'
  BY DEF StreamAssumption, ConstructAgain
<1>2. 0 \in Byte /\ length_' = INIT_BUFF_SIZE
  BY DEF StreamAssumption, ConstructAgain
<1>3. buffer' \in [0 .. (length_' - 1) -> Byte \union {Unset}]
  BY <1>2 DEF ConstructAgain
<1>4. bad' \in BOOLEAN
  BY Zenon DEF ConstructAgain
<1>5. got' = NoBytes /\ log' = <<>> /\ Len(<<>>) = 0 /\ <<>> \in Seq(Byte)
  BY DEF ConstructAgain
<1> QED BY <1>1, <1>3, <1>4, <1>5 DEF StreamInv, StreamTypeOK, PointersInside, ContentsKept

\* The byte before one of the first n is one of the m there are.
LEMMA Before ==
    ASSUME NEW n \in Nat, NEW m \in Nat, m >= n, NEW i \in 1 .. n
    PROVE  i \in Nat /\ i >= 1 /\ i <= n /\ i - 1 \in 0 .. (m - 1)
  OBVIOUS

\* A write, with or without a larger buffer.
LEMMA WriteStep ==
    ASSUME StreamAssumption, StreamInv, NEW s \in Seq(Byte), Write(s)
    PROVE  StreamInv'
<1> DEFINE n == write_ptr_ + Len(s)
<1>o. /\ length_ \in Nat \ {0} /\ write_ptr_ \in Nat /\ read_ptr_ \in Nat
      /\ write_ptr_ <= length_ /\ read_ptr_ <= length_
      /\ s \in Seq(Byte) /\ Len(s) \in Nat /\ log \in Seq(Byte)
      /\ write_ptr_ = Len(log)
  BY DEF StreamAssumption, StreamInv, StreamTypeOK, PointersInside, ContentsKept
<1>1. n \in Nat /\ GrownSize(n) \in Nat /\ GrownSize(n) >= n
  <2>1. n \in Nat
    BY <1>o
  <2> HIDE DEF n
  <2> QED BY <2>1, GrownIsEnough
<1>2. /\ length_' = IF n > length_ THEN GrownSize(n) ELSE length_
      /\ buffer' = [i \in 0 .. (length_' - 1) |->
                       IF i \in write_ptr_ .. (n - 1) THEN s[i - write_ptr_ + 1] ELSE Grown(i)]
      /\ write_ptr_' = n /\ log' = log \o s
      /\ UNCHANGED <<read_ptr_, bad, got>>
  BY DEF Write
<1>3. length_' \in Nat \ {0} /\ length_' >= n /\ length_' >= length_
  <2>1. CASE n > length_
    BY <1>o, <1>1, <1>2, <2>1
  <2>2. CASE ~ (n > length_)
    BY <1>o, <1>1, <1>2, <2>2
  <2> QED BY <2>1, <2>2
<1>4. \A i \in 0 .. (length_' - 1) : Grown(i) \in Byte \union {Unset}
  BY <1>o, <1>3 DEF Grown, StreamInv, StreamTypeOK
<1>5. \A i \in write_ptr_ .. (n - 1) : s[i - write_ptr_ + 1] \in Byte
  <2> SUFFICES ASSUME NEW i \in write_ptr_ .. (n - 1) PROVE s[i - write_ptr_ + 1] \in Byte
    OBVIOUS
  <2>1. i - write_ptr_ + 1 \in 1 .. Len(s)
    BY <1>o
  <2> QED BY <1>o, <2>1
<1>6. buffer' \in [0 .. (length_' - 1) -> Byte \union {Unset}]
  BY <1>2, <1>4, <1>5
<1>7. log' \in Seq(Byte) /\ Len(log') = Len(log) + Len(s)
  BY <1>o, <1>2
<1>8. StreamTypeOK'
  BY <1>1, <1>2, <1>3, <1>6, <1>7 DEF StreamInv, StreamTypeOK
<1>9. PointersInside'
  BY <1>o, <1>1, <1>2, <1>3 DEF PointersInside
<1>10. ASSUME NEW i \in 1 .. Len(log') PROVE buffer'[i - 1] = log'[i]
  <2>1. i \in Nat /\ i >= 1 /\ i <= n /\ i - 1 \in 0 .. (length_' - 1)
    <3>1. Len(log') = n
      BY <1>o, <1>7
    <3>2. i \in 1 .. n
      BY <3>1
    <3> HIDE DEF n
    <3> QED BY <1>1, <1>3, <3>2, Before
  <2>2. CASE i <= write_ptr_
    <3>1. i \in 1 .. Len(log) /\ i - 1 < write_ptr_ /\ i - 1 < length_
      BY <1>o, <2>1, <2>2
    <3>2. buffer'[i - 1] = Grown(i - 1)
      BY <1>o, <1>2, <2>1, <3>1
    <3>3. Grown(i - 1) = log[i]
      BY <3>1 DEF Grown, StreamInv, ContentsKept
    <3>4. log'[i] = log[i]
      BY <1>o, <1>2, <3>1
    <3> QED BY <3>2, <3>3, <3>4
  <2>3. CASE i > write_ptr_
    <3>1. i - 1 \in write_ptr_ .. (n - 1) /\ (i - 1) - write_ptr_ + 1 = i - Len(log)
      BY <1>o, <1>1, <2>1, <2>3
    <3>2. buffer'[i - 1] = s[i - Len(log)]
      BY <1>2, <2>1, <3>1
    <3>3. log'[i] = s[i - Len(log)]
      BY <1>o, <1>2, <1>7, <2>3
    <3> QED BY <3>2, <3>3
  <2> QED BY <1>o, <2>1, <2>2, <2>3
<1>11. ContentsKept'
  BY <1>o, <1>2, <1>7, <1>10 DEF ContentsKept
<1> QED BY <1>8, <1>9, <1>11 DEF StreamInv

\* A read moves the read pointer, unless it would leave the buffer.
LEMMA ReadStep ==
    ASSUME StreamInv, NEW n \in Nat, ReadBytes(n)
    PROVE  StreamInv'
<1>o. /\ length_ \in Nat \ {0} /\ read_ptr_ \in Nat /\ read_ptr_ <= length_
      /\ buffer \in [0 .. (length_ - 1) -> Byte \union {Unset}] /\ bad \in BOOLEAN
  BY DEF StreamInv, StreamTypeOK, PointersInside
<1>1. CASE read_ptr_ + n > length_
  <2>1. bad' \in BOOLEAN
    BY <1>1, Zenon DEF ReadBytes
  <2>2. got' = NoBytes /\ UNCHANGED <<buffer, length_, write_ptr_, log, read_ptr_>>
    BY <1>1 DEF ReadBytes
  <2> QED BY <2>1, <2>2 DEF StreamInv, StreamTypeOK, PointersInside, ContentsKept
<1>2. CASE ~ (read_ptr_ + n > length_)
  <2>1. /\ got' = [i \in 1 .. n |-> buffer[read_ptr_ + i - 1]]
        /\ read_ptr_' = read_ptr_ + n /\ UNCHANGED <<buffer, length_, write_ptr_, log, bad>>
    BY <1>2 DEF ReadBytes
  <2>2. \A i \in 1 .. n : buffer[read_ptr_ + i - 1] \in Byte \union {Unset}
    BY <1>o, <1>2
  <2>3. got' \in Seq(Byte \union {Unset})
    BY <2>1, <2>2
  <2>4. read_ptr_' \in Nat /\ read_ptr_' <= length_
    BY <1>o, <1>2, <2>1
  <2> QED BY <2>1, <2>3, <2>4 DEF StreamInv, StreamTypeOK, PointersInside, ContentsKept
<1> QED BY <1>1, <1>2

LEMMA StepStream ==
    ASSUME StreamAssumption, StreamInv, [StreamNext]_streamVars
    PROVE  StreamInv'
<1>1. CASE \E s \in Chunks : write_ptr_ + Len(s) <= MaxLength /\ Write(s)
  BY <1>1, WriteStep DEF StreamAssumption
<1>2. CASE \E n \in 1 .. MaxLength : ReadBytes(n)
  BY <1>2, ReadStep DEF StreamAssumption
<1>3. CASE Clear
  BY <1>3 DEF Clear, StreamInv, StreamTypeOK, PointersInside, ContentsKept
<1>4. CASE ConstructAgain
  BY <1>4, InitAgain
<1>5. CASE UNCHANGED streamVars
  BY <1>5 DEF streamVars, StreamInv, StreamTypeOK, PointersInside, ContentsKept
<1> QED BY <1>1, <1>2, <1>3, <1>4, <1>5 DEF StreamNext

\* No pointer leaves the buffer: growpup, write, read and clear.
THEOREM PointersStayInside ==
    ASSUME StreamAssumption PROVE StreamSpec => []PointersInside
<1>1. StreamInv => PointersInside
  BY DEF StreamInv
<1>2. Construct => StreamInv
  BY InitStream
<1>3. StreamInv /\ [StreamNext]_streamVars => StreamInv'
  BY StepStream
<1> QED BY <1>1, <1>2, <1>3, PTL DEF StreamSpec

\* str() is everything written since the last clear, whatever buffers it went
\* through: write, put and growpup.
THEOREM StrIsWhatWasWritten ==
    ASSUME StreamAssumption PROVE StreamSpec => []ContentsKept
<1>1. StreamInv => ContentsKept
  BY DEF StreamInv
<1>2. Construct => StreamInv
  BY InitStream
<1>3. StreamInv /\ [StreamNext]_streamVars => StreamInv'
  BY StepStream
<1> QED BY <1>1, <1>2, <1>3, PTL DEF StreamSpec
=============================================================================
