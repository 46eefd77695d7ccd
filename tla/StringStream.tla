----------------------------- MODULE StringStream -----------------------------
(***************************************************************************)
(* basic_string_stream of string_stream.hpp: a byte buffer that grows in    *)
(* multiples of INIT_BUFF_SIZE while its four pointers follow it.  Pointers *)
(* are offsets from header_ptr_; tail_ptr_ is always length_.               *)
(*                                                                         *)
(* put writes one byte the way write does, and write_str is a row of puts   *)
(* and writes: as growing twice ends at the multiple growing once ends at,  *)
(* both are Write here.                                                     *)
(***************************************************************************)
EXTENDS Integers, Sequences

CONSTANTS
    INIT_BUFF_SIZE,
    Byte,       \* what a byte may be; 0 is what memset writes
    Unset,      \* a byte of a new allocation that nothing was written to
    Chunks,     \* what is written by one call
    MaxLength,  \* bound: no call writes beyond it
    NoBytes     \* no call of read has returned yet, or it failed

\* What the theorems about the stream assume of its parameters.
StreamAssumption ==
    /\ INIT_BUFF_SIZE \in Nat \ {0}
    /\ MaxLength \in Nat
    /\ 0 \in Byte
    /\ Unset \notin Byte
    /\ Chunks \subseteq Seq(Byte)

VARIABLES
    buffer,     \* what header_ptr_ points at, from 0
    length_,
    read_ptr_,
    write_ptr_,
    bad,        \* status_ # good
    got,        \* what the last call of read copied out
    log         \* history: everything written since the last clear

streamVars == <<buffer, length_, read_ptr_, write_ptr_, bad, got, log>>

Construct ==
    /\ length_ = INIT_BUFF_SIZE
    /\ buffer = [i \in 0 .. (INIT_BUFF_SIZE - 1) |-> 0]
    /\ read_ptr_ = 0
    /\ write_ptr_ = 0
    /\ bad = FALSE
    /\ got = NoBytes
    /\ log = <<>>

\* The same for a stream that replaces another.
ConstructAgain ==
    /\ length_' = INIT_BUFF_SIZE
    /\ buffer' = [i \in 0 .. (INIT_BUFF_SIZE - 1) |-> 0]
    /\ read_ptr_' = 0
    /\ write_ptr_' = 0
    /\ bad' = FALSE
    /\ got' = NoBytes
    /\ log' = <<>>

\* Faulty: the multiple below.
ShrunkSize(want_size) == (want_size \div INIT_BUFF_SIZE) * INIT_BUFF_SIZE

\* growpup: the smallest multiple that holds want_size bytes.
GrownSize(want_size) ==
    ((want_size + INIT_BUFF_SIZE - 1) \div INIT_BUFF_SIZE) * INIT_BUFF_SIZE

\* What a pointer finds after growpup copied length_ bytes into the new block.
Grown(i) == IF i < length_ THEN buffer[i] ELSE Unset

Write(s) ==
    LET writed_len == write_ptr_ + Len(s) IN
    /\ length_' = IF writed_len > length_ THEN GrownSize(writed_len) ELSE length_
    /\ buffer' = [i \in 0 .. (length_' - 1) |->
                     IF i \in write_ptr_ .. (writed_len - 1) THEN s[i - write_ptr_ + 1]
                                                             ELSE Grown(i)]
    /\ write_ptr_' = writed_len
    /\ log' = log \o s
    /\ UNCHANGED <<read_ptr_, bad, got>>

\* read compares with the end of the buffer, not with what was written: behind
\* write_ptr_ it hands out what happens to be there.
ReadBytes(n) ==
    /\ IF read_ptr_ + n > length_
       THEN bad' = TRUE /\ got' = NoBytes /\ UNCHANGED read_ptr_
       ELSE /\ got' = [i \in 1 .. n |-> buffer[read_ptr_ + i - 1]]
            /\ read_ptr_' = read_ptr_ + n
            /\ UNCHANGED bad
    /\ UNCHANGED <<buffer, length_, write_ptr_, log>>

Clear ==
    /\ read_ptr_' = 0
    /\ write_ptr_' = 0
    /\ log' = <<>>
    /\ UNCHANGED <<buffer, length_, bad, got>>

\* str()
Str == [i \in 1 .. write_ptr_ |-> buffer[i - 1]]

StreamNext ==
    \/ \E s \in Chunks : write_ptr_ + Len(s) <= MaxLength /\ Write(s)
    \/ \E n \in 1 .. MaxLength : ReadBytes(n)
    \/ Clear
    \/ ConstructAgain

StreamSpec == Construct /\ [][StreamNext]_streamVars

-----------------------------------------------------------------------------
StreamTypeOK ==
    /\ length_ \in Nat \ {0}
    /\ buffer \in [0 .. (length_ - 1) -> Byte \union {Unset}]
    /\ read_ptr_ \in Nat
    /\ write_ptr_ \in Nat
    /\ bad \in BOOLEAN
    /\ got = NoBytes \/ got \in Seq(Byte \union {Unset})
    /\ log \in Seq(Byte)

\* Neither pointer leaves the buffer, however often it is replaced.
PointersInside == read_ptr_ <= length_ /\ write_ptr_ <= length_

\* str() is everything written since the last clear, in order.
ContentsKept == write_ptr_ = Len(log) /\ \A i \in 1 .. Len(log) : buffer[i - 1] = log[i]
=============================================================================
