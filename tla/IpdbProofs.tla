------------------------------ MODULE IpdbProofs ------------------------------
(***************************************************************************)
(* What Ipdb's runs check on small databases, for every database that is    *)
(* packed the way IpdbFormat says, with addresses of any width.             *)
(*                                                                         *)
(* The tree, the split at tabs and the check of UTF-8 are loops over data,  *)
(* and what they compute is proved by induction: the numbers at which a     *)
(* statement fails have a least one, and there is none (Least).             *)
(***************************************************************************)
EXTENDS IpdbFormat, SequenceTheorems, WellFoundedInduction, TLAPS

-----------------------------------------------------------------------------
(* Induction: the least number outside a set.                              *)

\* The order of the naturals, as a relation.
LessThan == {ss \in Nat \X Nat : ss[1] < ss[2]}

\* A set of naturals that is not empty has a least member.
LEMMA Least == ASSUME NEW T \in SUBSET Nat, T # {} PROVE \E m \in T : \A k \in T : m <= k
<1>1. IsWellFoundedOn(LessThan, Nat)  BY NatLessThanWellFounded DEF OpToRel, LessThan
<1>2. PICK m \in T : \A y \in T : <<y, m>> \notin LessThan
  <2>1. \E m \in T : \A y \in T : ~ (<<y, m>> \in LessThan)  BY <1>1, WFMin
  <2> QED  BY <2>1
<1>3. ASSUME NEW k \in T PROVE m <= k
  <2>1. k \in Nat /\ m \in Nat /\ <<k, m>> \notin LessThan  BY <1>2
  <2> QED  BY <2>1 DEF LessThan
<1> QED  BY <1>3

\* A set with a and with the successor of each member below b has all from a to b.
LEMMA SetInduction ==
    ASSUME NEW S, NEW a \in Nat, NEW b \in Nat, a \in S, \A n \in a..(b - 1) : n \in S => n + 1 \in S
    PROVE  \A n \in a..b : n \in S
<1> SUFFICES ASSUME NEW n \in a..b, n \notin S PROVE FALSE  OBVIOUS
<1> DEFINE T == {k \in a..b : k \notin S}
<1>1. T \in SUBSET Nat /\ T # {}  OBVIOUS
<1>2. PICK m \in T : \A k \in T : m <= k  BY <1>1, Least
<1>3. m # a /\ m \in a..b /\ m \notin S  OBVIOUS
<1>4. m - 1 \in a..(b - 1) /\ m - 1 \notin T  BY <1>2, <1>3
<1>5. m - 1 \in S  BY <1>4
<1>6. (m - 1) + 1 \in S  BY <1>4, <1>5
<1> QED  BY <1>3, <1>6

\* The same from b down to a.
LEMMA DownInduction ==
    ASSUME NEW S, NEW a \in Nat, NEW b \in Nat, b \in S, \A n \in a..(b - 1) : n + 1 \in S => n \in S
    PROVE  \A n \in a..b : n \in S
<1> SUFFICES ASSUME NEW n \in a..b PROVE n \in S  OBVIOUS
<1> DEFINE T == {k \in 0..(b - a) : b - k \in S}
<1>1. b - a \in Nat /\ 0 \in T  OBVIOUS
<1>2. ASSUME NEW k \in 0..(b - a - 1), k \in T PROVE k + 1 \in T
  <2>1. b - k - 1 \in a..(b - 1) /\ (b - k - 1) + 1 = b - k  OBVIOUS
  <2>2. b - k - 1 \in S  BY <1>2, <2>1
  <2>3. b - (k + 1) = b - k - 1  OBVIOUS
  <2> QED  BY <1>2, <2>2, <2>3
<1>3. \A k \in 0..(b - a) : k \in T
  <2> HIDE DEF T
  <2> QED  BY <1>1, <1>2, SetInduction
<1>4. b - n \in 0..(b - a) /\ b - (b - n) = n  OBVIOUS
<1> QED  BY <1>3, <1>4

-----------------------------------------------------------------------------
(* Records and their fields.                                               *)

\* The first tab from i on, and the only position that can be it.
LEMMA TabIsFirst ==
    ASSUME NEW s \in Seq(Byte), NEW i \in 1..(Len(s) + 1), NEW j \in i..Len(s), s[j] = TAB
    PROVE  /\ FirstTab(s, i) \in i..Len(s) /\ s[FirstTab(s, i)] = TAB
           /\ (\A k \in i..(j - 1) : s[k] # TAB) => FirstTab(s, i) = j
<1> DEFINE T == {k \in i..Len(s) : s[k] = TAB}
           t == FirstTab(s, i)
<1>0. Len(s) \in Nat  OBVIOUS
<1>1. T \in SUBSET Nat /\ T # {}  BY <1>0
<1>2. PICK m \in T : \A k \in T : m <= k  BY <1>1, Least
<1>3. m \in i..Len(s) /\ s[m] = TAB /\ \A k \in i..(m - 1) : s[k] # TAB  BY <1>0, <1>2
<1>4. t \in i..Len(s) /\ s[t] = TAB /\ \A k \in i..(t - 1) : s[k] # TAB  BY <1>3 DEF FirstTab
<1> HIDE DEF t
<1>5. ASSUME \A k \in i..(j - 1) : s[k] # TAB PROVE t = j
  <2>1. ~ (t < j) /\ ~ (j < t)  BY <1>0, <1>4, <1>5
  <2> QED  BY <1>0, <1>4, <2>1
<1> QED  BY <1>4, <1>5 DEF t

\* The fields from i on.
SplitBody(s, f, i) ==
    IF \E j \in i..Len(s) : s[j] = TAB
    THEN <<SubSeq(s, i, FirstTab(s, i) - 1)>> \o f[FirstTab(s, i) + 1]
    ELSE <<SubSeq(s, i, Len(s))>>

\* They look at no position but one behind.
LEMMA SplitBehind ==
    ASSUME NEW s \in Seq(Byte), NEW i \in 1..(Len(s) + 1), NEW f, NEW g,
           \A k \in (i + 1)..(Len(s) + 1) : f[k] = g[k]
    PROVE  SplitBody(s, f, i) = SplitBody(s, g, i)
<1>1. CASE \E j \in i..Len(s) : s[j] = TAB
  <2>1. FirstTab(s, i) + 1 \in (i + 1)..(Len(s) + 1)  BY <1>1, TabIsFirst
  <2> QED  BY <1>1, <2>1 DEF SplitBody
<1>2. CASE ~ \E j \in i..Len(s) : s[j] = TAB  BY <1>2 DEF SplitBody
<1> QED  BY <1>1, <1>2

\* The function exists, for every text.
LEMMA SplitDef ==
    ASSUME NEW s \in Seq(Byte)
    PROVE  SplitFrom(s) = [i \in 1..(Len(s) + 1) |-> SplitBody(s, SplitFrom(s), i)]
<1> DEFINE L == Len(s) + 1
           Is(f, n) == f = [i \in n..L |-> SplitBody(s, f, i)]
           S == {n \in 1..L : \E f : Is(f, n)}
<1>0. Len(s) \in Nat /\ L \in Nat /\ L >= 1  OBVIOUS
<1>1. L \in S
  <2> DEFINE f == [i \in L..L |-> SplitBody(s, s, L)]
  <2>1. SplitBody(s, f, L) = SplitBody(s, s, L)  BY <1>0, SplitBehind
  <2>2. \A i \in L..L : i = L  BY <1>0
  <2>3. f = [i \in L..L |-> SplitBody(s, f, i)]  BY <2>1, <2>2
  <2>4. Is(f, L)  BY <2>3
  <2> HIDE DEF Is, f
  <2> QED  BY <1>0, <2>4
<1>2. ASSUME NEW n \in 1..(L - 1), n + 1 \in S PROVE n \in S
  <2>1. PICK g : Is(g, n + 1)  BY <1>2
  <2> DEFINE f == [i \in n..L |-> IF i = n THEN SplitBody(s, g, n) ELSE g[i]]
  <2>2. \A i \in (n + 1)..L : f[i] = g[i]  BY <1>0
  <2>3. \A i \in n..L : SplitBody(s, f, i) = SplitBody(s, g, i)
    <3> TAKE i \in n..L
    <3>1. i \in 1..(Len(s) + 1) /\ \A k \in (i + 1)..(Len(s) + 1) : f[k] = g[k]  BY <1>0, <2>2
    <3> HIDE DEF f
    <3> QED  BY <3>1, SplitBehind
  <2>4. \A i \in n..L : f[i] = SplitBody(s, f, i)
    <3> TAKE i \in n..L
    <3>1. CASE i = n  BY <2>3, <3>1
    <3>2. CASE i # n
      <4>1. i \in (n + 1)..L  BY <1>0, <3>2
      <4>2. g[i] = SplitBody(s, g, i)  BY <2>1, <4>1
      <4> HIDE DEF f
      <4> QED  BY <2>2, <2>3, <4>1, <4>2
    <3> QED  BY <3>1, <3>2
  <2>5. Is(f, n)
    <3>1. f = [i \in n..L |-> f[i]]  OBVIOUS
    <3> HIDE DEF f
    <3> QED  BY <2>4, <3>1
  <2> HIDE DEF Is, f
  <2> QED  BY <1>0, <2>5
<1>3. 1 \in S
  <2> HIDE DEF S
  <2>1. \A n \in 1..L : n \in S  BY <1>0, <1>1, <1>2, DownInduction
  <2> QED  BY <1>0, <2>1
<1>4. \E f : Is(f, 1)  BY <1>3
<1> QED  BY <1>4 DEF SplitFrom, SplitBody

\* A part of a sequence.
LEMMA SubSeqOf ==
    ASSUME NEW T, NEW s \in Seq(T), NEW m \in 1..(Len(s) + 1), NEW n \in (m - 1)..Len(s)
    PROVE  /\ SubSeq(s, m, n) \in Seq(T) /\ Len(SubSeq(s, m, n)) = n - m + 1
           /\ \A i \in 1..(n - m + 1) : SubSeq(s, m, n)[i] = s[m + i - 1]
<1>1. Len(s) \in Nat /\ m \in Int /\ n \in Int  OBVIOUS
<1>2. \A i \in m..n : s[i] \in T  BY <1>1
<1>3. /\ SubSeq(s, m, n) \in Seq(T) /\ Len(SubSeq(s, m, n)) = IF m <= n THEN n - m + 1 ELSE 0
      /\ \A i \in 1..(n - m + 1) : SubSeq(s, m, n)[i] = s[m + i - 1]
  BY <1>1, <1>2, SubSeqProperties
<1> QED  BY <1>1, <1>3

\* The whole, and what begins with one more.
LEMMA SubSeqWhole == ASSUME NEW T, NEW s \in Seq(T) PROVE SubSeq(s, 1, Len(s)) = s
<1> DEFINE t == SubSeq(s, 1, Len(s))
<1>1. Len(s) \in Nat  OBVIOUS
<1>2. t \in Seq(T) /\ Len(t) = Len(s) /\ \A i \in 1..Len(s) : t[i] = s[i]
  <2>1. 1 \in 1..(Len(s) + 1) /\ Len(s) \in 0..Len(s)  BY <1>1
  <2>2. /\ t \in Seq(T) /\ Len(t) = Len(s) - 1 + 1
        /\ \A i \in 1..(Len(s) - 1 + 1) : t[i] = s[1 + i - 1]
    BY <1>1, <2>1, SubSeqOf
  <2> HIDE DEF t
  <2>3. \A i \in 1..Len(s) : 1 + i - 1 = i  BY <1>1
  <2> QED  BY <1>1, <2>2, <2>3
<1> HIDE DEF t
<1>3. t = s  BY <1>2, SeqEqual
<1> QED  BY <1>3 DEF t

\* A member and what lies behind it.
LEMMA SubSeqMore ==
    ASSUME NEW T, NEW s \in Seq(T), NEW k \in 1..Len(s)
    PROVE  <<s[k]>> \o SubSeq(s, k + 1, Len(s)) = SubSeq(s, k, Len(s))
<1> DEFINE n == Len(s)
           a == <<s[k]>>
           b == SubSeq(s, k + 1, n)
           c == SubSeq(s, k, n)
<1>1. n \in Nat /\ s[k] \in T  OBVIOUS
<1>2. a \in Seq(T) /\ Len(a) = 1 /\ a[1] = s[k]  BY <1>1
<1>3. b \in Seq(T) /\ Len(b) = n - (k + 1) + 1 /\ \A m \in 1..(n - (k + 1) + 1) : b[m] = s[(k + 1) + m - 1]
  <2>1. k + 1 \in 1..(n + 1) /\ n \in ((k + 1) - 1)..n  BY <1>1
  <2> QED  BY <2>1, SubSeqOf
<1>4. c \in Seq(T) /\ Len(c) = n - k + 1 /\ \A m \in 1..(n - k + 1) : c[m] = s[k + m - 1]
  <2>1. k \in 1..(n + 1) /\ n \in (k - 1)..n  BY <1>1
  <2> QED  BY <2>1, SubSeqOf
<1> HIDE DEF a, b, c
<1>5. /\ a \o b \in Seq(T) /\ Len(a \o b) = n - k + 1
      /\ \A m \in 1..(n - k + 1) : (a \o b)[m] = IF m <= 1 THEN a[m] ELSE b[m - 1]
  <2>1. Len(a) + Len(b) = n - k + 1  BY <1>1, <1>2, <1>3
  <2>2. /\ a \o b \in Seq(T) /\ Len(a \o b) = Len(a) + Len(b)
        /\ \A m \in 1..(Len(a) + Len(b)) : (a \o b)[m] = IF m <= Len(a) THEN a[m] ELSE b[m - Len(a)]
    BY <1>2, <1>3, ConcatProperties
  <2> QED  BY <1>2, <2>1, <2>2
<1>6. \A m \in 1..(n - k + 1) : (a \o b)[m] = c[m]
  <2> TAKE m \in 1..(n - k + 1)
  <2>1. CASE m = 1
    <3>1. (a \o b)[1] = s[k]  BY <1>1, <1>2, <1>5, <2>1
    <3>2. c[1] = s[k]
      <4>1. k + 1 - 1 = k  OBVIOUS
      <4> QED  BY <1>4, <2>1, <4>1
    <3> QED  BY <2>1, <3>1, <3>2
  <2>2. CASE m # 1
    <3>1. m - 1 \in 1..(n - (k + 1) + 1)  BY <1>1, <2>2
    <3>2. (a \o b)[m] = b[m - 1]  BY <1>5, <2>2
    <3>3. b[m - 1] = s[(k + 1) + (m - 1) - 1] /\ c[m] = s[k + m - 1]  BY <1>3, <1>4, <3>1
    <3>4. (k + 1) + (m - 1) - 1 = k + m - 1  BY <1>1
    <3> QED  BY <3>2, <3>3, <3>4
  <2> QED  BY <2>1, <2>2
<1>7. a \o b = c  BY <1>4, <1>5, <1>6, SeqEqual
<1> QED  BY <1>7 DEF a, b, c

\* Where the fields of a record end.
LEMMA EndsDef ==
    ASSUME NEW fields \in Seq(Seq(Byte))
    PROVE  /\ Ends(fields)[0] = 0
           /\ \A k \in 1..Len(fields) : Ends(fields)[k] = Ends(fields)[k - 1] + Len(fields[k]) + 1
<1> DEFINE L == Len(fields)
           Body(f, k) == IF k = 0 THEN 0 ELSE f[k - 1] + Len(fields[k]) + 1
           Is(f, n) == f = [k \in 0..n |-> Body(f, k)]
           S == {n \in 0..L : \E f : Is(f, n)}
<1>0. L \in Nat  OBVIOUS
<1>1. 0 \in S
  <2>1. Is([k \in {0} |-> 0], 0)  OBVIOUS
  <2> HIDE DEF Is
  <2> QED  BY <1>0, <2>1
<1>2. ASSUME NEW n \in 0..(L - 1), n \in S PROVE n + 1 \in S
  <2>1. PICK f : Is(f, n)  BY <1>2
  <2> DEFINE g == [k \in 0..(n + 1) |-> IF k = n + 1 THEN Body(f, k) ELSE f[k]]
  <2>2. \A k \in 0..(n + 1) : g[k] = Body(g, k)
    <3> TAKE k \in 0..(n + 1)
    <3>1. CASE k = n + 1  BY <3>1
    <3>2. CASE k # n + 1  BY <2>1, <3>2
    <3> QED  BY <3>1, <3>2
  <2>3. Is(g, n + 1)  BY <2>2
  <2> HIDE DEF Is, g
  <2> QED  BY <1>0, <2>3
<1>3. L \in S
  <2> HIDE DEF S
  <2>1. \A n \in 0..L : n \in S  BY <1>0, <1>1, <1>2, SetInduction
  <2> QED  BY <1>0, <2>1
<1>4. \E f : Is(f, L)  BY <1>3
<1> DEFINE E == Ends(fields)
<1>5. E = [k \in 0..L |-> Body(E, k)]  BY <1>4 DEF Ends
<1> HIDE DEF E
<1>6. E[0] = 0  BY <1>0, <1>5
<1>7. \A k \in 1..L : E[k] = E[k - 1] + Len(fields[k]) + 1
  <2> TAKE k \in 1..L
  <2>1. k \in 0..L /\ k # 0  BY <1>0
  <2> QED  BY <1>5, <2>1
<1> QED  BY <1>6, <1>7 DEF E

\* They are numbers.
LEMMA EndsType ==
    ASSUME NEW fields \in Seq(Seq(Byte))
    PROVE  \A k \in 0..Len(fields) : Ends(fields)[k] \in Nat
<1> DEFINE S == {k \in 0..Len(fields) : Ends(fields)[k] \in Nat}
<1>0. Len(fields) \in Nat  OBVIOUS
<1>1. 0 \in S  BY <1>0, EndsDef
<1>2. ASSUME NEW n \in 0..(Len(fields) - 1), n \in S PROVE n + 1 \in S
  <2>1. n + 1 \in 1..Len(fields) /\ n + 1 \in 0..Len(fields) /\ (n + 1) - 1 = n  BY <1>0
  <2>2. Ends(fields)[n + 1] = Ends(fields)[n] + Len(fields[n + 1]) + 1
    <3>1. Ends(fields)[n + 1] = Ends(fields)[(n + 1) - 1] + Len(fields[n + 1]) + 1  BY <2>1, EndsDef
    <3> QED  BY <2>1, <3>1
  <2>3. fields[n + 1] \in Seq(Byte)  BY <2>1
  <2>4. Len(fields[n + 1]) \in Nat  BY <2>3
  <2>5. Ends(fields)[n] \in Nat  BY <1>2
  <2> QED  BY <2>1, <2>2, <2>4, <2>5
<1>3. \A k \in 0..Len(fields) : k \in S
  <2> HIDE DEF S
  <2> QED  BY <1>0, <1>1, <1>2, SetInduction
<1> QED  BY <1>3

\* The numbers of a text made of fields.
LEMMA TabbedIs ==
    ASSUME NEW text \in Seq(Byte), NEW fields \in Seq(Seq(Byte)), fields # <<>>, IsTabbed(text, fields)
    PROVE  LET n == Len(fields)
               e == Ends(fields) IN
           /\ n \in Nat /\ n >= 1 /\ Len(text) \in Nat /\ DOMAIN fields = 1..n
           /\ \A k \in 1..n : /\ e[k - 1] \in Nat /\ e[k] \in Nat /\ fields[k] \in Seq(Byte)
                              /\ Len(fields[k]) \in Nat /\ e[k] = e[k - 1] + Len(fields[k]) + 1
           /\ Len(text) = e[n] - 1
           /\ \A k \in 1..n : /\ SubSeq(text, e[k - 1] + 1, e[k] - 1) = fields[k]
                              /\ k < n => text[e[k]] = TAB
<1> DEFINE n == Len(fields)
           L == Len(text)
           e == Ends(fields)
<1>0. n \in Nat /\ n >= 1 /\ L \in Nat /\ DOMAIN fields = 1..n
  <2>1. n \in Nat /\ L \in Nat /\ DOMAIN fields = 1..n  OBVIOUS
  <2>2. n # 0  BY EmptySeq
  <2> QED  BY <2>1, <2>2
<1>1. \A k \in 1..n : /\ e[k - 1] \in Nat /\ e[k] \in Nat /\ fields[k] \in Seq(Byte)
                      /\ Len(fields[k]) \in Nat /\ e[k] = e[k - 1] + Len(fields[k]) + 1
  <2> TAKE k \in 1..n
  <2>1. k - 1 \in 0..n /\ k \in 0..n  BY <1>0
  <2>2. e[k - 1] \in Nat /\ e[k] \in Nat  BY <2>1, EndsType
  <2>3. e[k] = e[k - 1] + Len(fields[k]) + 1  BY EndsDef
  <2>4. fields[k] \in Seq(Byte)  BY <1>0
  <2>5. Len(fields[k]) \in Nat  BY <2>4
  <2> QED  BY <2>2, <2>3, <2>4, <2>5
<1>2. /\ L = e[n] - 1
      /\ \A k \in 1..n : /\ SubSeq(text, e[k - 1] + 1, e[k] - 1) = fields[k]
                         /\ k < n => text[e[k]] = TAB
  BY <1>0 DEF IsTabbed
<1> QED  BY <1>0, <1>1, <1>2

\* The bytes of a field in its text.
LEMMA FieldBytes ==
    ASSUME NEW text \in Seq(Byte), NEW fields \in Seq(Seq(Byte)), fields # <<>>, IsTabbed(text, fields),
           NEW k \in 1..Len(fields), Ends(fields)[k] <= Len(text) + 1,
           NEW j \in (Ends(fields)[k - 1] + 1)..(Ends(fields)[k] - 1)
    PROVE  /\ j - Ends(fields)[k - 1] \in DOMAIN fields[k]
           /\ text[j] = fields[k][j - Ends(fields)[k - 1]]
<1> DEFINE n == Len(fields)
           L == Len(text)
           e == Ends(fields)
<1>0. /\ n \in Nat /\ n >= 1 /\ L \in Nat /\ DOMAIN fields = 1..n
      /\ \A h \in 1..n : /\ e[h - 1] \in Nat /\ e[h] \in Nat /\ fields[h] \in Seq(Byte)
                         /\ Len(fields[h]) \in Nat /\ e[h] = e[h - 1] + Len(fields[h]) + 1
      /\ \A h \in 1..n : SubSeq(text, e[h - 1] + 1, e[h] - 1) = fields[h]
  BY TabbedIs
<1>1. k \in 1..n /\ e[k] <= L + 1 /\ j \in (e[k - 1] + 1)..(e[k] - 1)  OBVIOUS
<1> HIDE DEF n, L, e
<1>2. e[k - 1] \in Nat /\ e[k] \in Nat /\ Len(fields[k]) \in Nat /\ e[k] = e[k - 1] + Len(fields[k]) + 1
  BY <1>0, <1>1
<1> DEFINE x == e[k - 1]
           y == e[k]
           l == Len(fields[k])
           i == j - x
<1>3. x \in Nat /\ y \in Nat /\ l \in Nat /\ y = x + l + 1 /\ y <= L + 1 /\ j \in (x + 1)..(y - 1)
  BY <1>1, <1>2
<1> HIDE DEF x, y, l
<1>4. /\ i \in 1..l /\ (x + 1) + i - 1 = j /\ x + 1 \in 1..(L + 1)
      /\ y - 1 \in ((x + 1) - 1)..L /\ i \in 1..((y - 1) - (x + 1) + 1)
  BY <1>0, <1>3
<1>5. SubSeq(text, x + 1, y - 1)[i] = text[(x + 1) + i - 1]
  <2> DEFINE a == x + 1
             b == y - 1
  <2>1. a \in 1..(L + 1) /\ b \in (a - 1)..L /\ i \in 1..(b - a + 1)  BY <1>4
  <2> HIDE DEF a, b, i
  <2>2. SubSeq(text, a, b)[i] = text[a + i - 1]  BY <2>1, SubSeqOf DEF L
  <2> QED  BY <2>2 DEF a, b
<1>6. SubSeq(text, x + 1, y - 1) = fields[k]  BY <1>0, <1>1 DEF x, y
<1>7. fields[k][i] = text[j]  BY <1>4, <1>5, <1>6
<1>8. i \in DOMAIN fields[k]
  <2>1. fields[k] \in Seq(Byte) /\ DOMAIN fields[k] = 1..l  BY <1>0, <1>1 DEF l
  <2> HIDE DEF i
  <2> QED  BY <1>4, <2>1
<1> QED  BY <1>7, <1>8 DEF x, e

\* The ends grow.
LEMMA EndsGrow ==
    ASSUME NEW fields \in Seq(Seq(Byte))
    PROVE  \A k \in 0..Len(fields) : Ends(fields)[k] <= Ends(fields)[Len(fields)]
<1> DEFINE n == Len(fields)
           e == Ends(fields)
           S == {k \in 0..n : e[k] <= e[n]}
<1>0. n \in Nat /\ \A k \in 0..n : e[k] \in Nat
  <2>1. n \in Nat  OBVIOUS
  <2> QED  BY <2>1, EndsType
<1>1. ASSUME NEW k \in 0..(n - 1), k + 1 \in S PROVE k \in S
  <2>1. k + 1 \in 1..n /\ (k + 1) - 1 = k /\ k \in 0..n  BY <1>0
  <2>2. e[k + 1] = e[(k + 1) - 1] + Len(fields[k + 1]) + 1 /\ Len(fields[k + 1]) \in Nat
    <3>1. fields[k + 1] \in Seq(Byte)  BY <2>1
    <3>2. Len(fields[k + 1]) \in Nat  BY <3>1
    <3> QED  BY <2>1, <3>2, EndsDef
  <2> HIDE DEF e, n
  <2>3. e[k] <= e[k + 1] /\ e[k + 1] <= e[n] /\ e[k] \in Nat /\ e[k + 1] \in Nat /\ e[n] \in Nat
    <3>1. e[k + 1] = e[k] + Len(fields[k + 1]) + 1  BY <2>1, <2>2
    <3>2. k \in 0..n /\ k + 1 \in 0..n /\ n \in 0..n  BY <1>0
    <3>3. e[k] \in Nat /\ e[k + 1] \in Nat /\ e[n] \in Nat  BY <1>0, <3>2
    <3>4. e[k + 1] <= e[n]  BY <1>1
    <3> QED  BY <2>2, <3>1, <3>3, <3>4
  <2>4. e[k] <= e[n]  BY <2>3
  <2> QED  BY <2>1, <2>4
<1>2. \A k \in 0..n : k \in S
  <2>1. n \in S  BY <1>0
  <2> HIDE DEF S
  <2> QED  BY <1>0, <1>1, <2>1, DownInduction
<1> QED  BY <1>2

\* A text of fields without it has no NUL.
LEMMA TabbedHasNoNul ==
    ASSUME NEW text \in Seq(Byte), NEW fields \in Seq(Seq(Byte)), fields # <<>>, IsTabbed(text, fields),
           \A k \in DOMAIN fields : \A i \in DOMAIN fields[k] : fields[k][i] # NUL
    PROVE  \A j \in 1..Len(text) : text[j] # NUL
<1> DEFINE n == Len(fields)
           L == Len(text)
           e == Ends(fields)
           S == {k \in 0..n : \A j \in 1..L : j <= e[k] => text[j] # NUL}
<1>0. /\ n \in Nat /\ n >= 1 /\ L \in Nat /\ DOMAIN fields = 1..n
      /\ \A h \in 1..n : /\ e[h - 1] \in Nat /\ e[h] \in Nat /\ fields[h] \in Seq(Byte)
                         /\ Len(fields[h]) \in Nat /\ e[h] = e[h - 1] + Len(fields[h]) + 1
      /\ L = e[n] - 1
      /\ \A h \in 1..n : h < n => text[e[h]] = TAB
  BY TabbedIs
<1>1. e[0] = 0 /\ \A k \in 0..n : e[k] <= e[n]  BY EndsDef, EndsGrow
<1>2. ASSUME NEW k \in 0..(n - 1), k \in S PROVE k + 1 \in S
  <2> DEFINE h == k + 1
  <2>1. h \in 1..n /\ h - 1 = k /\ h \in 0..n /\ n \in 1..n  BY <1>0
  <2>2. ASSUME NEW j \in 1..L, j <= e[h] PROVE text[j] # NUL
    <3> HIDE DEF n, L, e, h
    <3>1. e[h - 1] \in Nat /\ e[h] \in Nat /\ e[n] \in Nat /\ e[h - 1] = e[k]  BY <1>0, <2>1
    <3>2. e[h] <= L + 1
      <4>1. e[h] <= e[n] /\ L = e[n] - 1  BY <1>0, <1>1, <2>1
      <4> QED  BY <1>0, <3>1, <4>1
    <3>3. CASE j <= e[h - 1]
      <4>1. j <= e[k]  BY <3>1, <3>3
      <4> QED  BY <1>2, <4>1
    <3>4. CASE j > e[h - 1] /\ j < e[h]
      <4>1. j \in (e[h - 1] + 1)..(e[h] - 1)  BY <3>1, <3>4
      <4>2. j - e[h - 1] \in DOMAIN fields[h] /\ text[j] = fields[h][j - e[h - 1]]
        BY <2>1, <3>2, <4>1, FieldBytes DEF n, L, e
      <4> QED  BY <1>0, <2>1, <4>2
    <3>5. CASE j = e[h]
      <4>1. h # n
        <5>1. L = e[n] - 1 /\ j <= L  BY <1>0
        <5> QED  BY <3>1, <3>5, <5>1
      <4>2. h < n  BY <1>0, <2>1, <4>1
      <4>3. text[e[h]] = TAB  BY <1>0, <2>1, <4>2
      <4> QED  BY <3>5, <4>3 DEF NUL, TAB
    <3> QED  BY <2>2, <3>1, <3>3, <3>4, <3>5
  <2> QED  BY <2>1, <2>2
<1>3. \A k \in 0..n : k \in S
  <2>1. 0 \in S  BY <1>0, <1>1
  <2> HIDE DEF S
  <2> QED  BY <1>0, <1>2, <2>1, SetInduction
<1>4. \A j \in 1..L : j <= e[n]
  <2>1. n \in 1..n  BY <1>0
  <2>2. e[n] \in Nat  BY <1>0, <2>1
  <2> HIDE DEF e, n, L
  <2> QED  BY <1>0, <2>2
<1>5. n \in S  BY <1>0, <1>3
<1> QED  BY <1>4, <1>5

\* split finds the fields a text is made of.
LEMMA SplitTabbed ==
    ASSUME NEW text \in Seq(Byte), NEW fields \in Seq(Seq(Byte)), fields # <<>>, IsTabbed(text, fields),
           \A k \in DOMAIN fields : \A i \in DOMAIN fields[k] : fields[k][i] # TAB
    PROVE  split(text) = fields
<1> DEFINE n == Len(fields)
           L == Len(text)
           e == Ends(fields)
           from == SplitFrom(text)
           S == {k \in 1..n : e[k] <= L + 1 /\ from[e[k - 1] + 1] = SubSeq(fields, k, n)}
<1>0. n \in Nat /\ n >= 1 /\ L \in Nat /\ DOMAIN fields = 1..n  BY TabbedIs
<1>1. \A k \in 1..n : /\ e[k - 1] \in Nat /\ e[k] \in Nat /\ fields[k] \in Seq(Byte)
                      /\ Len(fields[k]) \in Nat /\ e[k] = e[k - 1] + Len(fields[k]) + 1
  BY TabbedIs
<1>2. /\ L = e[n] - 1
      /\ \A k \in 1..n : /\ SubSeq(text, e[k - 1] + 1, e[k] - 1) = fields[k]
                         /\ k < n => text[e[k]] = TAB
  BY TabbedIs
<1>3. from = [i \in 1..(L + 1) |-> SplitBody(text, from, i)]  BY SplitDef
<1> HIDE DEF n, L, e, from
<1>4. \A k \in 1..n : e[k] <= L + 1 => \A j \in (e[k - 1] + 1)..(e[k] - 1) : text[j] # TAB
  <2> TAKE k \in 1..n
  <2> SUFFICES ASSUME e[k] <= L + 1, NEW j \in (e[k - 1] + 1)..(e[k] - 1) PROVE text[j] # TAB  OBVIOUS
  <2>1. j - e[k - 1] \in DOMAIN fields[k] /\ text[j] = fields[k][j - e[k - 1]]
    BY FieldBytes DEF n, L, e
  <2> QED  BY <1>0, <2>1
<1>5. n \in S
  <2> DEFINE i == e[n - 1] + 1
  <2>0. n \in 1..n  BY <1>0
  <2>00. e[n - 1] \in Nat /\ e[n] \in Nat /\ Len(fields[n]) \in Nat /\ e[n] = e[n - 1] + Len(fields[n]) + 1
    BY <1>1, <2>0
  <2>1. i \in 1..(L + 1) /\ e[n] = L + 1 /\ e[n] <= L + 1  BY <1>0, <1>2, <2>00, SMTT(60)
  <2>2. ~ \E j \in i..L : text[j] = TAB
    <3>1. \A j \in (e[n - 1] + 1)..(e[n] - 1) : text[j] # TAB  BY <1>4, <2>0, <2>1
    <3>2. e[n] - 1 = L  BY <1>0, <2>1
    <3> QED  BY <3>1, <3>2
  <2>3. from[i] = <<SubSeq(text, i, L)>>  BY <1>3, <2>1, <2>2 DEF SplitBody, L
  <2>4. SubSeq(text, i, L) = fields[n]
    <3>1. SubSeq(text, e[n - 1] + 1, e[n] - 1) = fields[n] /\ e[n] - 1 = L  BY <1>0, <1>2, <2>0, <2>1
    <3> QED  BY <3>1
  <2>5. SubSeq(fields, n, n) = <<fields[n]>>
    <3>1. <<fields[n]>> \o SubSeq(fields, n + 1, n) = SubSeq(fields, n, n)  BY <2>0, SubSeqMore DEF n
    <3>2. SubSeq(fields, n + 1, n) = <<>>  BY <1>0, SubSeqEmpty
    <3>3. <<fields[n]>> \in Seq(Seq(Byte))  BY <1>1, <2>0
    <3> QED  BY <3>1, <3>2, <3>3, ConcatEmptySeq
  <2> QED  BY <2>0, <2>1, <2>3, <2>4, <2>5
<1>6. ASSUME NEW k \in 1..(n - 1), k + 1 \in S PROVE k \in S
  <2> DEFINE i == e[k - 1] + 1
  <2>1. k \in 1..n /\ k + 1 \in 1..n /\ (k + 1) - 1 = k  BY <1>0
  <2>2. e[k + 1] <= L + 1 /\ from[e[k] + 1] = SubSeq(fields, k + 1, n)  BY <1>6, <2>1
  <2>3. e[k + 1] = e[k] + Len(fields[k + 1]) + 1 /\ Len(fields[k + 1]) \in Nat
    <3>1. e[k + 1] = e[(k + 1) - 1] + Len(fields[k + 1]) + 1 /\ Len(fields[k + 1]) \in Nat  BY <1>1, <2>1
    <3> QED  BY <2>1, <3>1
  <2>4. e[k] \in Nat /\ e[k - 1] \in Nat /\ Len(fields[k]) \in Nat /\ e[k] = e[k - 1] + Len(fields[k]) + 1
    BY <1>1, <2>1
  <2>5. i \in 1..(L + 1) /\ e[k] \in i..L /\ text[e[k]] = TAB /\ e[k] <= L + 1
    <3>1. text[e[k]] = TAB
      <4>1. k < n  BY <1>0
      <4> QED  BY <1>2, <2>1, <4>1
    <3> DEFINE x == e[k - 1]
               y == e[k]
               z == e[k + 1]
               l == Len(fields[k])
               m == Len(fields[k + 1])
    <3>2. /\ x \in Nat /\ y \in Nat /\ l \in Nat /\ y = x + l + 1 /\ z = y + m + 1 /\ m \in Nat
          /\ z <= L + 1
      BY <2>2, <2>3, <2>4
    <3> HIDE DEF x, y, z, l, m
    <3>3. x + 1 \in 1..(L + 1) /\ y \in (x + 1)..L /\ y <= L + 1  BY <1>0, <3>2
    <3> QED  BY <3>1, <3>3 DEF x, y
  <2>6. \A j \in i..(e[k] - 1) : text[j] # TAB  BY <1>4, <2>1, <2>5
  <2>7. FirstTab(text, i) = e[k]  BY <2>5, <2>6, TabIsFirst DEF L
  <2>8. from[i] = <<SubSeq(text, i, e[k] - 1)>> \o from[e[k] + 1]
    BY <1>3, <2>5, <2>7 DEF SplitBody, L
  <2>9. SubSeq(text, i, e[k] - 1) = fields[k]  BY <1>2, <2>1
  <2>10. <<fields[k]>> \o SubSeq(fields, k + 1, n) = SubSeq(fields, k, n)
    BY <2>1, SubSeqMore DEF n
  <2>11. from[i] = SubSeq(fields, k, n)  BY <2>2, <2>8, <2>9, <2>10
  <2> QED  BY <2>1, <2>5, <2>11
<1>7. 1 \in S
  <2> HIDE DEF S
  <2>1. \A k \in 1..n : k \in S  BY <1>0, <1>5, <1>6, DownInduction
  <2> QED  BY <1>0, <2>1
<1>8. e[0] = 0 /\ 1 - 1 = 0  BY EndsDef DEF e
<1>9. from[1] = SubSeq(fields, 1, n)  BY <1>7, <1>8
<1>10. SubSeq(fields, 1, n) = fields  BY SubSeqWhole DEF n
<1> QED  BY <1>9, <1>10 DEF split, from

-----------------------------------------------------------------------------
(* UTF-8.                                                                  *)

\* Whether the characters from i on are valid.
ValidBody(s, f, i) == IF i = Len(s) + 1 THEN TRUE ELSE ValidAt(s, i) /\ f[i + Bytes(s[i])]

\* It looks at no position but one behind.
LEMMA ValidBehind ==
    ASSUME NEW s \in Seq(Byte), NEW i \in 1..(Len(s) + 1), NEW f, NEW g,
           \A k \in (i + 1)..(Len(s) + 1) : f[k] = g[k]
    PROVE  ValidBody(s, f, i) = ValidBody(s, g, i)
<1>1. CASE i = Len(s) + 1  BY <1>1 DEF ValidBody
<1>2. CASE i # Len(s) + 1 /\ ~ValidAt(s, i)  BY <1>2 DEF ValidBody
<1>3. CASE i # Len(s) + 1 /\ ValidAt(s, i)
  <2>1. Bytes(s[i]) > 0 /\ i + Bytes(s[i]) <= Len(s) + 1  BY <1>3 DEF ValidAt
  <2>2. Bytes(s[i]) \in Nat /\ Len(s) \in Nat  BY DEF Bytes
  <2>3. i + Bytes(s[i]) \in (i + 1)..(Len(s) + 1)
    <3> DEFINE n == Bytes(s[i])
    <3> HIDE DEF n
    <3> QED  BY <2>1, <2>2 DEF n
  <2>4. f[i + Bytes(s[i])] = g[i + Bytes(s[i])]  BY <2>3
  <2> QED  BY <1>3, <2>4 DEF ValidBody
<1> QED  BY <1>1, <1>2, <1>3

\* The function exists, for every text.
LEMMA ValidDef ==
    ASSUME NEW s \in Seq(Byte)
    PROVE  ValidFrom(s) = [i \in 1..(Len(s) + 1) |-> ValidBody(s, ValidFrom(s), i)]
<1> DEFINE L == Len(s) + 1
           Is(f, n) == f = [i \in n..L |-> ValidBody(s, f, i)]
           S == {n \in 1..L : \E f : Is(f, n)}
<1>0. Len(s) \in Nat /\ L \in Nat /\ L >= 1  OBVIOUS
<1>1. L \in S
  <2> DEFINE f == [i \in L..L |-> ValidBody(s, s, L)]
  <2>1. ValidBody(s, f, L) = ValidBody(s, s, L)  BY <1>0, ValidBehind
  <2>2. \A i \in L..L : i = L  BY <1>0
  <2>3. f = [i \in L..L |-> ValidBody(s, f, i)]  BY <2>1, <2>2
  <2>4. Is(f, L)  BY <2>3
  <2> HIDE DEF Is, f
  <2> QED  BY <1>0, <2>4
<1>2. ASSUME NEW n \in 1..(L - 1), n + 1 \in S PROVE n \in S
  <2>1. PICK g : Is(g, n + 1)  BY <1>2
  <2> DEFINE f == [i \in n..L |-> IF i = n THEN ValidBody(s, g, n) ELSE g[i]]
  <2>2. \A i \in (n + 1)..L : f[i] = g[i]  BY <1>0
  <2>3. \A i \in n..L : ValidBody(s, f, i) = ValidBody(s, g, i)
    <3> TAKE i \in n..L
    <3>1. i \in 1..(Len(s) + 1) /\ \A k \in (i + 1)..(Len(s) + 1) : f[k] = g[k]  BY <1>0, <2>2
    <3> HIDE DEF f
    <3> QED  BY <3>1, ValidBehind
  <2>4. \A i \in n..L : f[i] = ValidBody(s, f, i)
    <3> TAKE i \in n..L
    <3>1. CASE i = n  BY <2>3, <3>1
    <3>2. CASE i # n
      <4>1. i \in (n + 1)..L  BY <1>0, <3>2
      <4>2. g[i] = ValidBody(s, g, i)  BY <2>1, <4>1
      <4> HIDE DEF f
      <4> QED  BY <2>2, <2>3, <4>1, <4>2
    <3> QED  BY <3>1, <3>2
  <2>5. Is(f, n)
    <3>1. f = [i \in n..L |-> f[i]]  OBVIOUS
    <3> HIDE DEF f
    <3> QED  BY <2>4, <3>1
  <2> HIDE DEF Is, f
  <2> QED  BY <1>0, <2>5
<1>3. 1 \in S
  <2> HIDE DEF S
  <2>1. \A n \in 1..L : n \in S  BY <1>0, <1>1, <1>2, DownInduction
  <2> QED  BY <1>0, <2>1
<1>4. \E f : Is(f, 1)  BY <1>3
<1> QED  BY <1>4 DEF ValidFrom, ValidBody

\* The lengths by the first byte.
LEMMA Lengths ==
    ASSUME NEW b \in Int
    PROVE  /\ 0 <= b /\ b <= 127 => Bytes(b) = 1 /\ SequenceLength(b) = 1
           /\ 128 <= b /\ b <= 191 => Bytes(b) = 0 /\ SequenceLength(b) = 0
           /\ 192 <= b /\ b <= 223 => Bytes(b) = 2 /\ SequenceLength(b) = IF b >= 194 THEN 2 ELSE 0
           /\ 224 <= b /\ b <= 239 => Bytes(b) = 3 /\ SequenceLength(b) = 3
           /\ 240 <= b /\ b <= 247 => Bytes(b) = 4 /\ SequenceLength(b) = IF b <= 244 THEN 4 ELSE 0
           /\ 248 <= b => Bytes(b) = 0 /\ SequenceLength(b) = 0
BY DEF Bytes, SequenceLength

\* The second bytes.
LEMMA Seconds ==
    ASSUME NEW b \in Int
    PROVE  /\ 192 <= b /\ b <= 223 => SecondBytes(b) = 128..191
           /\ \A c \in 128..191 : 224 <= b /\ b <= 239 =>
                 (c \in SecondBytes(b) <=> (b = 224 => c >= 160) /\ (b = 237 => c <= 159))
           /\ \A c \in 128..191 : 240 <= b /\ b <= 247 =>
                 (c \in SecondBytes(b) <=> (b = 240 => c >= 144) /\ (b = 244 => c <= 143))
BY SMT DEF SecondBytes

\* The ranges, of a number.
LEMMA Fits ==
    ASSUME NEW x \in Int, NEW n \in Int
    PROVE  FitsRange(x, n) <=>
              /\ x <= 1114111
              /\ x < 55296 \/ x > 57343
              /\ x <= 127 => n = 1
              /\ 128 <= x /\ x <= 2047 => n = 2
              /\ 2048 <= x /\ x <= 65535 => n = 3
              /\ 65536 <= x => n = 4
BY SMT DEF FitsRange

\* One byte fits.
LEMMA FitsOne == ASSUME NEW b \in Int, 0 <= b, b <= 127 PROVE FitsRange(b, 1)
BY Fits, SMT

\* Two bytes fit if the first is not one of those two with which the first 128 could
\* be written.
LEMMA FitsTwo ==
    ASSUME NEW b \in Int, 192 <= b, b <= 223, NEW c \in 128..191
    PROVE  FitsRange((b - 192) * 64 + (c - 128), 2) <=> b >= 194
<1> DEFINE x == (b - 192) * 64 + (c - 128)
<1>1. x \in Int /\ (b >= 194 <=> x >= 128) /\ x <= 2047  BY SMT
<1> HIDE DEF x
<1>2. FitsRange(x, 2) <=> x >= 128  BY <1>1, Fits, SMT
<1> QED  BY <1>1, <1>2 DEF x

\* Three bytes fit if the second is one of those the standard allows.
LEMMA FitsThree ==
    ASSUME NEW b \in Int, 224 <= b, b <= 239, NEW c \in 128..191, NEW d \in 128..191
    PROVE  FitsRange(((b - 224) * 64 + (c - 128)) * 64 + (d - 128), 3) <=> c \in SecondBytes(b)
<1> DEFINE x == ((b - 224) * 64 + (c - 128)) * 64 + (d - 128)
<1>1. /\ x \in Int /\ x <= 65535
      /\ x >= 2048 <=> (b = 224 => c >= 160)
      /\ (x < 55296 \/ x > 57343) <=> (b = 237 => c <= 159)
  BY SMT
<1> HIDE DEF x
<1>2. FitsRange(x, 3) <=> x >= 2048 /\ (x < 55296 \/ x > 57343)  BY <1>1, Fits, SMT
<1>3. c \in SecondBytes(b) <=> (b = 224 => c >= 160) /\ (b = 237 => c <= 159)
  BY Seconds, SMT
<1> QED  BY <1>1, <1>2, <1>3 DEF x

\* The code point of four bytes.
Four(b, c, d, e) == (((b - 240) * 64 + (c - 128)) * 64 + (d - 128)) * 64 + (e - 128)

\* Four bytes fit if the second is one of those and the first is none of the last three.
LEMMA FitsFour ==
    ASSUME NEW b \in Int, 240 <= b, b <= 247, NEW c \in 128..191, NEW d \in 128..191, NEW e \in 128..191
    PROVE  FitsRange(Four(b, c, d, e), 4) <=> b <= 244 /\ c \in SecondBytes(b)
<1> DEFINE x == Four(b, c, d, e)
<1>1. /\ x \in Int
      /\ x >= 65536 <=> (b = 240 => c >= 144)
      /\ x <= 1114111 <=> b <= 244 /\ (b = 244 => c <= 143)
  BY SMT DEF Four
<1> HIDE DEF x
<1>2. FitsRange(x, 4) <=> x >= 65536 /\ x <= 1114111  BY <1>1, Fits, SMT
<1>3. c \in SecondBytes(b) <=> (b = 240 => c >= 144) /\ (b = 244 => c <= 143)
  BY Seconds, SMT
<1> QED  BY <1>1, <1>2, <1>3 DEF x

\* What the standard says of the character at i.
Shaped(s, i) ==
    LET n == SequenceLength(s[i]) IN
    /\ n > 0 /\ i + n <= Len(s) + 1
    /\ \A k \in 1 .. (n - 1) : s[i + k] \in 128 .. 191
    /\ n > 1 => s[i + 1] \in SecondBytes(s[i])

\* The positions behind the first, for each length.
LEMMA Behind ==
    ASSUME NEW s, NEW i, NEW C
    PROVE  /\ \A k \in 1..(1 - 1) : s[i + k] \in C
           /\ (\A k \in 1..(2 - 1) : s[i + k] \in C) <=> s[i + 1] \in C
           /\ (\A k \in 1..(3 - 1) : s[i + k] \in C) <=> s[i + 1] \in C /\ s[i + 2] \in C
           /\ (\A k \in 1..(4 - 1) : s[i + k] \in C)
                 <=> s[i + 1] \in C /\ s[i + 2] \in C /\ s[i + 3] \in C
<1>1. 1..(1 - 1) = {} /\ 1..(2 - 1) = {1} /\ 1..(3 - 1) = {1, 2} /\ 1..(4 - 1) = {1, 2, 3}
  OBVIOUS
<1> QED  BY <1>1, Zenon

\* One byte.
LEMMA OneIsShaped ==
    ASSUME NEW s \in Seq(Byte), NEW i \in 1..Len(s), NEW b \in Int, b = s[i], 0 <= b, b <= 127
    PROVE  ValidAt(s, i) /\ Shaped(s, i) /\ SequenceLength(b) = 1 /\ Bytes(b) = 1
<1> DEFINE C == 128..191
<1>1. Bytes(b) = 1 /\ SequenceLength(b) = 1  BY Lengths
<1>2. CodePoint(s, i, 1) = b  BY Zenon DEF CodePoint
<1>3. FitsRange(b, 1)  BY FitsOne, SMT
<1>4. Len(s) \in Nat /\ i \in Int /\ i <= Len(s)  OBVIOUS
<1>5. i + 1 <= Len(s) + 1  BY <1>4
<1>6. 1 > 0 /\ ~ (1 > 1)  OBVIOUS
<1>7. \A k \in 1..(1 - 1) : s[i + k] \in C  OBVIOUS
<1>8. ValidAt(s, i)  BY <1>1, <1>2, <1>3, <1>5, <1>6, <1>7, Zenon DEF ValidAt
<1>9. Shaped(s, i)  BY <1>1, <1>5, <1>6, <1>7, Zenon DEF Shaped
<1> QED  BY <1>1, <1>8, <1>9

\* Two bytes.
LEMMA TwoAreShaped ==
    ASSUME NEW s \in Seq(Byte), NEW i \in 1..Len(s), NEW b \in Int, b = s[i], 192 <= b, b <= 223
    PROVE  /\ ValidAt(s, i) <=> Shaped(s, i)
           /\ Shaped(s, i) => SequenceLength(b) = 2 /\ Bytes(b) = 2
<1> DEFINE C == 128..191
           c == s[i + 1]
           x == (b - 192) * 64 + (c - 128)
<1>1. /\ Bytes(b) = 2
      /\ b >= 194 => SequenceLength(b) = 2
      /\ ~ (b >= 194) => SequenceLength(b) = 0
  BY Lengths
<1>2. CodePoint(s, i, 2) = x
  <2>1. 2 # 1  OBVIOUS
  <2> QED  BY <2>1, Zenon DEF CodePoint
<1>3. c \in C => (FitsRange(x, 2) <=> b >= 194)
  <2> HIDE DEF c
  <2>1. \A y \in 128..191 : FitsRange((b - 192) * 64 + (y - 128), 2) <=> b >= 194
    BY FitsTwo, ZenonT(60)
  <2> QED  BY <2>1, ZenonT(60)
<1>4. SecondBytes(b) = C  BY Seconds, SMT
<1> HIDE DEF C, x
<1>5. ValidAt(s, i) <=> /\ 2 > 0 /\ i + 2 <= Len(s) + 1
                        /\ \A k \in 1..(2 - 1) : s[i + k] \in C
                        /\ FitsRange(x, 2)
  BY <1>1, <1>2, Zenon DEF C, ValidAt
<1>6. ASSUME SequenceLength(b) = 2
      PROVE  Shaped(s, i) <=> /\ 2 > 0 /\ i + 2 <= Len(s) + 1
                              /\ \A k \in 1..(2 - 1) : s[i + k] \in C
                              /\ 2 > 1 => s[i + 1] \in SecondBytes(b)
  BY <1>6, Zenon DEF C, Shaped
<1>7. ASSUME SequenceLength(b) = 0 PROVE Shaped(s, i) => 0 > 0
  BY <1>7, Zenon DEF C, Shaped
<1> HIDE DEF c
<1>8. 2 > 0 /\ 2 > 1 /\ ~ (0 > 0)  OBVIOUS
<1>9. (\A k \in 1..(2 - 1) : s[i + k] \in C) <=> c \in C  BY Behind, Zenon DEF c
<1>10. s[i + 1] = c  BY DEF c
<1> QED  BY <1>1, <1>3, <1>4, <1>5, <1>6, <1>7, <1>8, <1>9, <1>10, Zenon

\* Three bytes.
LEMMA ThreeAreShaped ==
    ASSUME NEW s \in Seq(Byte), NEW i \in 1..Len(s), NEW b \in Int, b = s[i], 224 <= b, b <= 239
    PROVE  /\ ValidAt(s, i) <=> Shaped(s, i)
           /\ SequenceLength(b) = 3 /\ Bytes(b) = 3
<1> DEFINE C == 128..191
           c == s[i + 1]
           d == s[i + 2]
           x == ((b - 224) * 64 + (c - 128)) * 64 + (d - 128)
<1>1. Bytes(b) = 3 /\ SequenceLength(b) = 3  BY Lengths
<1>2. CodePoint(s, i, 3) = x
  <2>1. 3 # 1 /\ 3 # 2  OBVIOUS
  <2> QED  BY <2>1, Zenon DEF CodePoint
<1>3. c \in C /\ d \in C => (FitsRange(x, 3) <=> c \in SecondBytes(b))
  <2> HIDE DEF c, d
  <2>1. \A y, z \in 128..191 :
           FitsRange(((b - 224) * 64 + (y - 128)) * 64 + (z - 128), 3) <=> y \in SecondBytes(b)
    BY FitsThree, ZenonT(60)
  <2> QED  BY <2>1, ZenonT(60)
<1> HIDE DEF C, x
<1>5. ValidAt(s, i) <=> /\ 3 > 0 /\ i + 3 <= Len(s) + 1
                        /\ \A k \in 1..(3 - 1) : s[i + k] \in C
                        /\ FitsRange(x, 3)
  BY <1>1, <1>2, Zenon DEF C, ValidAt
<1>6. Shaped(s, i) <=> /\ 3 > 0 /\ i + 3 <= Len(s) + 1
                       /\ \A k \in 1..(3 - 1) : s[i + k] \in C
                       /\ 3 > 1 => s[i + 1] \in SecondBytes(b)
  BY <1>1, Zenon DEF C, Shaped
<1> HIDE DEF c, d
<1>8. 3 > 0 /\ 3 > 1  OBVIOUS
<1>9. (\A k \in 1..(3 - 1) : s[i + k] \in C) <=> c \in C /\ d \in C  BY Behind, Zenon DEF c, d
<1>10. s[i + 1] = c  BY DEF c
<1> QED  BY <1>1, <1>3, <1>5, <1>6, <1>8, <1>9, <1>10, Zenon

\* Four bytes.
LEMMA FourAreShaped ==
    ASSUME NEW s \in Seq(Byte), NEW i \in 1..Len(s), NEW b \in Int, b = s[i], 240 <= b, b <= 247
    PROVE  /\ ValidAt(s, i) <=> Shaped(s, i)
           /\ Shaped(s, i) => SequenceLength(b) = 4 /\ Bytes(b) = 4
<1> DEFINE C == 128..191
           c == s[i + 1]
           d == s[i + 2]
           e == s[i + 3]
           x == Four(b, c, d, e)
<1>1. /\ Bytes(b) = 4
      /\ b <= 244 => SequenceLength(b) = 4
      /\ ~ (b <= 244) => SequenceLength(b) = 0
  BY Lengths
<1>2. CodePoint(s, i, 4) = x
  <2>1. 4 # 1 /\ 4 # 2 /\ 4 # 3  OBVIOUS
  <2> QED  BY <2>1, Zenon DEF CodePoint, Four
<1>3. c \in C /\ d \in C /\ e \in C => (FitsRange(x, 4) <=> b <= 244 /\ c \in SecondBytes(b))
  <2> HIDE DEF c, d, e
  <2>1. \A y, z, w \in 128..191 :
           FitsRange(Four(b, y, z, w), 4) <=> b <= 244 /\ y \in SecondBytes(b)
    BY FitsFour, ZenonT(60)
  <2> QED  BY <2>1, ZenonT(60)
<1> HIDE DEF C, x
<1>5. ValidAt(s, i) <=> /\ 4 > 0 /\ i + 4 <= Len(s) + 1
                        /\ \A k \in 1..(4 - 1) : s[i + k] \in C
                        /\ FitsRange(x, 4)
  BY <1>1, <1>2, Zenon DEF C, ValidAt
<1>6. ASSUME SequenceLength(b) = 4
      PROVE  Shaped(s, i) <=> /\ 4 > 0 /\ i + 4 <= Len(s) + 1
                              /\ \A k \in 1..(4 - 1) : s[i + k] \in C
                              /\ 4 > 1 => s[i + 1] \in SecondBytes(b)
  BY <1>6, Zenon DEF C, Shaped
<1>7. ASSUME SequenceLength(b) = 0 PROVE Shaped(s, i) => 0 > 0
  BY <1>7, Zenon DEF C, Shaped
<1> HIDE DEF c, d, e
<1>8. 4 > 0 /\ 4 > 1 /\ ~ (0 > 0)  OBVIOUS
<1>9. (\A k \in 1..(4 - 1) : s[i + k] \in C) <=> c \in C /\ d \in C /\ e \in C
  BY Behind, Zenon DEF c, d, e
<1>10. s[i + 1] = c  BY DEF c
<1> QED  BY <1>1, <1>3, <1>5, <1>6, <1>7, <1>8, <1>9, <1>10, Zenon

\* No character begins with another byte.
LEMMA NoneIsShaped ==
    ASSUME NEW s \in Seq(Byte), NEW i \in 1..Len(s), NEW b \in Int, b = s[i],
           (128 <= b /\ b <= 191) \/ 248 <= b
    PROVE  ~ ValidAt(s, i) /\ ~ Shaped(s, i)
<1>1. Bytes(b) = 0 /\ SequenceLength(b) = 0  BY Lengths
<1>2. ValidAt(s, i) => 0 > 0  BY <1>1, Zenon DEF ValidAt
<1>3. Shaped(s, i) => 0 > 0  BY <1>1, Zenon DEF Shaped
<1> QED  BY <1>2, <1>3

\* Decoding a character and comparing it with the range of its length is what the
\* standard says of its bytes.
LEMMA CharacterIsShaped ==
    ASSUME NEW s \in Seq(Byte), NEW i \in 1..Len(s)
    PROVE  /\ ValidAt(s, i) <=> Shaped(s, i)
           /\ Shaped(s, i) => /\ SequenceLength(s[i]) = Bytes(s[i])
                              /\ SequenceLength(s[i]) \in 1..4
                              /\ s[i] \notin 128..191
<1>1. PICK b \in Byte : b = s[i]  OBVIOUS
<1>2. b \in Int /\ 0 <= b /\ b <= 255  BY DEF Byte
<1>3. 1 \in 1..4 /\ 2 \in 1..4 /\ 3 \in 1..4 /\ 4 \in 1..4  OBVIOUS
<1>4. CASE b <= 127
  <2>1. b \notin 128..191  BY <1>2, <1>4
  <2>2. ValidAt(s, i) /\ Shaped(s, i) /\ SequenceLength(b) = 1 /\ Bytes(b) = 1
    BY <1>1, <1>2, <1>4, OneIsShaped, SMT
  <2> QED  BY <1>1, <1>3, <2>1, <2>2, Zenon
<1>5. CASE 192 <= b /\ b <= 223
  <2>1. b \notin 128..191  BY <1>2, <1>5
  <2>2. /\ ValidAt(s, i) <=> Shaped(s, i)
        /\ Shaped(s, i) => SequenceLength(b) = 2 /\ Bytes(b) = 2
    BY <1>1, <1>2, <1>5, TwoAreShaped, SMT
  <2> QED  BY <1>1, <1>3, <2>1, <2>2, Zenon
<1>6. CASE 224 <= b /\ b <= 239
  <2>1. b \notin 128..191  BY <1>2, <1>6
  <2>2. /\ ValidAt(s, i) <=> Shaped(s, i)
        /\ SequenceLength(b) = 3 /\ Bytes(b) = 3
    BY <1>1, <1>2, <1>6, ThreeAreShaped, SMT
  <2> QED  BY <1>1, <1>3, <2>1, <2>2, Zenon
<1>7. CASE 240 <= b /\ b <= 247
  <2>1. b \notin 128..191  BY <1>2, <1>7
  <2>2. /\ ValidAt(s, i) <=> Shaped(s, i)
        /\ Shaped(s, i) => SequenceLength(b) = 4 /\ Bytes(b) = 4
    BY <1>1, <1>2, <1>7, FourAreShaped, SMT
  <2> QED  BY <1>1, <1>3, <2>1, <2>2, Zenon
<1>8. CASE (128 <= b /\ b <= 191) \/ 248 <= b
  <2>1. ~ ValidAt(s, i) /\ ~ Shaped(s, i)  BY <1>1, <1>2, <1>8, NoneIsShaped, SMT
  <2> QED  BY <2>1, Zenon
<1>9. \/ b <= 127
      \/ 192 <= b /\ b <= 223
      \/ 224 <= b /\ b <= 239
      \/ 240 <= b /\ b <= 247
      \/ (128 <= b /\ b <= 191) \/ 248 <= b
  BY <1>2
<1> QED  BY <1>4, <1>5, <1>6, <1>7, <1>8, <1>9, Zenon

\* What the standard says of the character at i, and that another begins behind it.
Chained(s, starts, i) ==
    LET n == SequenceLength(s[i]) IN
    /\ n > 0
    /\ i + n \in starts \union {Len(s) + 1}
    /\ \A k \in 1 .. (n - 1) : s[i + k] \in 128 .. 191
    /\ n > 1 => s[i + 1] \in SecondBytes(s[i])

\* Where characters begin.
Starts(s) == {i \in DOMAIN s : s[i] \notin 128 .. 191}

\* Every character from i on is chained.
ChainedFrom(s, i) ==
    /\ i \in Starts(s) \union {Len(s) + 1}
    /\ \A j \in Starts(s) : j >= i => Chained(s, Starts(s), j)

\* The reference definition, in these words.
LEMMA WellFormedIs ==
    ASSUME NEW s
    PROVE  WellFormedUtf8(s) <=> 1 \in Starts(s) /\ \A i \in Starts(s) : Chained(s, Starts(s), i)
BY Zenon DEF WellFormedUtf8, Starts, Chained

\* A character is chained if it is shaped and another begins behind it.
LEMMA ChainedIs ==
    ASSUME NEW s \in Seq(Byte), NEW i \in 1..Len(s), NEW n, n = SequenceLength(s[i])
    PROVE  Chained(s, Starts(s), i) <=> Shaped(s, i) /\ i + n \in Starts(s) \union {Len(s) + 1}
<1> DEFINE C == 128..191
           T == Starts(s)
<1>1. Chained(s, T, i) <=> /\ n > 0
                           /\ i + n \in T \union {Len(s) + 1}
                           /\ \A k \in 1..(n - 1) : s[i + k] \in C
                           /\ n > 1 => s[i + 1] \in SecondBytes(s[i])
  BY Zenon DEF Chained
<1>2. Shaped(s, i) <=> /\ n > 0 /\ i + n <= Len(s) + 1
                       /\ \A k \in 1..(n - 1) : s[i + k] \in C
                       /\ n > 1 => s[i + 1] \in SecondBytes(s[i])
  BY Zenon DEF Shaped
<1>3. ASSUME i + n \in T \union {Len(s) + 1} PROVE i + n <= Len(s) + 1
  <2>1. Len(s) \in Nat /\ DOMAIN s = 1..Len(s)  OBVIOUS
  <2> HIDE DEF C
  <2>2. T \subseteq 1..Len(s)  BY <2>1, Zenon DEF Starts
  <2> HIDE DEF T
  <2>3. i + n \in 1..Len(s) \/ i + n = Len(s) + 1  BY <1>3, <2>2
  <2> QED  BY <2>1, <2>3
<1> HIDE DEF C, T
<1> QED  BY <1>1, <1>2, <1>3, Zenon DEF T

\* From every position on, the text is valid if and only if a character begins there
\* and all are chained from there.
LEMMA ValidIsChained ==
    ASSUME NEW s \in Seq(Byte)
    PROVE  \A i \in 1..(Len(s) + 1) : ValidFrom(s)[i] <=> ChainedFrom(s, i)
<1> DEFINE L == Len(s)
           V == ValidFrom(s)
           T == Starts(s)
           P(i) == V[i] <=> ChainedFrom(s, i)
           S == {m \in 1..(L + 1) : \A i \in m..(L + 1) : P(i)}
<1>0. L \in Nat /\ DOMAIN s = 1..L /\ T \subseteq 1..L /\ L + 1 \in 1..(L + 1)
  <2>1. L \in Nat /\ DOMAIN s = 1..L  OBVIOUS
  <2>2. T \subseteq 1..L  BY <2>1, Zenon DEF Starts
  <2> QED  BY <2>1, <2>2
<1>1. \A i \in 1..(L + 1) : V[i] = ValidBody(s, V, i)
  <2>1. V = [i \in 1..(Len(s) + 1) |-> ValidBody(s, V, i)]  BY ValidDef
  <2> HIDE DEF V
  <2> QED  BY <2>1
<1> HIDE DEF V, T
<1>2. L + 1 \in S
  <2>1. V[L + 1] = TRUE  BY <1>0, <1>1 DEF ValidBody
  <2>2. \A j \in T : ~ (j >= L + 1)  BY <1>0
  <2>3. ChainedFrom(s, L + 1)  BY <2>2 DEF ChainedFrom, T
  <2>4. P(L + 1)  BY <2>1, <2>3
  <2>5. \A i \in (L + 1)..(L + 1) : i = L + 1  BY <1>0
  <2> HIDE DEF P
  <2> QED  BY <1>0, <2>4, <2>5
<1>3. ASSUME NEW m \in 1..L, m + 1 \in S PROVE m \in S
  <2> DEFINE n == SequenceLength(s[m])
  <2>1. /\ ValidAt(s, m) <=> Shaped(s, m)
        /\ Shaped(s, m) => n = Bytes(s[m]) /\ n \in 1..4 /\ m \in T
    <3>1. /\ ValidAt(s, m) <=> Shaped(s, m)
          /\ Shaped(s, m) => n = Bytes(s[m]) /\ n \in 1..4 /\ s[m] \notin 128..191
      BY CharacterIsShaped
    <3>2. s[m] \notin 128..191 => m \in T  BY <1>0, Zenon DEF T, Starts
    <3> QED  BY <3>1, <3>2, Zenon
  <2>2. Chained(s, T, m) <=> Shaped(s, m) /\ m + n \in T \union {L + 1}
    BY ChainedIs DEF T
  <2>3. V[m] = (ValidAt(s, m) /\ V[m + Bytes(s[m])])
    <3>1. m \in 1..(L + 1) /\ m # L + 1  BY <1>0
    <3> QED  BY <1>1, <3>1 DEF ValidBody
  <2>4. Shaped(s, m) => m + n <= L + 1 /\ \A j \in T : j > m => j >= m + n
    <3> SUFFICES ASSUME Shaped(s, m) PROVE m + n <= L + 1 /\ \A j \in T : j > m => j >= m + n
      OBVIOUS
    <3>1. n \in Nat /\ m + n <= L + 1 /\ \A k \in 1..(n - 1) : s[m + k] \in 128..191
      <4>1. m + n <= L + 1 /\ \A k \in 1..(n - 1) : s[m + k] \in 128..191  BY Zenon DEF Shaped
      <4>2. n \in Nat
        <5>1. n \in 1..4  BY <2>1
        <5> HIDE DEF n
        <5> QED  BY <5>1
      <4> QED  BY <4>1, <4>2, Zenon
    <3>2. ASSUME NEW j \in T, j > m, j < m + n PROVE FALSE
      <4> HIDE DEF n
      <4>1. j \in Nat /\ j - m \in 1..(n - 1) /\ m + (j - m) = j  BY <1>0, <3>1, <3>2
      <4> DEFINE k == j - m
      <4>2. s[m + k] \in 128..191 /\ m + k = j
        <5>1. k \in 1..(n - 1) /\ m + k = j  BY <4>1
        <5> HIDE DEF k
        <5> QED  BY <3>1, <5>1, Zenon
      <4>3. s[j] \in 128..191  BY <4>2, Zenon
      <4> QED  BY <4>3, Zenon DEF T, Starts
    <3> HIDE DEF n
    <3> QED  BY <1>0, <3>1, <3>2
  <2> HIDE DEF n
  <2>5. Shaped(s, m) => P(m + n)
    <3> SUFFICES ASSUME Shaped(s, m) PROVE P(m + n)  OBVIOUS
    <3>1. m + n \in (m + 1)..(L + 1)  BY <1>0, <2>1, <2>4
    <3> HIDE DEF P
    <3> QED  BY <1>3, <3>1
  <2>6. ASSUME V[m] PROVE ChainedFrom(s, m)
    <3>1. Shaped(s, m) /\ V[m + n] /\ m \in T  BY <2>1, <2>3, <2>6
    <3>2. /\ m + n \in T \union {L + 1}
          /\ \A j \in T : j >= m + n => Chained(s, T, j)
      BY <2>5, <3>1, Zenon DEF ChainedFrom, T
    <3>3. Chained(s, T, m)  BY <2>2, <3>1, <3>2
    <3>4. \A j \in T : j >= m => j = m \/ j >= m + n  BY <1>0, <2>4, <3>1
    <3> QED  BY <3>1, <3>2, <3>3, <3>4, Zenon DEF ChainedFrom, T
  <2>7. ASSUME ChainedFrom(s, m) PROVE V[m]
    <3>1. m \in T \union {L + 1} /\ \A j \in T : j >= m => Chained(s, T, j)
      BY <2>7, Zenon DEF ChainedFrom, T
    <3>2. m \in T /\ m >= m  BY <1>0, <3>1
    <3>3. Shaped(s, m) /\ m + n \in T \union {L + 1}  BY <2>2, <3>1, <3>2
    <3>4. \A j \in T : j >= m + n => j >= m  BY <1>0, <2>1, <3>3
    <3>5. ChainedFrom(s, m + n)  BY <3>1, <3>3, <3>4, Zenon DEF ChainedFrom, T
    <3>6. V[m + n]  BY <2>5, <3>3, <3>5
    <3> QED  BY <2>1, <2>3, <3>3, <3>6
  <2>8. P(m)
    <3>1. V[m] <=> ChainedFrom(s, m)  BY <2>6, <2>7
    <3> QED  BY <3>1
  <2> HIDE DEF P
  <2>9. \A i \in m..(L + 1) : i = m \/ i \in (m + 1)..(L + 1)  BY <1>0
  <2>10. \A i \in (m + 1)..(L + 1) : P(i)  BY <1>3
  <2>11. m \in 1..(L + 1)  BY <1>0
  <2> QED  BY <2>8, <2>9, <2>10, <2>11
<1>4. \A m \in 1..(L + 1) : m \in S
  <2> DEFINE b == L + 1
  <2>1. b \in Nat /\ b \in S /\ \A m \in 1..(b - 1) : m + 1 \in S => m \in S
    <3>1. b - 1 = L /\ b \in Nat  BY <1>0
    <3> HIDE DEF S
    <3>2. \A m \in 1..L : m + 1 \in S => m \in S  BY <1>3
    <3> QED  BY <1>2, <3>1, <3>2
  <2> HIDE DEF S, b
  <2>2. \A m \in 1..b : m \in S  BY <2>1, DownInduction
  <2> QED  BY <2>2 DEF b
<1>5. ASSUME NEW i \in 1..(L + 1) PROVE P(i)
  <2> HIDE DEF P
  <2>1. i \in S /\ i \in i..(L + 1)  BY <1>0, <1>4
  <2> QED  BY <2>1
<1> QED  BY <1>5 DEF V

\* Decoding text character by character, is_valid_utf8 accepts just what the standard
\* calls well-formed, for every text of bytes.
THEOREM Utf8IsWellFormed == ASSUME NEW s \in Seq(Byte) PROVE is_valid_utf8(s) = WellFormedUtf8(s)
<1>1. Len(s) \in Nat /\ DOMAIN s = 1..Len(s)  OBVIOUS
<1>2. Starts(s) \subseteq 1..Len(s)  BY <1>1, Zenon DEF Starts
<1>3. ValidFrom(s)[1] <=> ChainedFrom(s, 1)
  <2>1. 1 \in 1..(Len(s) + 1)  BY <1>1
  <2> QED  BY <2>1, ValidIsChained, Zenon
<1>4. \A j \in Starts(s) : j >= 1  BY <1>1, <1>2
<1>5. s # <<>> => 1 # Len(s) + 1  BY <1>1
<1>6. 1 \in Starts(s) => s # <<>>  BY <1>1, <1>2
<1>7. is_valid_utf8(s) <=> s # <<>> /\ ChainedFrom(s, 1)  BY <1>3, Zenon DEF is_valid_utf8
<1>8. ChainedFrom(s, 1) <=> /\ 1 \in Starts(s) \union {Len(s) + 1}
                            /\ \A j \in Starts(s) : Chained(s, Starts(s), j)
  BY <1>4, Zenon DEF ChainedFrom
<1>9. is_valid_utf8(s) <=> WellFormedUtf8(s)
  BY <1>5, <1>6, <1>7, <1>8, WellFormedIs, Zenon
<1>10. is_valid_utf8(s) \in BOOLEAN /\ WellFormedUtf8(s) \in BOOLEAN
  BY Zenon DEF is_valid_utf8, WellFormedUtf8
<1> QED  BY <1>9, <1>10

-----------------------------------------------------------------------------
(* The tree.                                                               *)

\* One node, read inside of the data.
Only(n) == {[node |-> n, out |-> FALSE]}

\* The function of the nodes reached exists.
LEMMA ReachedDef ==
    ASSUME NEW db, NEW start, NEW last, NEW bits, Len(bits) \in Nat
    PROVE  LET r == Reached(db, start, bits, last) IN
           /\ r[0] = Only(start)
           /\ \A k \in 1..Len(bits) : r[k] = Follow(db, r[k - 1], bits[k], last)
<1> DEFINE L == Len(bits)
           A == Only(start)
           F(x, k) == Follow(db, x, bits[k], last)
           Body(f, k) == IF k = 0 THEN A ELSE F(f[k - 1], k)
           Is(f, n) == f = [k \in 0..n |-> Body(f, k)]
           S == {n \in 0..L : \E f : Is(f, n)}
<1>a. Reached(db, start, bits, last) = CHOOSE f : Is(f, L)  BY Zenon DEF Reached, Only
<1> HIDE DEF A, F
<1>0. L \in Nat  OBVIOUS
<1>1. 0 \in S
  <2>1. Is([k \in {0} |-> A], 0)  OBVIOUS
  <2> HIDE DEF Is
  <2> QED  BY <1>0, <2>1
<1>2. ASSUME NEW n \in 0..(L - 1), n \in S PROVE n + 1 \in S
  <2>1. PICK f : Is(f, n)  BY <1>2
  <2> DEFINE g == [k \in 0..(n + 1) |-> IF k = n + 1 THEN Body(f, k) ELSE f[k]]
  <2>2. \A k \in 0..(n + 1) : g[k] = Body(g, k)
    <3> TAKE k \in 0..(n + 1)
    <3>1. CASE k = n + 1  BY <3>1
    <3>2. CASE k # n + 1  BY <2>1, <3>2
    <3> QED  BY <3>1, <3>2
  <2>3. Is(g, n + 1)  BY <2>2
  <2> HIDE DEF Is, g
  <2> QED  BY <1>0, <2>3
<1>3. L \in S
  <2> HIDE DEF S
  <2>1. \A n \in 0..L : n \in S  BY <1>0, <1>1, <1>2, SetInduction
  <2> QED  BY <1>0, <2>1
<1>4. \E f : Is(f, L)  BY <1>3
<1> DEFINE E == Reached(db, start, bits, last)
<1>5. E = [k \in 0..L |-> Body(E, k)]  BY <1>4, <1>a
<1> HIDE DEF E
<1>6. E[0] = A  BY <1>0, <1>5
<1>7. \A k \in 1..L : E[k] = F(E[k - 1], k)
  <2> TAKE k \in 1..L
  <2>1. k \in 0..L /\ k # 0  BY <1>0
  <2> QED  BY <1>5, <2>1
<1> QED  BY <1>6, <1>7 DEF E, A, F

\* A node read where its number stands inside of the data.
LEMMA NodeIsRead ==
    ASSUME NEW db, NEW n \in Nat, NEW bit \in Bit, NEW m, db.data_ \in Seq(Byte),
           IsNumber(m, db.data_, n * 8 + bit * 4)
    PROVE  read_node(db, n, bit) = Only(m)
<1> DEFINE d == db.data_
           o == n * 8 + bit * 4
           x == ((Signed(At(db, o)) * 256 + At(db, o + 1)) * 256 + At(db, o + 2)) * 256 + At(db, o + 3)
<1>0. Len(d) \in Nat /\ bit \in {0, 1}  BY DEF Bit
<1>1. /\ o \in Nat /\ o + 4 <= Len(d) /\ d[o + 1] < 128
      /\ m = ((d[o + 1] * 256 + d[o + 2]) * 256 + d[o + 3]) * 256 + d[o + 4]
  BY Zenon DEF IsNumber
<1>2. n <= Len(d)
  <2>1. n <= o  BY <1>0
  <2> HIDE DEF o
  <2> QED  BY <1>0, <1>1, <2>1
<1>3. n \in 0..Len(d) /\ Inside(db, o, 4)
  <2>1. Inside(db, o, 4)  BY <1>1 DEF Inside
  <2>2. n \in 0..Len(d)  BY <1>0, <1>2
  <2> QED  BY <2>1, <2>2
<1> HIDE DEF o
<1>4. /\ At(db, o) = d[o + 1] /\ At(db, o + 1) = d[o + 2]
      /\ At(db, o + 2) = d[o + 3] /\ At(db, o + 3) = d[o + 4]
  <2>1. o < Len(d) /\ o + 1 < Len(d) /\ o + 2 < Len(d) /\ o + 3 < Len(d)  BY <1>0, <1>1
  <2>2. (o + 1) + 1 = o + 2 /\ (o + 2) + 1 = o + 3 /\ (o + 3) + 1 = o + 4  BY <1>1
  <2>3. At(db, o) = d[o + 1] /\ At(db, o + 1) = d[(o + 1) + 1]
        /\ At(db, o + 2) = d[(o + 2) + 1] /\ At(db, o + 3) = d[(o + 3) + 1]
    BY <2>1, Zenon DEF At
  <2> QED  BY <2>2, <2>3
<1>5. Signed(d[o + 1]) = d[o + 1]  BY <1>1 DEF Signed
<1>6. x = m  BY <1>1, <1>4, <1>5
<1>7. read_node(db, n, bit) = Only(x)  BY <1>3, Zenon DEF read_node, o, Only
<1> HIDE DEF x
<1> QED  BY <1>6, <1>7

\* Following a bit, from a node of the tree and from a record.
LEMMA BitIsFollowed ==
    ASSUME NEW db, NEW n, NEW m, NEW bit, NEW last,
           (n <= last /\ read_node(db, n, bit) = Only(m)) \/ (~ (n <= last) /\ m = n)
    PROVE  Follow(db, Only(n), bit, last) = Only(m)
<1> DEFINE r == [node |-> n, out |-> FALSE]
           t == [node |-> m, out |-> FALSE]
           G(q) == IF q.node <= last
                   THEN {[node |-> s.node, out |-> s.out \/ q.out] : s \in read_node(db, q.node, bit)}
                   ELSE {q}
<1>0. Only(n) = {r} /\ Only(m) = {t}  BY DEF Only
<1>1. Follow(db, {r}, bit, last) = UNION {G(q) : q \in {r}}  BY Zenon DEF Follow
<1>2. r.node = n /\ r.out = FALSE  OBVIOUS
<1>3. CASE n <= last /\ read_node(db, n, bit) = Only(m)
  <2>0. read_node(db, n, bit) = {t}  BY <1>0, <1>3
  <2>1. G(r) = {[node |-> s.node, out |-> s.out \/ r.out] : s \in {t}}  BY <1>2, <1>3, <2>0, Zenon
  <2>2. t.node = m /\ (t.out \/ r.out) = FALSE  OBVIOUS
  <2> HIDE DEF r
  <2>3. [node |-> t.node, out |-> t.out \/ r.out] = t  BY <2>2, Zenon
  <2> HIDE DEF t
  <2>4. G(r) = {t}  BY <2>1, <2>3
  <2> HIDE DEF G
  <2> QED  BY <1>0, <1>1, <2>4 DEF r, t
<1>4. CASE ~ (n <= last) /\ m = n
  <2>1. G(r) = {r}  BY <1>2, <1>4, Zenon
  <2> HIDE DEF G
  <2> QED  BY <1>0, <1>1, <1>4, <2>1
<1> QED  BY <1>0, <1>3, <1>4

\* A bit of a packed file is followed from one number to the next.
LEMMA NumberIsFollowed ==
    ASSUME NEW f \in Files, NEW db, db.data_ = f.data, NEW last \in {f.node_count - 1, f.node_count},
           NEW n, NEW m, NEW bit \in Bit,
           Leads(f, n, bit, m)
    PROVE  Follow(db, Only(n), bit, last) = Only(m)
<1>0. f.data \in Seq(Byte) /\ f.node_count \in Nat /\ last \in Int
  <2>1. f.data \in Seq(Byte) /\ f.node_count \in Nat  BY FilesAssumption
  <2> QED  BY <2>1
<1>1. CASE n \in 0..(f.node_count - 1) /\ IsNumber(m, f.data, n * 8 + bit * 4)
  <2>1. n \in Nat /\ n <= last  BY <1>0, <1>1
  <2>2. IsNumber(m, db.data_, n * 8 + bit * 4) /\ db.data_ \in Seq(Byte)  BY <1>0, <1>1
  <2>3. read_node(db, n, bit) = Only(m)
    BY <2>1, <2>2, NodeIsRead, Zenon
  <2> QED  BY <2>1, <2>3, BitIsFollowed, SMT
<1>2. CASE n \in Nat /\ n > f.node_count /\ m = n
  <2>1. ~ (n <= last)  BY <1>0, <1>2
  <2> QED  BY <1>2, <2>1, BitIsFollowed, SMT
<1> QED  BY <1>1, <1>2 DEF Leads

\* From the node of a prefix, the bits behind it lead to the node of the longer one.
LEMMA PrefixIsWalked ==
    ASSUME NEW f \in Files, TreeIsPacked(f), NEW db, db.data_ = f.data, NEW bits \in FullAddresses,
           NEW last \in {f.node_count - 1, f.node_count},
           NEW bs \in Seq(Bit), NEW k \in Nat, k + Len(bs) <= g_ipv6_bit,
           \A i \in 1..Len(bs) : bs[i] = bits[k + i]
    PROVE  Walk(db, f.number[Prefix(bits, k)], bs, last)
              = Only(f.number[Prefix(bits, k + Len(bs))])
<1> DEFINE L == Len(bs)
           N(i) == f.number[Prefix(bits, k + i)]
           R == Reached(db, N(0), bs, last)
           S == {i \in 0..L : R[i] = Only(N(i))}
<1>0. /\ L \in Nat /\ f.data \in Seq(Byte) /\ f.node_count \in Nat /\ last \in Int /\ g_ipv6_bit \in Nat
      /\ k + L <= g_ipv6_bit
  <2>1. L \in Nat  OBVIOUS
  <2>2. f.data \in Seq(Byte) /\ f.node_count \in Nat  BY FilesAssumption
  <2>3. g_ipv6_bit \in Nat  BY WidthAssumption
  <2> QED  BY <2>1, <2>2, <2>3
<1>1. /\ R[0] = Only(N(0))
      /\ \A i \in 1..L : R[i] = Follow(db, R[i - 1], bs[i], last)
  <2> DEFINE start == N(0)
  <2>1. Len(bs) \in Nat  BY <1>0
  <2> HIDE DEF N, start
  <2>2. LET r == Reached(db, start, bs, last) IN
        /\ r[0] = Only(start)
        /\ \A i \in 1..Len(bs) : r[i] = Follow(db, r[i - 1], bs[i], last)
    BY <2>1, ReachedDef
  <2> QED  BY <2>2, Zenon DEF start
<1> HIDE DEF R
<1>2. ASSUME NEW i \in 0..(L - 1), i \in S PROVE i + 1 \in S
  <2> DEFINE n == N(i)
             m == N(i + 1)
             bit == bs[i + 1]
             j == k + i
  <2>1. j \in 0..(g_ipv6_bit - 1) /\ j + 1 = k + (i + 1) /\ i + 1 \in 1..L /\ (i + 1) - 1 = i
    BY <1>0
  <2>2. bit = bits[j + 1] /\ bit \in Bit  BY <2>1
  <2>3. Leads(f, n, bit, m)
    <3>1. Leads(f, f.number[Prefix(bits, j)], bits[j + 1], f.number[Prefix(bits, j + 1)])
      <4>1. j \in 0..(g_ipv6_bit - 1)  BY <2>1
      <4> HIDE DEF j
      <4> QED  BY <4>1, Zenon DEF TreeIsPacked
    <3>2. f.number[Prefix(bits, j)] = n /\ f.number[Prefix(bits, j + 1)] = m  BY <2>1
    <3> QED  BY <2>2, <3>1, <3>2, Zenon
  <2>5. Follow(db, Only(n), bit, last) = Only(m)
    <3> HIDE DEF n, m, bit
    <3> QED  BY <2>2, <2>3, NumberIsFollowed
  <2> HIDE DEF N, n, m, bit, j
  <2>6. R[i] = Only(n)  BY <1>2 DEF n
  <2>7. R[i + 1] = Follow(db, R[i], bit, last)
    <3>1. R[i + 1] = Follow(db, R[(i + 1) - 1], bs[i + 1], last)  BY <1>1, <2>1
    <3> QED  BY <2>1, <3>1 DEF bit
  <2>8. i + 1 \in 0..L  BY <1>0
  <2> QED  BY <2>5, <2>6, <2>7, <2>8 DEF m
<1>3. \A i \in 0..L : i \in S
  <2>1. 0 \in S  BY <1>0, <1>1
  <2> HIDE DEF S
  <2> QED  BY <1>0, <1>2, <2>1, SetInduction
<1>4. R[L] = Only(N(L))
  <2>1. L \in 0..L  BY <1>0
  <2> QED  BY <1>3, <2>1
<1>5. N(0) = f.number[Prefix(bits, k)]
  <2>1. k + 0 = k  OBVIOUS
  <2> QED  BY <2>1
<1>6. Walk(db, N(0), bs, last) = R[L]  BY Zenon DEF Walk, R
<1> QED  BY <1>4, <1>5, <1>6

\* The bits that lead to the IPv4 addresses, of which there are some.
LEMMA V4BitsAre ==
    /\ V4Bits \in Seq(Bit) /\ Len(V4Bits) = MappedBits
    /\ \E bits \in FullAddresses : \A i \in 1..MappedBits : bits[i] = V4Bits[i]
<1>0. /\ g_ipv4_bit \in Nat /\ g_ipv6_bit \in Nat /\ ZeroBits \in Nat /\ MappedBits \in Nat
      /\ MappedBits + g_ipv4_bit = g_ipv6_bit
  BY WidthAssumption
<1>1. V4Bits \in [1..MappedBits -> Bit]  BY DEF V4Bits, Bit
<1>2. V4Bits \in Seq(Bit) /\ Len(V4Bits) = MappedBits  BY <1>0, <1>1
<1> DEFINE bits == [i \in 1..g_ipv6_bit |-> IF i <= MappedBits THEN V4Bits[i] ELSE 0]
<1>3. \A i \in 1..g_ipv6_bit : bits[i] \in Bit
  <2> TAKE i \in 1..g_ipv6_bit
  <2>1. CASE i <= MappedBits
    <3>1. i \in 1..MappedBits  BY <1>0, <2>1
    <3> QED  BY <1>1, <2>1, <3>1
  <2>2. CASE ~ (i <= MappedBits)  BY <2>2 DEF Bit
  <2> QED  BY <2>1, <2>2
<1>4. bits \in FullAddresses  BY <1>3 DEF FullAddresses
<1>5. \A i \in 1..MappedBits : bits[i] = V4Bits[i]  BY <1>0
<1> HIDE DEF bits
<1> QED  BY <1>2, <1>4, <1>5

\* A beginning that agrees is the prefix.
LEMMA PrefixIs ==
    ASSUME NEW bits, NEW s \in Seq(Bit), \A i \in 1..Len(s) : bits[i] = s[i]
    PROVE  Prefix(bits, Len(s)) = s
<1> DEFINE p == Prefix(bits, Len(s))
<1>1. Len(s) \in Nat /\ s = [i \in 1..Len(s) |-> s[i]]  OBVIOUS
<1>2. p = [i \in 1..Len(s) |-> bits[i]]  BY DEF Prefix
<1> QED  BY <1>1, <1>2

\* The constructor follows them to their node.
LEMMA V4OffsetIs ==
    ASSUME NEW f \in Files, TreeIsPacked(f), NEW db, db.data_ = f.data, db.node_count_ = f.node_count
    PROVE  v4_offset(db) = Only(f.number[V4Bits])
<1>0. MappedBits \in Nat /\ g_ipv4_bit \in Nat /\ MappedBits + g_ipv4_bit = g_ipv6_bit
  BY WidthAssumption
<1>1. PICK bits \in FullAddresses : \A i \in 1..MappedBits : bits[i] = V4Bits[i]  BY V4BitsAre
<1>2. V4Bits \in Seq(Bit) /\ Len(V4Bits) = MappedBits  BY V4BitsAre
<1>3. Prefix(bits, MappedBits) = V4Bits  BY <1>1, <1>2, PrefixIs
<1>4. f.number[Prefix(bits, 0)] = 0  BY Zenon DEF TreeIsPacked
<1>5. Walk(db, f.number[Prefix(bits, 0)], V4Bits, f.node_count - 1)
          = Only(f.number[Prefix(bits, 0 + Len(V4Bits))])
  <2> DEFINE last == f.node_count - 1
  <2>1. last \in {f.node_count - 1, f.node_count}  OBVIOUS
  <2> HIDE DEF last
  <2>2. 0 \in Nat /\ 0 + Len(V4Bits) <= g_ipv6_bit  BY <1>0, <1>2
  <2>3. \A i \in 1..Len(V4Bits) : V4Bits[i] = bits[0 + i]  BY <1>1, <1>2
  <2>4. Walk(db, f.number[Prefix(bits, 0)], V4Bits, last)
            = Only(f.number[Prefix(bits, 0 + Len(V4Bits))])
    BY <1>2, <2>1, <2>2, <2>3, PrefixIsWalked
  <2> QED  BY <2>4 DEF last
<1>6. 0 + Len(V4Bits) = MappedBits  BY <1>0, <1>2
<1> QED  BY <1>3, <1>4, <1>5, <1>6 DEF v4_offset

\* An address has all its bits.
LEMMA FullBitsAre ==
    ASSUME NEW addr \in Addresses, addr.kind # "bad"
    PROVE  /\ FullBits(addr) \in FullAddresses
           /\ Prefix(FullBits(addr), g_ipv6_bit) = FullBits(addr)
           /\ addr.bits \in Seq(Bit)
           /\ addr.kind = "v4" => /\ Len(addr.bits) = g_ipv4_bit
                                  /\ \A i \in 1..MappedBits : FullBits(addr)[i] = V4Bits[i]
                                  /\ \A i \in 1..g_ipv4_bit : addr.bits[i] = FullBits(addr)[MappedBits + i]
           /\ addr.kind # "v4" => Len(addr.bits) = g_ipv6_bit /\ FullBits(addr) = addr.bits
<1> DEFINE b == addr.bits
           full == FullBits(addr)
<1>0. /\ g_ipv4_bit \in Nat /\ g_ipv6_bit \in Nat /\ ZeroBits \in Nat /\ MappedBits \in Nat
      /\ MappedBits + g_ipv4_bit = g_ipv6_bit
  BY WidthAssumption
<1>1. \/ addr.kind = "v4" /\ b \in [1..g_ipv4_bit -> Bit]
      \/ addr.kind = "v6" /\ b \in [1..g_ipv6_bit -> Bit]
  BY AddressesAssumption DEF FullAddresses
<1>2. b \in Seq(Bit)  BY <1>0, <1>1
<1>3. V4Bits \in Seq(Bit) /\ Len(V4Bits) = MappedBits  BY V4BitsAre
<1>4. CASE addr.kind = "v4"
  <2>1. Len(b) = g_ipv4_bit  BY <1>0, <1>1, <1>4
  <2>2. full = V4Bits \o b  BY <1>4 DEF FullBits
  <2> HIDE DEF b, full
  <2>3. full \in Seq(Bit) /\ Len(full) = g_ipv6_bit
        /\ \A i \in 1..g_ipv6_bit : full[i] = IF i <= MappedBits THEN V4Bits[i] ELSE b[i - MappedBits]
    BY <1>0, <1>2, <1>3, <2>1, <2>2, ConcatProperties
  <2>4. \A i \in 1..MappedBits : full[i] = V4Bits[i]  BY <1>0, <2>3
  <2>5. \A i \in 1..g_ipv4_bit : b[i] = full[MappedBits + i]
    <3> TAKE i \in 1..g_ipv4_bit
    <3>1. /\ MappedBits + i \in 1..g_ipv6_bit /\ ~ (MappedBits + i <= MappedBits)
          /\ (MappedBits + i) - MappedBits = i
      BY <1>0
    <3> QED  BY <2>3, <3>1
  <2>6. full \in FullAddresses  BY <2>3 DEF FullAddresses
  <2>7. Prefix(full, g_ipv6_bit) = full  BY <2>3, PrefixIs
  <2> QED  BY <1>2, <1>4, <2>1, <2>4, <2>5, <2>6, <2>7 DEF b, full
<1>5. CASE addr.kind # "v4"
  <2>1. full = b /\ b \in [1..g_ipv6_bit -> Bit]  BY <1>1, <1>5 DEF FullBits
  <2>2. Len(b) = g_ipv6_bit  BY <1>0, <2>1
  <2> HIDE DEF b, full
  <2>3. Prefix(b, g_ipv6_bit) = b  BY <1>2, <2>2, PrefixIs
  <2> QED  BY <1>2, <1>5, <2>1, <2>2, <2>3 DEF b, full, FullAddresses
<1> QED  BY <1>4, <1>5

\* search leads to the record of the address.
LEMMA SearchIs ==
    ASSUME NEW f \in Files, TreeIsPacked(f), NEW db, db.data_ = f.data, db.node_count_ = f.node_count,
           db.v4_offset_ = f.number[V4Bits], NEW addr \in Addresses, addr.kind # "bad"
    PROVE  search(db, addr) = Only(f.number[FullBits(addr)])
<1> DEFINE full == FullBits(addr)
           bs == addr.bits
           last == f.node_count
<1>0. /\ g_ipv4_bit \in Nat /\ g_ipv6_bit \in Nat /\ ZeroBits \in Nat /\ MappedBits \in Nat
      /\ MappedBits + g_ipv4_bit = g_ipv6_bit
  BY WidthAssumption
<1>1. last \in {f.node_count - 1, f.node_count}  OBVIOUS
<1>2. full \in FullAddresses /\ Prefix(full, g_ipv6_bit) = full /\ bs \in Seq(Bit)  BY FullBitsAre
<1>3. search(db, addr) = Walk(db, Root(db, addr), bs, last)  BY DEF search
<1>4. CASE addr.kind = "v4"
  <2>1. /\ Len(bs) = g_ipv4_bit
        /\ \A i \in 1..MappedBits : full[i] = V4Bits[i]
        /\ \A i \in 1..g_ipv4_bit : bs[i] = full[MappedBits + i]
    BY <1>4, FullBitsAre
  <2>2. Root(db, addr) = f.number[V4Bits]  BY <1>4 DEF Root
  <2> HIDE DEF full, bs, last
  <2>3. V4Bits \in Seq(Bit) /\ Len(V4Bits) = MappedBits  BY V4BitsAre
  <2>4. Prefix(full, MappedBits) = V4Bits  BY <2>1, <2>3, PrefixIs
  <2>5. MappedBits + Len(bs) <= g_ipv6_bit /\ MappedBits + Len(bs) = g_ipv6_bit  BY <1>0, <2>1
  <2>6. \A i \in 1..Len(bs) : bs[i] = full[MappedBits + i]  BY <2>1
  <2>7. Walk(db, f.number[Prefix(full, MappedBits)], bs, last)
            = Only(f.number[Prefix(full, MappedBits + Len(bs))])
    <3> DEFINE k == MappedBits
    <3>1. k \in Nat /\ k + Len(bs) <= g_ipv6_bit /\ \A i \in 1..Len(bs) : bs[i] = full[k + i]
      BY <1>0, <2>5, <2>6
    <3> HIDE DEF k
    <3>2. Walk(db, f.number[Prefix(full, k)], bs, last) = Only(f.number[Prefix(full, k + Len(bs))])
      BY <1>1, <1>2, <3>1, PrefixIsWalked
    <3> QED  BY <3>2 DEF k
  <2>8. Walk(db, f.number[V4Bits], bs, last) = Only(f.number[full])
    BY <1>2, <2>4, <2>5, <2>7
  <2> QED  BY <1>3, <2>2, <2>8 DEF full
<1>5. CASE addr.kind # "v4"
  <2>1. Len(bs) = g_ipv6_bit /\ full = bs  BY <1>5, FullBitsAre
  <2>2. Root(db, addr) = 0  BY <1>5 DEF Root
  <2> HIDE DEF full, bs, last
  <2>3. f.number[Prefix(full, 0)] = 0  BY <1>2, Zenon DEF TreeIsPacked
  <2>4. 0 \in Nat /\ 0 + Len(bs) <= g_ipv6_bit /\ 0 + Len(bs) = g_ipv6_bit  BY <1>0, <2>1
  <2>5. \A i \in 1..Len(bs) : bs[i] = full[0 + i]  BY <2>1, <2>4
  <2>6. Walk(db, f.number[Prefix(full, 0)], bs, last) = Only(f.number[Prefix(full, 0 + Len(bs))])
    BY <1>1, <1>2, <2>4, <2>5, PrefixIsWalked
  <2>7. Walk(db, 0, bs, last) = Only(f.number[full])  BY <1>2, <2>3, <2>4, <2>6
  <2> QED  BY <1>3, <2>2, <2>7 DEF full
<1> QED  BY <1>4, <1>5

\* What a reader of a packed file is: without a language it can be asked in it has
\* no data, but then it is not asked.
HasRead(f, db) ==
    /\ db.fields_ = f.fields /\ db.languages_ = ParsedLanguages(f)
    /\ db.languages_ # {} =>
          /\ db.data_ = f.data /\ db.data_size_ = Len(f.data) /\ db.node_count_ = f.node_count
          /\ db.file_size_ = 4 + f.meta_length + Len(f.data)
          /\ db.v4_offset_ = f.number[V4Bits]

\* The description of a file.
LEMMA DescribedIs ==
    ASSUME NEW f
    PROVE  LET db == Described(f) IN
           /\ db.fields_ = f.fields /\ db.languages_ = ParsedLanguages(f)
           /\ db.node_count_ = f.node_count /\ db.data_ = <<>>
           /\ db.file_size_ = 4 + f.meta_length + Len(f.data)
<1> DEFINE size == 4 + f.meta_length + Len(f.data)
           langs == ParsedLanguages(f)
           fields == f.fields
           count == f.node_count
           version == f.ip_version
<1>1. Described(f) = [NoReader EXCEPT !.ip_version_ = version, !.node_count_ = count,
                          !.file_size_ = size, !.fields_ = fields, !.languages_ = langs]
  BY Zenon DEF Described
<1> HIDE DEF size, langs, fields, count, version
<1>2. /\ Described(f).fields_ = fields /\ Described(f).languages_ = langs
      /\ Described(f).node_count_ = count /\ Described(f).file_size_ = size
      /\ Described(f).data_ = <<>>
  BY <1>1 DEF NoReader
<1> QED  BY <1>2 DEF size, langs, fields, count

\* The constructor makes such a reader, and reads inside of the data.
LEMMA ReadersHaveRead ==
    ASSUME NEW f \in Files, Intact(f), NEW r \in Readers(f)
    PROVE  HasRead(f, r.db) /\ r.out = FALSE
<1>0. f.json /\ SizeIsRight(f) /\ TreeIsPacked(f)  BY PackedAssumption DEF Intact
<1> DEFINE d == Described(f)
<1>1. /\ d.fields_ = f.fields /\ d.languages_ = ParsedLanguages(f)
      /\ d.node_count_ = f.node_count /\ d.data_ = <<>>
      /\ d.file_size_ = 4 + f.meta_length + Len(f.data)
  BY DescribedIs
<1>2. CASE ParsedLanguages(f) = {}
  <2>1. r = [db |-> d, out |-> FALSE]  BY <1>0, <1>2, Zenon DEF Readers
  <2> HIDE DEF d
  <2>2. r.db = d /\ r.out = FALSE  BY <2>1
  <2> QED  BY <1>1, <1>2, <2>2, Zenon DEF HasRead
<1>3. CASE ParsedLanguages(f) # {}
  <2> DEFINE data == f.data
             size == Len(f.data)
             db == [d EXCEPT !.data_ = data, !.data_size_ = size]
  <2>1. r \in {[db |-> [db EXCEPT !.v4_offset_ = q.node], out |-> q.out] : q \in v4_offset(db)}
    BY <1>0, <1>3, Zenon DEF Readers
  <2> HIDE DEF data, size, d
  <2>2. /\ db.data_ = data /\ db.data_size_ = size /\ db.fields_ = d.fields_
        /\ db.languages_ = d.languages_ /\ db.node_count_ = d.node_count_ /\ db.file_size_ = d.file_size_
    BY DEF d, Described, NoReader
  <2>3. DOMAIN db = DOMAIN NoReader  BY DEF d, Described
  <2> HIDE DEF db
  <2>4. db.data_ = f.data /\ db.node_count_ = f.node_count  BY <1>1, <2>2 DEF data
  <2>5. v4_offset(db) = Only(f.number[V4Bits])  BY <1>0, <2>4, V4OffsetIs
  <2> DEFINE o == f.number[V4Bits]
             e == [db EXCEPT !.v4_offset_ = o]
  <2>6. r = [db |-> e, out |-> FALSE]
    <3>1. PICK q \in Only(o) : r = [db |-> [db EXCEPT !.v4_offset_ = q.node], out |-> q.out]
      BY <2>1, <2>5, Zenon
    <3>2. q.node = o /\ q.out = FALSE
      <4> HIDE DEF o
      <4>1. q = [node |-> o, out |-> FALSE]  BY Zenon DEF Only
      <4> QED  BY <4>1
    <3> QED  BY <3>1, <3>2, Zenon
  <2> HIDE DEF o
  <2>7. /\ e.v4_offset_ = o /\ e.data_ = db.data_ /\ e.data_size_ = db.data_size_
        /\ e.fields_ = db.fields_ /\ e.languages_ = db.languages_
        /\ e.node_count_ = db.node_count_ /\ e.file_size_ = db.file_size_
    BY <2>3 DEF NoReader
  <2> HIDE DEF e
  <2>8. r.db = e /\ r.out = FALSE  BY <2>6
  <2> QED  BY <1>1, <2>2, <2>7, <2>8, Zenon DEF HasRead, o, data, size
<1> QED  BY <1>2, <1>3

\* A reader of a file of the wrong size has no data.
LEMMA NoDataOfAWrongSize ==
    ASSUME NEW f, ~ SizeIsRight(f), NEW r \in Readers(f)
    PROVE  r.db.data_ = <<>>
<1>1. r = [db |-> NoReader, out |-> FALSE] \/ r = [db |-> Described(f), out |-> FALSE]
  BY Zenon DEF Readers
<1>2. NoReader.data_ = <<>>  BY DEF NoReader
<1>3. Described(f).data_ = <<>>  BY DescribedIs
<1>4. r.db = NoReader \/ r.db = Described(f)
  <2> DEFINE d == Described(f)
             n == NoReader
  <2> HIDE DEF d, n
  <2>1. r = [db |-> n, out |-> FALSE] \/ r = [db |-> d, out |-> FALSE]  BY <1>1 DEF d, n
  <2>2. r.db = n \/ r.db = d  BY <2>1
  <2> QED  BY <2>2 DEF d, n
<1> QED  BY <1>2, <1>3, <1>4, Zenon

-----------------------------------------------------------------------------
(* The records, as they are read.                                          *)

\* The text before a NUL is the bytes before it.
LEMMA CStringIs ==
    ASSUME NEW db, db.data_ \in Seq(Byte), NEW o \in Nat, NEW l \in Nat, o + l <= Len(db.data_),
           o + l = Len(db.data_) \/ db.data_[o + l + 1] = NUL,
           \A i \in 1..l : db.data_[o + i] # NUL
    PROVE  CString(db, o) = SubSeq(db.data_, o + 1, o + l)
<1> DEFINE d == db.data_
           D == Len(d)
           Is(e) == At(db, e) = NUL /\ \A i \in o..(e - 1) : At(db, i) # NUL
           end == CHOOSE e \in o..D : Is(e)
<1>0. D \in Nat  OBVIOUS
<1>1. \A i \in o..(o + l - 1) : At(db, i) = d[i + 1] /\ At(db, i) # NUL
  <2> TAKE i \in o..(o + l - 1)
  <2>1. i < D /\ (i - o) + 1 \in 1..l /\ o + ((i - o) + 1) = i + 1  BY <1>0
  <2>2. At(db, i) = d[i + 1]  BY <2>1 DEF At
  <2>3. d[i + 1] # NUL  BY <2>1
  <2> QED  BY <2>2, <2>3
<1>2. At(db, o + l) = NUL
  <2>1. CASE o + l = D  BY <1>0, <2>1 DEF At
  <2>2. CASE o + l # D
    <3>1. d[o + l + 1] = NUL /\ o + l < D  BY <1>0, <2>2
    <3> QED  BY <3>1 DEF At
  <2> QED  BY <2>1, <2>2
<1>3. o + l \in o..D /\ Is(o + l)  BY <1>0, <1>1, <1>2
<1>4. \A e \in o..D : Is(e) => e = o + l
  <2> SUFFICES ASSUME NEW e \in o..D, Is(e), e # o + l PROVE FALSE  OBVIOUS
  <2>1. CASE e < o + l
    <3>1. e \in o..(o + l - 1)  BY <1>0, <2>1
    <3> QED  BY <1>1, <3>1
  <2>2. CASE o + l < e
    <3>1. o + l \in o..(e - 1)  BY <1>0, <2>2
    <3> QED  BY <1>2, <3>1
  <2> QED  BY <1>0, <2>1, <2>2
<1>5. end = o + l
  <2> HIDE DEF Is
  <2> QED  BY <1>3, <1>4
<1>6. CString(db, o) = [i \in 1..(end - o) |-> At(db, o + i - 1)]  BY Zenon DEF CString
<1> HIDE DEF end
<1>7. CString(db, o) = [i \in 1..l |-> At(db, o + i - 1)]
  <2>1. end - o = l  BY <1>5
  <2> QED  BY <1>6, <2>1
<1> DEFINE c == CString(db, o)
           t == SubSeq(d, o + 1, o + l)
<1>8. t \in Seq(Byte) /\ Len(t) = l /\ \A i \in 1..l : t[i] = d[o + i]
  <2> DEFINE m == o + 1
             n == o + l
  <2>1. m \in 1..(D + 1) /\ n \in (m - 1)..D /\ n - m + 1 = l  BY <1>0
  <2>2. \A i \in 1..l : m + i - 1 = o + i  OBVIOUS
  <2> HIDE DEF m, n
  <2>3. /\ SubSeq(d, m, n) \in Seq(Byte) /\ Len(SubSeq(d, m, n)) = n - m + 1
        /\ \A i \in 1..(n - m + 1) : SubSeq(d, m, n)[i] = d[m + i - 1]
    BY <2>1, SubSeqOf
  <2>4. SubSeq(d, m, n) = t  BY DEF m, n
  <2> HIDE DEF t
  <2> QED  BY <2>1, <2>2, <2>3, <2>4
<1> HIDE DEF t
<1>9. \A i \in 1..l : At(db, o + i - 1) = t[i]
  <2> TAKE i \in 1..l
  <2>1. o + i - 1 \in o..(o + l - 1) /\ (o + i - 1) + 1 = o + i  OBVIOUS
  <2>2. At(db, o + i - 1) = d[(o + i - 1) + 1]  BY <1>1, <2>1
  <2> QED  BY <1>8, <2>1, <2>2
<1>10. t = [i \in 1..l |-> t[i]]  BY <1>8
<1>11. c = t  BY <1>7, <1>9, <1>10
<1> QED  BY <1>11 DEF t

\* Where the record of an address lies, and its text.
Place(f, bits) == f.number[Prefix(bits, g_ipv6_bit)] - f.node_count + f.node_count * 8
TextOf(f, bits) ==
    SubSeq(f.data, Place(f, bits) + 3,
           Place(f, bits) + 2 + (Ends(f.records[bits])[Len(f.records[bits])] - 1))

\* resolve reads the text of the record or refuses it, and refuses none that begins
\* with an ASCII character far from the end.
LEMMA ResolveIs ==
    ASSUME NEW f \in Files, Intact(f), NEW bits \in FullAddresses, NEW db, HasRead(f, db),
           db.languages_ # {}
    PROVE  LET t == resolve(db, f.number[Prefix(bits, g_ipv6_bit)]) IN
           /\ t.out = FALSE
           /\ t.text \in {<<>>, TextOf(f, bits)}
           /\ f.slack >= 127 /\ TextOf(f, bits) # <<>> /\ TextOf(f, bits)[1] \in 1..127
                => t.text = TextOf(f, bits)
           /\ TextOf(f, bits) \in Seq(Byte) /\ IsTabbed(TextOf(f, bits), f.records[bits])
<1> DEFINE N == f.number[Prefix(bits, g_ipv6_bit)]
           fields == f.records[bits]
           d == f.data
           o == N - f.node_count + f.node_count * 8
           l == Ends(fields)[Len(fields)] - 1
           T == TextOf(f, bits)
<1>0. /\ d \in Seq(Byte) /\ f.node_count \in Nat /\ f.meta_length \in Nat /\ f.slack \in Nat
      /\ Len(d) \in Nat
  <2>1. d \in Seq(Byte) /\ {f.node_count, f.meta_length, f.slack} \subseteq Nat  BY FilesAssumption
  <2> QED  BY <2>1
<1>1. TreeIsPacked(f) /\ fields \in Seq(Seq(Byte)) \ {<<>>} /\ RecordIsPacked(f, bits)
  BY PackedAssumption
<1>2. N \in Nat /\ N > f.node_count  BY <1>1, Zenon DEF TreeIsPacked
<1>3. /\ o \in Nat /\ l \in Nat /\ o + 2 + l + f.slack <= Len(d)
      /\ d[o + 1] = 0
      /\ IsTabbed(SubSeq(d, o + 3, o + 2 + l), fields)
      /\ o + 2 + l = Len(d) \/ d[o + 2 + l + 1] = NUL
      /\ \A k \in DOMAIN fields : \A i \in DOMAIN fields[k] : fields[k][i] \notin {NUL, TAB}
  BY <1>1, Zenon DEF RecordIsPacked
<1>4. T = SubSeq(d, o + 3, o + 2 + l)  BY Zenon DEF TextOf, Place
<1>5. /\ db.data_ = d /\ db.data_size_ = Len(d) /\ db.node_count_ = f.node_count
      /\ db.file_size_ = 4 + f.meta_length + Len(d)
  BY DEF HasRead
<1> DEFINE hi  == Signed(At(db, o))
           lo  == Signed(At(db, o + 2))
           end == o + 2 + (IF lo < 0 THEN lo ELSE hi * 256 + lo)
           X   == IF end < 0 \/ end > db.data_size_ THEN <<>> ELSE CString(db, o + 2)
<1>6. ~ (N <= 0 \/ db.data_ = <<>> \/ o < 0 \/ o >= db.file_size_)
  <2> HIDE DEF N, o, l, d
  <2>1. ~ (N <= 0) /\ ~ (o < 0)  BY <1>0, <1>2, <1>3
  <2>2. o + 2 <= Len(d)  BY <1>0, <1>3
  <2>3. d # <<>>  BY <1>0, <1>3, <2>2
  <2>4. ~ (o >= db.file_size_)  BY <1>0, <1>3, <1>5, <2>2
  <2> QED  BY <1>5, <2>1, <2>3, <2>4
<1>7. resolve(db, N) = [text |-> X, out |-> ~Inside(db, o, 2)]
  <2>1. N - db.node_count_ + db.node_count_ * 8 = o  BY <1>5
  <2>2. resolve(db, N) =
          LET resolved == N - db.node_count_ + db.node_count_ * 8
              h        == Signed(At(db, resolved))
              w        == Signed(At(db, resolved + 2))
              e        == resolved + 2 + (IF w < 0 THEN w ELSE h * 256 + w)
          IN  IF N <= 0 \/ db.data_ = <<>> \/ resolved < 0 \/ resolved >= db.file_size_
              THEN [text |-> <<>>, out |-> FALSE]
              ELSE [text |-> IF e < 0 \/ e > db.data_size_ THEN <<>> ELSE CString(db, resolved + 2),
                    out  |-> ~Inside(db, resolved, 2)]
    BY Zenon DEF resolve
  <2> HIDE DEF N
  <2> QED  BY <1>6, <2>1, <2>2, ZenonT(60)
<1> HIDE DEF N, o, l, d
<1>8. Inside(db, o, 2)  BY <1>0, <1>3, <1>5 DEF Inside
<1>9. CString(db, o + 2) = T
  <2> DEFINE p == o + 2
  <2>0. T \in Seq(Byte) /\ Len(T) = l /\ \A i \in 1..l : T[i] = d[p + i]
    <3> DEFINE m == o + 3
               n == o + 2 + l
    <3>1. m \in 1..(Len(d) + 1) /\ n \in (m - 1)..Len(d) /\ n - m + 1 = l  BY <1>0, <1>3
    <3>2. \A i \in 1..l : m + i - 1 = p + i  BY <1>3
    <3> HIDE DEF m, n, p
    <3>3. /\ SubSeq(d, m, n) \in Seq(Byte) /\ Len(SubSeq(d, m, n)) = n - m + 1
          /\ \A i \in 1..(n - m + 1) : SubSeq(d, m, n)[i] = d[m + i - 1]
      BY <1>0, <3>1, SubSeqOf
    <3>4. SubSeq(d, m, n) = T  BY <1>4 DEF m, n
    <3> HIDE DEF T
    <3> QED  BY <3>1, <3>2, <3>3, <3>4
  <2>1. p \in Nat /\ p + l <= Len(d) /\ (p + l = Len(d) \/ d[p + l + 1] = NUL)  BY <1>0, <1>3, SMTT(60)
  <2>2. \A j \in 1..Len(T) : T[j] # NUL  BY <1>1, <1>3, <1>4, <2>0, TabbedHasNoNul
  <2>3. \A i \in 1..l : d[p + i] # NUL  BY <2>0, <2>2
  <2> HIDE DEF p
  <2>4. CString(db, p) = SubSeq(d, p + 1, p + l)
    <3>1. /\ db.data_ \in Seq(Byte) /\ p \in Nat /\ l \in Nat /\ p + l <= Len(db.data_)
          /\ p + l = Len(db.data_) \/ db.data_[p + l + 1] = NUL
          /\ \A i \in 1..l : db.data_[p + i] # NUL
      BY <1>0, <1>3, <1>5, <2>1, <2>3
    <3>2. CString(db, p) = SubSeq(db.data_, p + 1, p + l)  BY <3>1, CStringIs, ZenonT(60)
    <3> QED  BY <1>5, <3>2
  <2>5. p + 1 = o + 3 /\ p + l = o + 2 + l  BY <1>3 DEF p
  <2> QED  BY <1>4, <2>4, <2>5 DEF p
<1>10. T \in Seq(Byte) /\ IsTabbed(T, fields) /\ (T # <<>> => T[1] = d[o + 3] /\ o + 3 <= Len(d))
  <2> DEFINE m == o + 3
             n == o + 2 + l
  <2>1. m \in 1..(Len(d) + 1) /\ n \in (m - 1)..Len(d) /\ n - m + 1 = l  BY <1>0, <1>3
  <2> HIDE DEF m, n
  <2>2. /\ SubSeq(d, m, n) \in Seq(Byte) /\ Len(SubSeq(d, m, n)) = n - m + 1
        /\ \A i \in 1..(n - m + 1) : SubSeq(d, m, n)[i] = d[m + i - 1]
    BY <1>0, <2>1, SubSeqOf
  <2>3. SubSeq(d, m, n) = T  BY <1>4 DEF m, n
  <2> HIDE DEF T
  <2>4. ASSUME T # <<>> PROVE T[1] = d[o + 3] /\ o + 3 <= Len(d)
    <3>1. Len(T) = l /\ Len(T) # 0  BY <2>1, <2>2, <2>3, <2>4, EmptySeq
    <3>2. 1 \in 1..l  BY <1>3, <3>1
    <3>3. T[1] = d[m + 1 - 1]  BY <2>1, <2>2, <2>3, <3>2
    <3>4. m + 1 - 1 = o + 3 /\ o + 3 <= Len(d)  BY <1>0, <1>3, <3>2 DEF m
    <3> QED  BY <3>3, <3>4
  <2>5. IsTabbed(T, fields)  BY <1>3, <1>4
  <2> QED  BY <2>2, <2>3, <2>4, <2>5
<1>11. ASSUME f.slack >= 127, T # <<>>, T[1] \in 1..127 PROVE X = CString(db, o + 2)
  <2> DEFINE b == T[1]
  <2> HIDE DEF T
  <2>1. b \in Int /\ 1 <= b /\ b <= 127
    <3>1. b \in 1..127  BY <1>11
    <3> HIDE DEF b
    <3> QED  BY <3>1
  <2> HIDE DEF b
  <2>2. At(db, o) = 0 /\ At(db, o + 2) = b
    <3>1. o < Len(d) /\ o + 2 < Len(d) /\ (o + 2) + 1 = o + 3  BY <1>0, <1>3, <1>10, <1>11
    <3>2. At(db, o) = d[o + 1] /\ At(db, o + 2) = d[(o + 2) + 1]  BY <1>5, <3>1, Zenon DEF At
    <3> QED  BY <1>3, <1>10, <1>11, <3>1, <3>2 DEF b
  <2>3. Signed(0) = 0 /\ Signed(b) = b  BY <2>1 DEF Signed
  <2>4. hi = 0 /\ lo = b  BY <2>2, <2>3
  <2> HIDE DEF hi, lo
  <2>5. end = o + 2 + b  BY <1>3, <2>1, <2>4
  <2> HIDE DEF end
  <2>6. ~ (end < 0 \/ end > db.data_size_)
    <3>1. end >= 0  BY <1>3, <2>1, <2>5
    <3>2. end <= Len(d)  BY <1>0, <1>3, <1>11, <2>1, <2>5
    <3>3. db.data_size_ = Len(d)  BY <1>5
    <3>4. end \in Int  BY <1>3, <2>1, <2>5
    <3> QED  BY <1>0, <3>1, <3>2, <3>3, <3>4
  <2> QED  BY <2>6
<1>12. X = <<>> \/ X = CString(db, o + 2)  OBVIOUS
<1> DEFINE t == resolve(db, N)
<1>13. t.text = X /\ t.out = FALSE
  <2> HIDE DEF X
  <2>1. t = [text |-> X, out |-> FALSE]  BY <1>7, <1>8
  <2> HIDE DEF t
  <2> QED  BY <2>1
<1> HIDE DEF X, t, T
<1>14. /\ t.out = FALSE /\ t.text \in {<<>>, T} /\ T \in Seq(Byte) /\ IsTabbed(T, fields)
       /\ f.slack >= 127 /\ T # <<>> /\ T[1] \in 1..127 => t.text = T
  BY <1>9, <1>10, <1>11, <1>12, <1>13, Zenon
<1> QED  BY <1>14, Zenon DEF t, T, N

\* What finds makes of a body.
MadeOf(db, found, body) ==
    /\ found.out = body.out
    /\ found.fields = IF body.text = <<>> \/ Len(db.fields_) > Len(split(body.text))
                      THEN <<>> ELSE SubSeq(split(body.text), 1, Len(db.fields_))

\* What find_str makes of a node.
ReadAt(db, body, r) ==
    body.text = resolve(db, r.node).text /\ body.out = (resolve(db, r.node).out \/ r.out)

\* What finds finds is made of one body that find_str finds.
LEMMA FoundIs ==
    ASSUME NEW db, NEW addr, NEW language, NEW found \in finds(db, addr, language)
    PROVE  \/ language \notin db.languages_ /\ found.fields = <<>> /\ found.out = FALSE
           \/ language \in db.languages_ /\ \E body \in find_str(db, addr) : MadeOf(db, found, body)
<1>1. CASE language \notin db.languages_
  <2>1. found = [fields |-> <<>>, out |-> FALSE]  BY <1>1, Zenon DEF finds
  <2> QED  BY <1>1, <2>1
<1>2. CASE language \in db.languages_
  <2>1. PICK body \in find_str(db, addr) :
            found = [fields |-> IF body.text = <<>> \/ Len(db.fields_) > Len(split(body.text))
                                THEN <<>> ELSE SubSeq(split(body.text), 1, Len(db.fields_)),
                     out    |-> body.out]
    BY <1>2, Zenon DEF finds
  <2> DEFINE X == IF body.text = <<>> \/ Len(db.fields_) > Len(split(body.text))
                  THEN <<>> ELSE SubSeq(split(body.text), 1, Len(db.fields_))
             Y == body.out
  <2>2. found = [fields |-> X, out |-> Y]  BY <2>1, Zenon
  <2> HIDE DEF X, Y
  <2>3. found.fields = X /\ found.out = Y  BY <2>2
  <2>4. MadeOf(db, found, body)  BY <2>3, Zenon DEF MadeOf, X, Y
  <2> QED  BY <1>2, <2>4
<1> QED  BY <1>1, <1>2

\* What find_str finds is what resolve makes of the node search leads to.
LEMMA BodyIs ==
    ASSUME NEW db, NEW addr, NEW body \in find_str(db, addr)
    PROVE  \/ ~ Supported(db, addr) /\ body.text = <<>> /\ body.out = FALSE
           \/ Supported(db, addr) /\ \E r \in search(db, addr) : ReadAt(db, body, r)
<1>1. CASE ~ Supported(db, addr)
  <2>1. body = [text |-> <<>>, out |-> FALSE]  BY <1>1, Zenon DEF find_str
  <2> QED  BY <1>1, <2>1
<1>2. CASE Supported(db, addr)
  <2>1. PICK r \in search(db, addr) :
           body = [text |-> resolve(db, r.node).text, out |-> resolve(db, r.node).out \/ r.out]
    BY <1>2, Zenon DEF find_str
  <2> DEFINE X == resolve(db, r.node).text
             Y == resolve(db, r.node).out \/ r.out
  <2>2. body = [text |-> X, out |-> Y]  BY <2>1, Zenon
  <2> HIDE DEF X, Y
  <2>3. body.text = X /\ body.out = Y  BY <2>2
  <2>4. ReadAt(db, body, r)  BY <2>3, Zenon DEF ReadAt, X, Y
  <2> QED  BY <1>2, <2>4
<1> QED  BY <1>1, <1>2

\* Without data there is nothing to find.
LEMMA NothingWithoutData ==
    ASSUME NEW db, db.data_ = <<>>, NEW addr, NEW language, NEW found \in finds(db, addr, language)
    PROVE  found.fields = <<>>
<1>1. \A n : resolve(db, n).text = <<>>
  <2> TAKE n
  <2>1. resolve(db, n) = [text |-> <<>>, out |-> FALSE]  BY Zenon DEF resolve
  <2> DEFINE t == resolve(db, n)
  <2> HIDE DEF t
  <2>2. t = [text |-> <<>>, out |-> FALSE]  BY <2>1 DEF t
  <2>3. t.text = <<>>  BY <2>2
  <2> QED  BY <2>3 DEF t
<1>2. ASSUME NEW body \in find_str(db, addr) PROVE body.text = <<>>
  <2>1. \/ ~ Supported(db, addr) /\ body.text = <<>> /\ body.out = FALSE
        \/ Supported(db, addr) /\ \E r \in search(db, addr) : ReadAt(db, body, r)
    BY BodyIs
  <2> QED  BY <1>1, <2>1 DEF ReadAt
<1>3. \/ language \notin db.languages_ /\ found.fields = <<>> /\ found.out = FALSE
      \/ language \in db.languages_ /\ \E body \in find_str(db, addr) : MadeOf(db, found, body)
  BY FoundIs
<1> QED  BY <1>2, <1>3 DEF MadeOf

\* A text that begins with an ASCII character.
LEMMA TextBegins ==
    ASSUME NEW T \in Seq(Byte), NEW record \in Seq(Seq(Byte)), record # <<>>, IsTabbed(T, record),
           record[1] # <<>>
    PROVE  T # <<>> /\ T[1] = record[1][1]
<1> DEFINE e == Ends(record)
           L == Len(T)
           n == Len(record)
           l == Len(record[1])
<1>1. n \in Nat /\ n >= 1 /\ L \in Nat /\ L = e[n] - 1
      /\ \A k \in 1..n : /\ e[k - 1] \in Nat /\ e[k] \in Nat /\ record[k] \in Seq(Byte)
                         /\ Len(record[k]) \in Nat /\ e[k] = e[k - 1] + Len(record[k]) + 1
  BY TabbedIs
<1>2. 1 \in 1..n /\ n \in 1..n /\ 1 \in 0..n /\ 1 - 1 = 0  BY <1>1
<1>3. e[0] = 0 /\ e[1] <= e[n]  BY <1>2, EndsDef, EndsGrow
<1>4. l \in Nat /\ l # 0
  <2>1. record[1] \in Seq(Byte)  BY <1>1, <1>2
  <2> QED  BY <2>1, EmptySeq
<1> HIDE DEF e, L, n, l
<1>5. e[1] = l + 1 /\ e[1] <= L + 1 /\ e[n] \in Nat
  <2>1. e[1] = e[0] + l + 1 /\ e[n] \in Nat /\ e[1] \in Nat
    <3>1. e[1] = e[1 - 1] + l + 1  BY <1>1, <1>2 DEF l
    <3> QED  BY <1>1, <1>2, <3>1
  <2> QED  BY <1>1, <1>3, <1>4, <2>1
<1>6. 1 \in (e[1 - 1] + 1)..(e[1] - 1)
  <2>1. e[1 - 1] = 0 /\ e[1] - 1 = l  BY <1>2, <1>3, <1>4, <1>5
  <2> QED  BY <1>4, <2>1
<1>7. T[1] = record[1][1 - e[1 - 1]]  BY <1>2, <1>5, <1>6, FieldBytes DEF n, e, L
<1>8. 1 - e[1 - 1] = 1  BY <1>2, <1>3
<1>9. L # 0  BY <1>1, <1>4, <1>5
<1>10. T # <<>>  BY <1>9 DEF L
<1> QED  BY <1>7, <1>8, <1>10

\* What finds finds over a packed file: the record of the address, or nothing, and
\* not nothing if it lies far from the end and begins with an ASCII character.
LEMMA FindsIs ==
    ASSUME NEW f \in Files, Intact(f), NEW db, HasRead(f, db), NEW addr \in Addresses, NEW language,
           NEW found \in finds(db, addr, language)
    PROVE  LET record == f.records[FullBits(addr)] IN
           /\ found.out = FALSE
           /\ addr.kind = "bad" => found.fields = <<>>
           /\ addr.kind # "bad" =>
                 /\ found.fields \in {<<>>, SubSeq(record, 1, Len(f.fields))}
                 /\ (/\ language \in db.languages_ /\ Supported(db, addr) /\ f.slack >= 127
                     /\ record[1] # <<>> /\ record[1][1] \in 1..127)
                       => found.fields = SubSeq(record, 1, Len(f.fields))
<1> DEFINE record == f.records[FullBits(addr)]
           n == Len(f.fields)
<1>a. \/ language \notin db.languages_ /\ found.fields = <<>> /\ found.out = FALSE
      \/ language \in db.languages_ /\ \E body \in find_str(db, addr) : MadeOf(db, found, body)
  BY FoundIs
<1>b. ASSUME NEW body \in find_str(db, addr)
      PROVE  \/ ~ Supported(db, addr) /\ body.text = <<>> /\ body.out = FALSE
             \/ Supported(db, addr) /\ \E r \in search(db, addr) : ReadAt(db, body, r)
  BY BodyIs
<1>1. CASE language \notin db.languages_
  <2>1. found.fields = <<>> /\ found.out = FALSE  BY <1>1, <1>a
  <2> QED  BY <1>1, <2>1, Zenon
<1>2. CASE language \in db.languages_ /\ ~ Supported(db, addr)
  <2>1. found.fields = <<>> /\ found.out = FALSE  BY <1>2, <1>a, <1>b DEF MadeOf
  <2> QED  BY <1>2, <2>1, Zenon
<1>3. CASE language \in db.languages_ /\ Supported(db, addr)
  <2>1. addr.kind # "bad"
    <3>1. "bad" # "v4" /\ "bad" # "v6"  OBVIOUS
    <3> QED  BY <1>3, <3>1, Zenon DEF Supported
  <2>2. FullBits(addr) \in FullAddresses /\ Prefix(FullBits(addr), g_ipv6_bit) = FullBits(addr)
    BY <2>1, FullBitsAre
  <2>3. db.data_ = f.data /\ db.node_count_ = f.node_count /\ db.v4_offset_ = f.number[V4Bits]
        /\ db.fields_ = f.fields
    BY <1>3, Zenon DEF HasRead
  <2>4. TreeIsPacked(f) /\ record \in Seq(Seq(Byte)) \ {<<>>} /\ RecordIsPacked(f, FullBits(addr))
    BY <2>2, PackedAssumption
  <2>5. search(db, addr) = Only(f.number[FullBits(addr)])  BY <2>1, <2>3, <2>4, SearchIs
  <2> DEFINE N == f.number[FullBits(addr)]
             T == TextOf(f, FullBits(addr))
             t == resolve(db, N)
  <2>6. /\ t.out = FALSE
        /\ t.text \in {<<>>, T}
        /\ f.slack >= 127 /\ T # <<>> /\ T[1] \in 1..127 => t.text = T
        /\ T \in Seq(Byte) /\ IsTabbed(T, record)
    <3>1. db.languages_ # {}  BY <1>3
    <3>2. LET q == resolve(db, f.number[Prefix(FullBits(addr), g_ipv6_bit)]) IN
          /\ q.out = FALSE
          /\ q.text \in {<<>>, T}
          /\ f.slack >= 127 /\ T # <<>> /\ T[1] \in 1..127 => q.text = T
          /\ T \in Seq(Byte) /\ IsTabbed(T, record)
      BY <2>2, <3>1, ResolveIs, Zenon
    <3> QED  BY <2>2, <3>2, Zenon
  <2>7. \A k \in DOMAIN record : \A i \in DOMAIN record[k] : record[k][i] # TAB
    BY <2>4, Zenon DEF RecordIsPacked
  <2>8. n \in 1..Len(record) /\ Len(record) \in Nat
    <3>1. n \in 1..Len(record)  BY <2>4, Zenon DEF RecordIsPacked
    <3> QED  BY <2>4, <3>1
  <2>9. split(T) = record
    <3> HIDE DEF record, T
    <3> QED  BY <2>4, <2>6, <2>7, SplitTabbed
  <2>10. ASSUME NEW body \in find_str(db, addr) PROVE body.text = t.text /\ body.out = FALSE
    <3>1. PICK r \in Only(N) : ReadAt(db, body, r)  BY <1>3, <1>b, <2>5
    <3>2. r.node = N /\ r.out = FALSE  BY <3>1 DEF Only
    <3>3. body.text = t.text  BY <3>1, <3>2, Zenon DEF ReadAt
    <3>4. body.out = (t.out \/ r.out)  BY <3>1, <3>2, Zenon DEF ReadAt
    <3> HIDE DEF t
    <3> QED  BY <2>6, <3>2, <3>3, <3>4
  <2>11. /\ found.out = FALSE
         /\ found.fields = IF t.text = <<>> \/ n > Len(split(t.text))
                           THEN <<>> ELSE SubSeq(split(t.text), 1, n)
    <3>1. PICK body \in find_str(db, addr) : MadeOf(db, found, body)  BY <1>3, <1>a
    <3>2. body.text = t.text /\ body.out = FALSE  BY <2>10
    <3> HIDE DEF t
    <3> QED  BY <2>3, <3>1, <3>2 DEF MadeOf
  <2>12. f.slack >= 127 /\ record[1] # <<>> /\ record[1][1] \in 1..127 => t.text = T /\ T # <<>>
    <3> SUFFICES ASSUME f.slack >= 127, record[1] # <<>>, record[1][1] \in 1..127
                 PROVE  t.text = T /\ T # <<>>
      OBVIOUS
    <3> HIDE DEF record, T, t
    <3>1. T # <<>> /\ T[1] = record[1][1]  BY <2>4, <2>6, TextBegins
    <3>2. T[1] \in 1..127  BY <3>1, Zenon
    <3> QED  BY <2>6, <3>1, <3>2, Zenon
  <2> HIDE DEF record, T, N, t, n
  <2>13. t.text # <<>> => found.fields = SubSeq(record, 1, n)
    <3> SUFFICES ASSUME t.text # <<>> PROVE found.fields = SubSeq(record, 1, n)  OBVIOUS
    <3>1. t.text = T  BY <2>6
    <3>2. ~ (n > Len(record))  BY <2>8
    <3> QED  BY <2>9, <2>11, <3>1, <3>2
  <2>14. t.text = <<>> => found.fields = <<>>  BY <2>11
  <2>15. found.fields \in {<<>>, SubSeq(record, 1, n)}  BY <2>13, <2>14
  <2>16. f.slack >= 127 /\ record[1] # <<>> /\ record[1][1] \in 1..127
            => found.fields = SubSeq(record, 1, n)
    BY <2>12, <2>13, Zenon
  <2> QED  BY <2>1, <2>11, <2>15, <2>16, Zenon DEF record, n
<1> QED  BY <1>1, <1>2, <1>3

-----------------------------------------------------------------------------
(* What is shown of the fields found.                                      *)

\* The first field of a name.
First(f, name) ==
    CHOOSE k \in DOMAIN f.fields :
        f.fields[k] = name /\ \A j \in 1 .. (k - 1) : f.fields[j] # name

\* It is a field, and the only first one.
LEMMA FirstIs ==
    ASSUME NEW f, f.fields \in Seq(STRING), NEW name \in Names(f)
    PROVE  /\ First(f, name) \in DOMAIN f.fields
           /\ \A k \in DOMAIN f.fields :
                 (f.fields[k] = name /\ \A j \in 1..(k - 1) : f.fields[j] # name)
                    => k = First(f, name)
<1> DEFINE s == f.fields
           T == {k \in DOMAIN s : s[k] = name}
           Is(k) == s[k] = name /\ \A j \in 1..(k - 1) : s[j] # name
<1>0. Len(s) \in Nat /\ DOMAIN s = 1..Len(s)  OBVIOUS
<1>1. T \in SUBSET Nat /\ T # {}  BY <1>0 DEF Names
<1> HIDE DEF s
<1>2. PICK m \in T : \A k \in T : m <= k  BY <1>1, Least
<1>3. m \in DOMAIN s /\ Is(m)  BY <1>0, <1>2
<1>4. First(f, name) = CHOOSE k \in DOMAIN s : Is(k)  BY Zenon DEF First, s
<1>5. \A a, b \in DOMAIN s : Is(a) /\ Is(b) => a = b
  <2> SUFFICES ASSUME NEW a \in DOMAIN s, NEW b \in DOMAIN s, Is(a), Is(b), a < b PROVE FALSE  BY <1>0
  <2>1. a \in 1..(b - 1)  BY <1>0
  <2> QED  BY <2>1
<1> HIDE DEF Is
<1>6. First(f, name) \in DOMAIN s /\ Is(First(f, name))  BY <1>3, <1>4
<1>7. \A k \in DOMAIN s : Is(k) => k = First(f, name)  BY <1>5, <1>6
<1> QED  BY <1>6, <1>7, Zenon DEF s, Is

\* The first fields of a record.
LEMMA FrontOf ==
    ASSUME NEW record \in Seq(Seq(Byte)), NEW n \in 1..Len(record)
    PROVE  LET d == SubSeq(record, 1, n) IN
           /\ d # <<>> /\ Len(d) = n /\ DOMAIN d = 1..n
           /\ \A k \in 1..n : d[k] = record[k] /\ record[k] \in Seq(Byte)
<1> DEFINE d == SubSeq(record, 1, n)
<1>0. Len(record) \in Nat /\ n \in Nat /\ n >= 1  OBVIOUS
<1>1. 1 \in 1..(Len(record) + 1) /\ n \in (1 - 1)..Len(record)  BY <1>0
<1>2. /\ d \in Seq(Seq(Byte)) /\ Len(d) = n - 1 + 1
      /\ \A i \in 1..(n - 1 + 1) : d[i] = record[1 + i - 1]
  BY <1>1, SubSeqOf
<1> HIDE DEF d
<1>3. n - 1 + 1 = n /\ \A i \in 1..n : 1 + i - 1 = i  BY <1>0
<1>4. Len(d) = n /\ \A i \in 1..n : d[i] = record[i]  BY <1>2, <1>3
<1>5. DOMAIN d = 1..n  BY <1>2, <1>4
<1>6. d # <<>>  BY <1>0, <1>4
<1>7. \A k \in 1..n : record[k] \in Seq(Byte)  BY <1>0
<1> QED  BY <1>4, <1>5, <1>6, <1>7 DEF d

\* find_map keeps, of every name, the first field.
LEMMA FindMapIs ==
    ASSUME NEW f \in Files, NEW record \in Seq(Seq(Byte)), Len(f.fields) \in 1..Len(record),
           NEW db, db.fields_ = f.fields
    PROVE  LET maps == find_map(db, SubSeq(record, 1, Len(f.fields))) IN
           /\ DOMAIN maps = Names(f)
           /\ \A name \in Names(f) : maps[name] = record[First(f, name)] /\ maps[name] \in Seq(Byte)
<1> DEFINE n == Len(f.fields)
           d == SubSeq(record, 1, n)
           maps == find_map(db, d)
           G(name) == d[CHOOSE k \in DOMAIN d :
                            db.fields_[k] = name /\ \A j \in 1..(k - 1) : db.fields_[j] # name]
           S == {db.fields_[k] : k \in DOMAIN d}
<1>0. f.fields \in Seq(STRING)  BY FilesAssumption
<1>1. DOMAIN f.fields = 1..n /\ n \in Nat  BY <1>0
<1>2. DOMAIN d = 1..n /\ \A k \in 1..n : d[k] = record[k] /\ record[k] \in Seq(Byte)
  BY FrontOf
<1>3. maps = [name \in S |-> G(name)]  BY Zenon DEF find_map
<1> HIDE DEF d, n, maps
<1>4. S = Names(f)  BY <1>1, <1>2 DEF Names
<1>5. ASSUME NEW name PROVE G(name) = d[First(f, name)]
  BY <1>1, <1>2, Zenon DEF First
<1>6. DOMAIN maps = S /\ \A name \in S : maps[name] = G(name)
  <2> HIDE DEF G, S
  <2> QED  BY <1>3
<1> HIDE DEF G, S
<1>7. ASSUME NEW name \in Names(f) PROVE maps[name] = record[First(f, name)] /\ maps[name] \in Seq(Byte)
  <2>1. First(f, name) \in 1..n  BY <1>0, <1>1, FirstIs
  <2> QED  BY <1>2, <1>4, <1>5, <1>6, <2>1
<1> QED  BY <1>4, <1>6, <1>7 DEF maps, d, n

-----------------------------------------------------------------------------
(* The accessors of the classes.                                           *)

\* The field of an accessor that returns another's.
Shows(kind, l) == IF kind = "idc" /\ l = "idc" THEN "isp_domain" ELSE l

\* The number of an accessor is the place its field has in the databases.
LEMMA CityIs ==
    /\ \A l \in DOMAIN city_info : city_info[l] \in 1..20 /\ OfficialFields("city")[city_info[l]] = l
    /\ \A j \in 1..20 : city_info[OfficialFields("city")[j]] = j
<1> DEFINE o == OfficialFields("city")
<1>1. \A l \in DOMAIN city_info : city_info[l] \in 1..20 /\ o[city_info[l]] = l
  BY DEF city_info, OfficialFields
<1>2. \A j \in 1..20 : city_info[o[j]] = j
  BY DEF city_info, OfficialFields
<1> QED  BY <1>1, <1>2

\* The same of base_station_info.
LEMMA StationIs ==
    /\ \A l \in DOMAIN base_station_info :
          /\ base_station_info[l] \in 1..6
          /\ OfficialFields("base_station")[base_station_info[l]] = l
    /\ \A j \in 1..6 : base_station_info[OfficialFields("base_station")[j]] = j
<1>1. \A l \in DOMAIN base_station_info :
          /\ base_station_info[l] \in 1..6
          /\ OfficialFields("base_station")[base_station_info[l]] = l
  BY DEF base_station_info, OfficialFields
<1>2. \A j \in 1..6 : base_station_info[OfficialFields("base_station")[j]] = j
  BY DEF base_station_info, OfficialFields
<1> QED  BY <1>1, <1>2

\* The same of district_Info.
LEMMA DistrictIs ==
    /\ \A l \in DOMAIN district_Info :
          district_Info[l] \in 1..8 /\ OfficialFields("district")[district_Info[l]] = l
    /\ \A j \in 1..8 : district_Info[OfficialFields("district")[j]] = j
<1>1. \A l \in DOMAIN district_Info :
          district_Info[l] \in 1..8 /\ OfficialFields("district")[district_Info[l]] = l
  BY DEF district_Info, OfficialFields
<1>2. \A j \in 1..8 : district_Info[OfficialFields("district")[j]] = j
  BY DEF district_Info, OfficialFields
<1> QED  BY <1>1, <1>2

\* The same of idc_info, but for idc(), which shows the field of isp_domain().
LEMMA IdcIs ==
    \A l \in DOMAIN idc_info :
        /\ idc_info[l] \in 1..6
        /\ OfficialFields("idc")[idc_info[l]] = Shows("idc", l)
        /\ \A j \in 1..(idc_info[l] - 1) : OfficialFields("idc")[j] # Shows("idc", l)
<1> TAKE l \in DOMAIN idc_info
<1>1. idc_info[l] \in 1..6 /\ OfficialFields("idc")[idc_info[l]] = Shows("idc", l)
  BY DEF idc_info, OfficialFields, Shows
<1>2. idc_info[l] <= 5  BY DEF idc_info
<1>3. \A j \in 1..4 : OfficialFields("idc")[j] \in {"country_name", "region_name", "city_name", "owner_domain"}
  BY DEF OfficialFields
<1>4. \A a, b \in 1..5 : OfficialFields("idc")[a] = OfficialFields("idc")[b] => a = b
  BY DEF OfficialFields
<1>5. ASSUME NEW j \in 1..(idc_info[l] - 1) PROVE OfficialFields("idc")[j] # Shows("idc", l)
  <2>1. j \in 1..5 /\ idc_info[l] \in 1..5 /\ j # idc_info[l]  BY <1>1, <1>2
  <2> QED  BY <1>1, <1>4, <2>1
<1> QED  BY <1>1, <1>5

\* In all of them it is the first of its name.
LEMMA AccessorIs ==
    ASSUME NEW kind \in {"city", "base_station", "district", "idc"}, NEW l \in DOMAIN Info(kind)
    PROVE  /\ Info(kind)[l] \in Nat /\ Info(kind)[l] >= 1
           /\ OfficialFields(kind)[Info(kind)[l]] = Shows(kind, l)
           /\ \A j \in 1..(Info(kind)[l] - 1) : OfficialFields(kind)[j] # Shows(kind, l)
<1>1. CASE kind = "city"
  <2>1. Info(kind) = city_info /\ Shows(kind, l) = l  BY <1>1 DEF Info, Shows
  <2>2. l \in DOMAIN city_info  BY <2>1
  <2>3. city_info[l] \in 1..20 /\ OfficialFields(kind)[city_info[l]] = l
        /\ \A j \in 1..20 : city_info[OfficialFields(kind)[j]] = j
    BY <1>1, <2>2, CityIs
  <2>4. \A j \in 1..(city_info[l] - 1) : j \in 1..20 /\ j # city_info[l]  BY <2>3
  <2> QED  BY <2>1, <2>3, <2>4
<1>2. CASE kind = "base_station"
  <2>1. Info(kind) = base_station_info /\ Shows(kind, l) = l  BY <1>2 DEF Info, Shows
  <2>2. l \in DOMAIN base_station_info  BY <2>1
  <2>3. base_station_info[l] \in 1..6 /\ OfficialFields(kind)[base_station_info[l]] = l
        /\ \A j \in 1..6 : base_station_info[OfficialFields(kind)[j]] = j
    BY <1>2, <2>2, StationIs
  <2>4. \A j \in 1..(base_station_info[l] - 1) : j \in 1..6 /\ j # base_station_info[l]  BY <2>3
  <2> QED  BY <2>1, <2>3, <2>4
<1>3. CASE kind = "district"
  <2>1. Info(kind) = district_Info /\ Shows(kind, l) = l  BY <1>3 DEF Info, Shows
  <2>2. l \in DOMAIN district_Info  BY <2>1
  <2>3. district_Info[l] \in 1..8 /\ OfficialFields(kind)[district_Info[l]] = l
        /\ \A j \in 1..8 : district_Info[OfficialFields(kind)[j]] = j
    BY <1>3, <2>2, DistrictIs
  <2>4. \A j \in 1..(district_Info[l] - 1) : j \in 1..8 /\ j # district_Info[l]  BY <2>3
  <2> QED  BY <2>1, <2>3, <2>4
<1>4. CASE kind = "idc"
  <2>1. Info(kind) = idc_info  BY <1>4 DEF Info
  <2>2. /\ idc_info[l] \in 1..6
        /\ OfficialFields(kind)[idc_info[l]] = Shows(kind, l)
        /\ \A j \in 1..(idc_info[l] - 1) : OfficialFields(kind)[j] # Shows(kind, l)
    BY <1>4, <2>1, IdcIs
  <2> QED  BY <2>1, <2>2
<1> QED  BY <1>1, <1>2, <1>3, <1>4

\* What a class shows under a label is nothing or the first field of that name.
LEMMA ShownIs ==
    ASSUME NEW f \in Files, Official(f), NEW record \in Seq(Seq(Byte)),
           Len(f.fields) \in 1..Len(record), NEW data \in {<<>>, SubSeq(record, 1, Len(f.fields))},
           NEW l \in DOMAIN Shown(f.kind, data)
    PROVE  Shown(f.kind, data)[l] \in {<<>>, record[First(f, Shows(f.kind, l))]}
<1> DEFINE k == Info(f.kind)[l]
           name == Shows(f.kind, l)
           n == Len(f.fields)
<1>0. f.fields \in Seq(STRING) /\ f.kind \in {"city", "base_station", "district", "idc"}
  BY FilesAssumption
<1>1. l \in DOMAIN Info(f.kind)  BY Zenon DEF Shown
<1>2. Shown(f.kind, data)[l] = IF k <= Len(data) THEN data[k] ELSE <<>>  BY <1>1, Zenon DEF Shown
<1>3. /\ k \in Nat /\ k >= 1
      /\ OfficialFields(f.kind)[k] = name
      /\ \A j \in 1..(k - 1) : OfficialFields(f.kind)[j] # name
  BY <1>0, <1>1, AccessorIs
<1> HIDE DEF k, name
<1>4. DOMAIN f.fields = 1..n /\ n \in Nat  BY <1>0
<1>5. CASE k <= Len(data)
  <2>1. data # <<>>
    <3>1. Len(<<>>) = 0  OBVIOUS
    <3> QED  BY <1>3, <1>5, <3>1
  <2>2. data = SubSeq(record, 1, n)  BY <2>1
  <2>3. Len(data) = n /\ \A i \in 1..n : data[i] = record[i]  BY <2>2, FrontOf
  <2>4. k \in DOMAIN f.fields /\ data[k] = record[k]  BY <1>3, <1>4, <1>5, <2>3
  <2>5. f.fields[k] = name  BY <1>3, <2>4 DEF Official
  <2>6. \A j \in 1..(k - 1) : f.fields[j] # name
    <3> TAKE j \in 1..(k - 1)
    <3>1. j \in DOMAIN f.fields  BY <1>4, <2>4
    <3> QED  BY <1>3, <3>1 DEF Official
  <2>7. name \in Names(f)  BY <2>4, <2>5 DEF Names
  <2>8. k = First(f, name)  BY <1>0, <2>4, <2>5, <2>6, <2>7, FirstIs
  <2>9. Shown(f.kind, data)[l] = record[First(f, name)]  BY <1>2, <1>5, <2>4, <2>8
  <2> QED  BY <2>9 DEF name
<1>6. CASE ~ (k <= Len(data))
  <2>1. Shown(f.kind, data)[l] = <<>>  BY <1>2, <1>6, Zenon
  <2> QED  BY <2>1
<1> QED  BY <1>5, <1>6

-----------------------------------------------------------------------------
(* The invariant.                                                          *)

\* The reader is one the constructor makes of the file that was opened last.
IInv ==
    /\ file = None => ipdb_ = None
    /\ file # None => file \in Files /\ \E r \in Readers(file) : ipdb_ = r.db

\* The field WantedField chooses.
LEMMA WantedIs == \A name : WantedField(name) = file.records[FullBits(asked.addr)][First(file, name)]
BY Zenon DEF WantedField, Wanted, First

\* What is known of a file when it is asked.
LEMMA AskedFile ==
    ASSUME IInv, ipdb_ # None
    PROVE  /\ file \in Files /\ file # None
           /\ Intact(file) => HasRead(file, ipdb_)
           /\ ~ SizeIsRight(file) => ipdb_.data_ = <<>>
<1>1. file # None  BY DEF IInv
<1>2. file \in Files  BY <1>1 DEF IInv
<1>3. PICK r \in Readers(file) : ipdb_ = r.db  BY <1>1 DEF IInv
<1>4. Intact(file) => HasRead(file, ipdb_)  BY <1>2, <1>3, ReadersHaveRead
<1>5. ~ SizeIsRight(file) => ipdb_.data_ = <<>>  BY <1>3, NoDataOfAWrongSize
<1> QED  BY <1>1, <1>2, <1>4, <1>5

\* What finds finds in an intact file, and the record it is of.
LEMMA FindsInIntact ==
    ASSUME IInv, ipdb_ # None, Intact(file), NEW addr \in Addresses, NEW language,
           NEW found \in finds(ipdb_, addr, language)
    PROVE  LET record == file.records[FullBits(addr)] IN
           /\ found.out = FALSE
           /\ addr.kind = "bad" => found.fields = <<>>
           /\ addr.kind # "bad" =>
                 /\ record \in Seq(Seq(Byte)) /\ Len(file.fields) \in 1..Len(record)
                 /\ found.fields \in {<<>>, SubSeq(record, 1, Len(file.fields))}
                 /\ (/\ language \in ParsedLanguages(file) /\ Supported(ipdb_, addr)
                     /\ file.slack >= 127 /\ record[1] # <<>> /\ record[1][1] \in 1..127)
                       => found.fields # <<>>
<1> DEFINE record == file.records[FullBits(addr)]
<1>1. file \in Files /\ HasRead(file, ipdb_)  BY AskedFile
<1>2. ipdb_.languages_ = ParsedLanguages(file)  BY <1>1, Zenon DEF HasRead
<1>3. /\ found.out = FALSE
      /\ addr.kind = "bad" => found.fields = <<>>
      /\ addr.kind # "bad" =>
            /\ found.fields \in {<<>>, SubSeq(record, 1, Len(file.fields))}
            /\ (/\ language \in ParsedLanguages(file) /\ Supported(ipdb_, addr) /\ file.slack >= 127
                /\ record[1] # <<>> /\ record[1][1] \in 1..127)
                  => found.fields = SubSeq(record, 1, Len(file.fields))
  <2> DEFINE f == file
             db == ipdb_
             R == f.records[FullBits(addr)]
  <2>1. f \in Files /\ Intact(f) /\ HasRead(f, db) /\ found \in finds(db, addr, language)
        /\ db.languages_ = ParsedLanguages(f)
    BY <1>1, <1>2, Zenon
  <2> HIDE DEF f, db
  <2>2. /\ found.out = FALSE
        /\ addr.kind = "bad" => found.fields = <<>>
        /\ addr.kind # "bad" =>
              /\ found.fields \in {<<>>, SubSeq(R, 1, Len(f.fields))}
              /\ (/\ language \in db.languages_ /\ Supported(db, addr) /\ f.slack >= 127
                  /\ R[1] # <<>> /\ R[1][1] \in 1..127)
                    => found.fields = SubSeq(R, 1, Len(f.fields))
    BY <2>1, FindsIs, ZenonT(60)
  <2> QED  BY <2>1, <2>2, ZenonT(60) DEF f, db
<1>4. ASSUME addr.kind # "bad"
      PROVE  /\ record \in Seq(Seq(Byte)) /\ Len(file.fields) \in 1..Len(record)
             /\ SubSeq(record, 1, Len(file.fields)) # <<>>
  <2>1. FullBits(addr) \in FullAddresses  BY <1>4, FullBitsAre
  <2>2. record \in Seq(Seq(Byte)) /\ RecordIsPacked(file, FullBits(addr))
    BY <1>1, <2>1, PackedAssumption
  <2>3. Len(file.fields) \in 1..Len(record)  BY <2>2, Zenon DEF RecordIsPacked
  <2> HIDE DEF record
  <2>4. SubSeq(record, 1, Len(file.fields)) # <<>>  BY <2>2, <2>3, FrontOf
  <2> QED  BY <2>2, <2>3, <2>4
<1> HIDE DEF record
<1>5. /\ addr.kind # "bad" =>
            /\ record \in Seq(Seq(Byte)) /\ Len(file.fields) \in 1..Len(record)
            /\ SubSeq(record, 1, Len(file.fields)) # <<>>
  BY <1>4
<1> QED  BY <1>3, <1>5, Zenon DEF record

-----------------------------------------------------------------------------
(* One lemma per action.                                                   *)

Holds == AnswerIsOfTheAddress /\ FoundFarFromTheEnd /\ ReadsInside

\* The file a constructor has just been given is the one whose reader is kept.
LEMMA InitIpdbKeeps ==
    ASSUME NEW f \in Files, init_ipdb(f)
    PROVE  IInv' /\ Holds'
<1>1. PICK r \in Readers(f) : ipdb_' = r.db /\ outside' = r.out  BY Zenon DEF init_ipdb
<1>2. file' = f /\ asked' = None /\ f # None  BY FilesAssumption DEF init_ipdb
<1>3. IInv'  BY <1>1, <1>2 DEF IInv
<1>4. AnswerIsOfTheAddress' /\ FoundFarFromTheEnd'
  BY <1>2 DEF AnswerIsOfTheAddress, FoundFarFromTheEnd, Looked
<1>5. ReadsInside'
  <2>1. Intact(f) => r.out = FALSE  BY <1>1, ReadersHaveRead
  <2>2. outside' => ~ Sound'  BY <1>1, <1>2, <2>1 DEF Sound
  <2> QED  BY <1>2, <2>2 DEF ReadsInside, Looked
<1> QED  BY <1>3, <1>4, <1>5 DEF Holds

\* A file that cannot be opened changes neither the reader nor what it was made of.
LEMMA InitFailsKeeps == ASSUME IInv, init_fails PROVE IInv' /\ Holds'
<1>1. asked' = None /\ outside' = FALSE /\ ipdb_' = ipdb_ /\ file' = file  BY DEF init_fails
<1>2. IInv'  BY <1>1 DEF IInv
<1>3. AnswerIsOfTheAddress' /\ FoundFarFromTheEnd' /\ ReadsInside'
  BY <1>1 DEF AnswerIsOfTheAddress, FoundFarFromTheEnd, ReadsInside, Looked
<1> QED  BY <1>2, <1>3 DEF Holds

\* What an answer of get_ipdb_info stands for.
LEMMA GetIpdbInfoKeeps ==
    ASSUME IInv, NEW addr \in Addresses, NEW language, get_ipdb_info(addr, language)
    PROVE  IInv' /\ Holds'
<1>1. /\ asked' = [call |-> "get_ipdb_info", addr |-> addr, language |-> language]
      /\ ipdb_' = ipdb_ /\ file' = file
  BY Zenon DEF get_ipdb_info
<1>2. asked'.call = "get_ipdb_info" /\ asked'.addr = addr /\ asked'.language = language  BY <1>1
<1>3. IInv'  BY <1>1 DEF IInv
<1>4. ~ Looked("find_info")'
  <2>1. "find_info" # "get_ipdb_info"  OBVIOUS
  <2> QED  BY <1>2, <2>1 DEF Looked
<1>5. CASE ipdb_ = None
  <2>1. file = None
    <3>1. file # None => \E r \in Readers(file) : file \in Files /\ ipdb_ = r.db  BY DEF IInv
    <3> QED  BY <1>5, <3>1, FilesAssumption
  <2>2. ret' = FALSE /\ outside' = FALSE  BY <1>5 DEF get_ipdb_info
  <2>3. ~ Sound'  BY <1>1, <2>1 DEF Sound
  <2> QED  BY <1>1, <1>3, <2>1, <2>2, <2>3
           DEF Holds, AnswerIsOfTheAddress, FoundFarFromTheEnd, ReadsInside
<1>6. CASE ipdb_ # None
  <2> DEFINE maps(found) == find_map(ipdb_, found.fields)
  <2>1. PICK found \in finds(ipdb_, addr, language) :
           /\ ret' = (found.fields # <<>>)
           /\ out' = [f \in OutFields |->
                         IF f \in DOMAIN maps(found) THEN Converted(maps(found)[f]) ELSE out[f]]
           /\ outside' = found.out
    BY <1>6, Zenon DEF get_ipdb_info
  <2> HIDE DEF maps
  <2>2. file \in Files /\ file # None /\ (Intact(file) => HasRead(file, ipdb_))
        /\ (~ SizeIsRight(file) => ipdb_.data_ = <<>>)
    BY <1>6, AskedFile
  <2> DEFINE record == file.records[FullBits(addr)]
  <2>3. ASSUME Intact(file)
        PROVE  /\ found.out = FALSE
               /\ addr.kind = "bad" => found.fields = <<>>
               /\ addr.kind # "bad" =>
                     /\ record \in Seq(Seq(Byte)) /\ Len(file.fields) \in 1..Len(record)
                     /\ found.fields \in {<<>>, SubSeq(record, 1, Len(file.fields))}
                     /\ (/\ language \in ParsedLanguages(file) /\ Supported(ipdb_, addr)
                         /\ file.slack >= 127 /\ record[1] # <<>> /\ record[1][1] \in 1..127)
                           => found.fields # <<>>
    BY <1>6, <2>3, FindsInIntact, Zenon
  <2>4. AnswerIsOfTheAddress'
    <3> SUFFICES ASSUME Sound', addr.kind # "bad", ret', NEW f \in OutFields \intersect Names(file)
                 PROVE  out'[f] = [gbk |-> WellFormedUtf8(WantedField(f)'), str |-> WantedField(f)']
      BY <1>1, <1>2, <1>4 DEF AnswerIsOfTheAddress, Looked
    <3>1. Intact(file)  BY <1>1 DEF Sound
    <3>2. /\ record \in Seq(Seq(Byte)) /\ Len(file.fields) \in 1..Len(record)
          /\ found.fields = SubSeq(record, 1, Len(file.fields))
      BY <2>1, <2>3, <3>1
    <3>3. ipdb_.fields_ = file.fields  BY <2>2, <3>1, Zenon DEF HasRead
    <3>4. /\ DOMAIN maps(found) = Names(file)
          /\ maps(found)[f] = record[First(file, f)] /\ maps(found)[f] \in Seq(Byte)
      <4> HIDE DEF record
      <4>1. LET m == find_map(ipdb_, SubSeq(record, 1, Len(file.fields))) IN
            /\ DOMAIN m = Names(file)
            /\ m[f] = record[First(file, f)] /\ m[f] \in Seq(Byte)
        BY <2>2, <3>2, <3>3, FindMapIs
      <4> QED  BY <3>2, <4>1 DEF maps
    <3>5. WantedField(f)' = record[First(file, f)]
      <4>1. WantedField(f)' = file'.records[FullBits(asked'.addr)][First(file', f)]
        BY Zenon DEF WantedField, Wanted, First
      <4> QED  BY <1>1, <1>2, <4>1
    <3>6. out'[f] = Converted(maps(found)[f])
      <4>1. f \in OutFields /\ f \in DOMAIN maps(found)  BY <3>4
      <4> HIDE DEF record
      <4> QED  BY <2>1, <4>1, Zenon
    <3> DEFINE s == maps(found)[f]
    <3>7. s \in Seq(Byte) /\ WantedField(f)' = s  BY <3>4, <3>5
    <3>8. is_valid_utf8(s) = WellFormedUtf8(s)  BY <3>7, Utf8IsWellFormed
    <3>9. Converted(s) = [gbk |-> is_valid_utf8(s), str |-> s]  BY Zenon DEF Converted
    <3> HIDE DEF s
    <3> QED  BY <3>6, <3>7, <3>8, <3>9, Zenon DEF s
  <2>5. FoundFarFromTheEnd'
    <3> SUFFICES ASSUME Sound', file.slack >= 127, addr.kind # "bad",
                        language \in ParsedLanguages(file), Supported(ipdb_, addr),
                        record[1] # <<>>, record[1][1] \in 1..127
                 PROVE  ret'
      BY <1>1, <1>2, Zenon DEF FoundFarFromTheEnd, Looked, Wanted
    <3>1. Intact(file)  BY <1>1 DEF Sound
    <3> QED  BY <2>1, <2>3, <3>1
  <2>6. ReadsInside'
    <3>1. Intact(file) => outside' = FALSE  BY <2>1, <2>3
    <3>2. ~ SizeIsRight(file) => found.fields = <<>>  BY <2>2, NothingWithoutData
    <3> QED  BY <1>1, <2>1, <3>1, <3>2 DEF ReadsInside, Sound
  <2> QED  BY <1>3, <2>4, <2>5, <2>6 DEF Holds
<1> QED  BY <1>5, <1>6

\* What find_info shows.
LEMMA FindInfoKeeps ==
    ASSUME IInv, NEW addr \in Addresses, NEW language, find_info(addr, language)
    PROVE  IInv' /\ Holds'
<1>1. /\ asked' = [call |-> "find_info", addr |-> addr, language |-> language]
      /\ ipdb_' = ipdb_ /\ file' = file /\ ipdb_ # None
  BY Zenon DEF find_info
<1>2. asked'.call = "find_info" /\ asked'.addr = addr  BY <1>1
<1>3. IInv'  BY <1>1 DEF IInv
<1>4. ~ Looked("get_ipdb_info")'
  <2>1. "find_info" # "get_ipdb_info"  OBVIOUS
  <2> QED  BY <1>2, <2>1 DEF Looked
<1>5. PICK found \in finds(ipdb_, addr, language) :
         shown' = Shown(file.kind, found.fields) /\ outside' = found.out
  BY Zenon DEF find_info
<1>6. file \in Files /\ file # None  BY <1>1, AskedFile
<1> DEFINE record == file.records[FullBits(addr)]
<1>7. ASSUME Intact(file)
      PROVE  /\ found.out = FALSE
             /\ addr.kind # "bad" =>
                   /\ record \in Seq(Seq(Byte)) /\ Len(file.fields) \in 1..Len(record)
                   /\ found.fields \in {<<>>, SubSeq(record, 1, Len(file.fields))}
  BY <1>1, <1>7, FindsInIntact, Zenon
<1>8. AnswerIsOfTheAddress'
  <2> SUFFICES ASSUME Sound', addr.kind # "bad", Official(file),
                      NEW l \in DOMAIN shown' \intersect Names(file)
               PROVE  shown'[l] \in {<<>>, WantedField(Shows(file.kind, l))'}
    BY <1>1, <1>2, <1>4, Zenon DEF AnswerIsOfTheAddress, Looked, Shows
  <2>1. Intact(file)  BY <1>1 DEF Sound
  <2>2. l \in DOMAIN Shown(file.kind, found.fields)  BY <1>5
  <2>3. Shown(file.kind, found.fields)[l] \in {<<>>, record[First(file, Shows(file.kind, l))]}
    <3>1. /\ record \in Seq(Seq(Byte)) /\ Len(file.fields) \in 1..Len(record)
          /\ found.fields \in {<<>>, SubSeq(record, 1, Len(file.fields))}
      BY <1>7, <2>1
    <3> HIDE DEF record
    <3> QED  BY <1>6, <2>2, <3>1, ShownIs
  <2>4. WantedField(Shows(file.kind, l))' = record[First(file, Shows(file.kind, l))]
    <3> DEFINE name == Shows(file.kind, l)
    <3>1. WantedField(name)' = file'.records[FullBits(asked'.addr)][First(file', name')]
      BY Zenon DEF WantedField, Wanted, First
    <3>2. name' = name  BY <1>1
    <3> QED  BY <1>1, <1>2, <3>1, <3>2
  <2> QED  BY <1>5, <2>3, <2>4
<1>9. FoundFarFromTheEnd'  BY <1>4 DEF FoundFarFromTheEnd
<1>10. ReadsInside'
  <2>1. outside' => ~ Sound'  BY <1>1, <1>5, <1>7 DEF Sound
  <2> QED  BY <1>4, <2>1 DEF ReadsInside
<1> QED  BY <1>3, <1>8, <1>9, <1>10 DEF Holds

\* A step that changes nothing.
LEMMA NothingKeeps == ASSUME IInv, Holds, UNCHANGED vars PROVE IInv' /\ Holds'
<1>1. /\ ipdb_' = ipdb_ /\ file' = file /\ out' = out /\ shown' = shown /\ ret' = ret
      /\ outside' = outside /\ asked' = asked
  BY DEF vars
<1>2. IInv'  BY <1>1 DEF IInv
<1>3. Sound' = Sound /\ Wanted' = Wanted /\ \A call : Looked(call)' = Looked(call)
  BY <1>1, Zenon DEF Sound, Wanted, Looked
<1>4. \A name : WantedField(name)' = WantedField(name)  BY <1>1, <1>3, Zenon DEF WantedField
<1>5. AnswerIsOfTheAddress'  BY <1>1, <1>3, <1>4, Zenon DEF Holds, AnswerIsOfTheAddress
<1>6. FoundFarFromTheEnd'  BY <1>1, <1>3, Zenon DEF Holds, FoundFarFromTheEnd
<1>7. ReadsInside'  BY <1>1, <1>3, Zenon DEF Holds, ReadsInside
<1> QED  BY <1>2, <1>5, <1>6, <1>7 DEF Holds

\* The invariant holds, and with it everything an action has to see to.
LEMMA InvHolds == Spec => [](IInv /\ Holds)
<1>1. Init => IInv /\ Holds
  BY DEF Init, IInv, Holds, AnswerIsOfTheAddress, FoundFarFromTheEnd, ReadsInside, Sound
<1>2. IInv /\ Holds /\ [Next]_vars => (IInv /\ Holds)'
  <2> SUFFICES ASSUME IInv, Holds, [Next]_vars PROVE (IInv /\ Holds)'  OBVIOUS
  <2>1. ASSUME NEW f \in Files, init_ipdb(f) PROVE IInv' /\ Holds'  BY <2>1, InitIpdbKeeps
  <2>2. CASE init_fails  BY <2>2, InitFailsKeeps
  <2>3. ASSUME NEW addr \in Addresses, NEW language \in Languages, get_ipdb_info(addr, language)
        PROVE  IInv' /\ Holds'
    BY <2>3, GetIpdbInfoKeeps
  <2>4. ASSUME NEW addr \in Addresses, NEW language \in Languages, find_info(addr, language)
        PROVE  IInv' /\ Holds'
    BY <2>4, FindInfoKeeps
  <2>5. CASE UNCHANGED vars  BY <2>5, NothingKeeps
  <2> QED  BY <2>1, <2>2, <2>3, <2>4, <2>5, Zenon DEF Next
<1> QED  BY <1>1, <1>2, PTL DEF Spec

\* What get_ipdb_info and the info classes show is the record of the address that
\* was asked for, field by field, whatever tree and records the file was packed of.
THEOREM AnswersAreOfTheirAddress == Spec => []AnswerIsOfTheAddress
<1>1. IInv /\ Holds => AnswerIsOfTheAddress  BY DEF Holds
<1> QED  BY <1>1, InvHolds, PTL

\* resolve, whose length is not the record's, refuses no record that begins with an
\* ASCII character and has 127 bytes behind it.
THEOREM RecordsAreFound == Spec => []FoundFarFromTheEnd
<1>1. IInv /\ Holds => FoundFarFromTheEnd  BY DEF Holds
<1> QED  BY <1>1, InvHolds, PTL

\* search and resolve read inside of data_ if the file has the right size and a
\* record for every address, and with a wrong size answer nothing.
THEOREM LookupsReadInside == Spec => []ReadsInside
<1>1. IInv /\ Holds => ReadsInside  BY DEF Holds
<1> QED  BY <1>1, InvHolds, PTL
=============================================================================
